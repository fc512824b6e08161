--------------------------------- MODULE Presence ------------------------------
(***************************************************************************)
(* Who is alive: each daemon's presence lease (internal/presence), its     *)
(* expiry on the leader, the lease.expired events that every replica emits *)
(* while applying its log, the heartbeat monitor behind them, and a        *)
(* starting node's announcement, with crashes, partitions and elections.   *)
(*                                                                         *)
(* Only the presence leases are kept: a node's lease is owned by the node  *)
(* itself, so it is its token or 0.  Of the log, only the effective lease  *)
(* expiries matter here; of time, only whether a lease is within its       *)
(* deadline.  A daemon that reaches the leader knows its address.          *)
(***************************************************************************)
EXTENDS Naturals, Sequences, FiniteSets

CONSTANTS
    Node,
    NoLeader,
    FirstLeader,
    Victim,        \* the nodes that may crash, be cut off or miss a renewal
    MaxMisses,     \* heartbeat.max_misses
    BufferSize,    \* the expiry watcher's event buffer
    MaxToken,      \* bound: grants
    MaxFailures,   \* bound: missed renewals, crashes and partitions, together
    MaxElections   \* bound: leader changes

VARIABLES
    up,          \* running daemons
    cut,         \* daemons that reach no other
    leader,      \* the Raft leader, or NoLeader
    selfAdd,     \* the leader-change callback of this node is yet to run
    announcing,  \* started daemons that have not yet announced themselves
    alive,       \* members whose status is alive
    lease,       \* lease[n]: token of presence.<n>, or 0
    nextToken,
    fresh,       \* nodes whose lease is within its deadline
    token,       \* token[n]: the keeper's token, or 0
    granting,    \* keepers whose renewal failed and that are about to grant
    expired,     \* the effective expiries of the log, in order
    seen,        \* seen[n]: how many of them n has applied
    queue,       \* queue[n]: lease.expired events n's watcher has not handled
    misses,      \* misses[n]: consecutive misses the leader's monitor counted
    used

presenceVars == <<up, cut, leader, selfAdd, announcing, alive, lease, nextToken, fresh, token, granting,
          expired, seen, queue, misses, used>>

ASSUME NodeAssumption == Victim \subseteq Node /\ FirstLeader \in Node

(* The tokens the nodes' first grants got.                                 *)
FirstTokens ==
    CHOOSE f \in [Node -> 1 .. Cardinality(Node)] : \A m, n \in Node : m # n => f[m] # f[n]

(* A cluster that has formed: all are alive and hold their leases.         *)
PresenceInit ==
    /\ up = Node /\ cut = {}
    /\ leader = FirstLeader
    /\ selfAdd = {} /\ announcing = {}
    /\ alive = Node
    /\ lease = FirstTokens /\ nextToken = Cardinality(Node) /\ fresh = Node
    /\ token = FirstTokens /\ granting = {}
    /\ expired = <<>>
    /\ seen = [n \in Node |-> 0]
    /\ queue = [n \in Node |-> <<>>]
    /\ misses = [n \in Node |-> 0]
    /\ used = [faults |-> 0, elections |-> 0]

Use(what) == used' = [used EXCEPT ![what] = @ + 1]

CanCommit == leader # NoLeader /\ leader \in up \ cut

Reaches(n) == CanCommit /\ n \in up /\ (n = leader \/ n \notin cut)

liveness == <<alive, selfAdd, announcing, misses>>
cluster  == <<up, cut, leader>>
leases   == <<lease, nextToken, fresh>>
keeper   == <<token, granting>>
events   == <<expired, seen, queue>>

--------------------------------------------------------------------------------
(* The keeper (Keeper.ensure): renew what it holds, else grant.            *)

(* Slip: a failed renewal waits for the next tick.                         *)
EnsureRenewOnly(n) ==
    /\ n \in up \ granting
    /\ token[n] # 0
    /\ fresh' = IF Reaches(n) /\ lease[n] = token[n] THEN fresh \cup {n} ELSE fresh
    /\ UNCHANGED <<granting, token, lease, nextToken, cluster, liveness, events, used>>

Ensure(n) ==
    /\ n \in up \ granting
    /\ token[n] # 0
    /\ IF Reaches(n) /\ lease[n] = token[n]
       THEN fresh' = fresh \cup {n} /\ UNCHANGED granting
       ELSE granting' = granting \cup {n} /\ UNCHANGED fresh
    /\ UNCHANGED <<token, lease, nextToken, cluster, liveness, events, used>>

(* The lease's owner gets its own grant back; the answer may be lost.      *)
Grant(n) ==
    /\ n \in up
    /\ token[n] = 0 \/ n \in granting
    /\ granting' = granting \ {n}
    /\ \/ ~Reaches(n) /\ UNCHANGED <<lease, nextToken, fresh, token>>
       \/ /\ Reaches(n)
          /\ IF lease[n] # 0
             THEN UNCHANGED <<lease, nextToken>>
             ELSE /\ nextToken' = nextToken + 1
                  /\ lease' = [lease EXCEPT ![n] = nextToken']
          /\ fresh' = fresh \cup {n}
          /\ token' = [token EXCEPT ![n] = lease'[n]]
    /\ UNCHANGED <<cluster, liveness, events, used>>

GrantAnswerLost(n) ==
    /\ n \in Victim
    /\ token[n] = 0 \/ n \in granting
    /\ Reaches(n)
    /\ n # leader
    /\ lease[n] = 0
    /\ nextToken' = nextToken + 1
    /\ lease' = [lease EXCEPT ![n] = nextToken']
    /\ fresh' = fresh \cup {n}
    /\ granting' = granting \ {n}
    /\ UNCHANGED <<token, cluster, liveness, events, used>>

(* A lease passes its deadline.                                            *)
Lapse(n) ==
    /\ n \in fresh
    /\ n \in up \ cut => n \in Victim /\ used.faults < MaxFailures
    /\ IF n \in up \ cut THEN Use("faults") ELSE UNCHANGED used
    /\ fresh' = fresh \ {n}
    /\ UNCHANGED <<lease, nextToken, cluster, liveness, keeper, events>>

(* The leader's expirer commits the expiry.                                *)
Expire(n) ==
    /\ CanCommit
    /\ lease[n] # 0 /\ n \notin fresh
    /\ nextToken + Cardinality({m \in Node : lease[m] = 0}) < MaxToken
    /\ lease' = [lease EXCEPT ![n] = 0]
    /\ expired' = Append(expired, n)
    /\ UNCHANGED <<nextToken, fresh, seen, queue, cluster, liveness, keeper, used>>

--------------------------------------------------------------------------------
(* Events.                                                                 *)

(* A replica applies an expiry and emits lease.expired on its own bus.     *)
(* The watcher's buffer takes events of every type: any may find it full   *)
(* and be dropped.                                                         *)
ApplyExpiry(m) ==
    /\ Reaches(m)
    /\ seen[m] < Len(expired)
    /\ seen' = [seen EXCEPT ![m] = @ + 1]
    /\ \/ UNCHANGED queue
       \/ /\ Len(queue[m]) < BufferSize
          /\ queue' = [queue EXCEPT ![m] = Append(@, expired[seen[m] + 1])]
    /\ UNCHANGED <<expired, cluster, liveness, leases, keeper, used>>

(* WatchExpired and OnExpired: only the leader acts, and not on itself.    *)
OnExpired(m) ==
    /\ m \in up
    /\ queue[m] # <<>>
    /\ queue' = [queue EXCEPT ![m] = Tail(@)]
    /\ alive' = IF m = leader /\ CanCommit /\ Head(queue[m]) # m THEN alive \ {Head(queue[m])} ELSE alive
    /\ UNCHANGED <<selfAdd, announcing, misses, expired, seen, cluster, leases, keeper, used>>

--------------------------------------------------------------------------------
(* Heartbeats.                                                             *)

(* Slip: the monitor counts, and leaves the list to the expiry watcher.    *)
PingCountsOnly(n) ==
    /\ CanCommit
    /\ n \in alive \ {leader}
    /\ misses' = [misses EXCEPT ![n] = IF n \in up \ cut \/ @ + 1 >= MaxMisses THEN 0 ELSE @ + 1]
    /\ UNCHANGED <<alive, selfAdd, announcing, cluster, leases, keeper, events, used>>

(* The leader's monitor pings a peer it has as alive.                      *)
Ping(n) ==
    /\ CanCommit
    /\ n \in alive \ {leader}
    /\ IF n \in up \ cut
       THEN misses' = [misses EXCEPT ![n] = 0] /\ UNCHANGED alive
       ELSE IF misses[n] + 1 >= MaxMisses
       THEN misses' = [misses EXCEPT ![n] = 0] /\ alive' = alive \ {n}
       ELSE misses' = [misses EXCEPT ![n] = @ + 1] /\ UNCHANGED alive
    /\ UNCHANGED <<selfAdd, announcing, cluster, leases, keeper, events, used>>

--------------------------------------------------------------------------------
(* Coming back.                                                            *)

(* A started node that is a Raft server has itself marked alive, once.     *)
AnnounceSelf(n) ==
    /\ n \in announcing
    /\ Reaches(n)
    /\ announcing' = announcing \ {n}
    /\ alive' = alive \cup {n}
    /\ UNCHANGED <<selfAdd, misses, cluster, leases, keeper, events, used>>

(* Slip: a new leader only records that it leads.                          *)
AddSelfNot(n) ==
    /\ n \in selfAdd
    /\ selfAdd' = selfAdd \ {n}
    /\ UNCHANGED <<alive, announcing, misses, cluster, leases, keeper, events, used>>

(* A new leader adds itself.                                               *)
AddSelf(n) ==
    /\ n \in selfAdd
    /\ selfAdd' = selfAdd \ {n}
    /\ alive' = IF leader = n /\ CanCommit THEN alive \cup {n} ELSE alive
    /\ UNCHANGED <<announcing, misses, cluster, leases, keeper, events, used>>

--------------------------------------------------------------------------------
(* Failures and elections.                                                 *)

(* A crash loses the keeper's token, the events and the replica, which the *)
(* restarted node builds again from the log.                               *)
Crash(n) ==
    /\ n \in Victim \cap up
    /\ used.faults < MaxFailures
    /\ Use("faults")
    /\ up' = up \ {n}
    /\ leader' = IF leader = n THEN NoLeader ELSE leader
    /\ selfAdd' = selfAdd \ {n} /\ announcing' = announcing \ {n}
    /\ token' = [token EXCEPT ![n] = 0] /\ granting' = granting \ {n}
    /\ seen' = [seen EXCEPT ![n] = 0] /\ queue' = [queue EXCEPT ![n] = <<>>]
    /\ UNCHANGED <<cut, alive, misses, leases, expired>>

StartNode(n) ==
    /\ n \notin up
    /\ up' = up \cup {n}
    /\ announcing' = announcing \cup {n}
    /\ UNCHANGED <<cut, leader, selfAdd, alive, misses, leases, keeper, events, used>>

Cut(n) ==
    /\ n \in Victim \ cut
    /\ used.faults < MaxFailures
    /\ Use("faults")
    /\ cut' = cut \cup {n}
    /\ UNCHANGED <<up, leader, liveness, leases, keeper, events>>

Heal(n) ==
    /\ n \in cut
    /\ cut' = cut \ {n}
    /\ UNCHANGED <<up, leader, liveness, leases, keeper, events, used>>

(* A cut-off leader steps down.                                            *)
StepDown ==
    /\ leader # NoLeader /\ leader \in cut
    /\ leader' = NoLeader
    /\ UNCHANGED <<up, cut, liveness, leases, keeper, events, used>>

(* A leader whose heartbeats are late is deposed: an election without any  *)
(* fault.                                                                  *)
Depose ==
    /\ CanCommit
    /\ used.elections < MaxElections
    /\ leader' = NoLeader
    /\ UNCHANGED <<up, cut, liveness, leases, keeper, events, used>>

(* A majority elects one of its nodes.  The new leader's monitor has       *)
(* counts of its own.                                                      *)
Elect(n) ==
    /\ leader = NoLeader
    /\ n \in up \ cut
    /\ 2 * Cardinality(up \ cut) > Cardinality(Node)
    /\ used.elections < MaxElections
    /\ Use("elections")
    /\ leader' = n
    /\ selfAdd' = selfAdd \cup {n}
    /\ \E k \in 0 .. MaxMisses - 1 : misses' = [m \in Node |-> IF m \in up \ cut THEN 0 ELSE k]
    /\ UNCHANGED <<up, cut, announcing, alive, leases, keeper, events>>

PresenceNext ==
    \/ \E n \in Node :
        \/ Ensure(n) \/ Grant(n) \/ GrantAnswerLost(n) \/ Lapse(n) \/ Expire(n)
        \/ ApplyExpiry(n) \/ OnExpired(n) \/ Ping(n)
        \/ AnnounceSelf(n) \/ AddSelf(n)
        \/ Crash(n) \/ StartNode(n) \/ Cut(n) \/ Heal(n) \/ Elect(n)
    \/ StepDown \/ Depose

PresenceSpec == PresenceInit /\ [][PresenceNext]_presenceVars

(* Keepers, monitors, watchers and announcements are loops in goroutines;  *)
(* a majority elects a leader.  Nothing brings a node or a link back.      *)
FairSpec ==
    /\ PresenceSpec
    /\ \A n \in Node :
        /\ WF_presenceVars(Ensure(n) \/ Grant(n)) /\ WF_presenceVars(Expire(n))
        /\ WF_presenceVars(ApplyExpiry(n)) /\ WF_presenceVars(OnExpired(n)) /\ WF_presenceVars(Ping(n))
        /\ WF_presenceVars(AnnounceSelf(n)) /\ WF_presenceVars(AddSelf(n))
    /\ WF_presenceVars(StepDown)
    /\ WF_presenceVars(\E n \in Node : Elect(n))

--------------------------------------------------------------------------------
(* Properties.                                                             *)

Healthy(n) == Reaches(n)

(* A node that stays down does not stay alive on the list, even if its     *)
(* lease.expired event was dropped, or handled by a node that did not lead *)
(* (Monitor.tick behind WatchExpired).                                     *)
DeadAreNoticed ==
    \A n \in Node : <>[](n \notin up /\ CanCommit) => <>[](n \notin alive)

(* A node that stays connected to a leader holds its presence lease again  *)
(* and again, after crashes, partitions, expiries and lost answers.        *)
PresenceIsHeld ==
    \A n \in Node : <>[]Healthy(n) => []<>(lease[n] # 0 /\ lease[n] = token[n])

(* A node that stays leader ends up alive on the list, even if it had been *)
(* marked dead before it was elected.                                      *)
LeaderIsAlive ==
    \A n \in Node : <>[](leader = n /\ CanCommit) => <>[](n \in alive)

(* "Heartbeat / presence OK" means alive, "first time or back from dead".  *)
BackFromDead ==
    \A n \in Node : <>[](Healthy(n) /\ n \in fresh) => <>[](n \in alive)

HasExpired(n) == \E i \in 1 .. Len(expired) : expired[i] = n

(* Whoever is marked dead did not answer the ping just sent, or has let a  *)
(* presence lease expire before: an expiry is never made up, whichever     *)
(* replica emits it, tells it again after a restart, or handles it late.   *)
DeadWasAbsent ==
    [][\A n \in Node : n \in alive /\ n \notin alive' => n \notin up \ cut \/ HasExpired(n)]_presenceVars

(* A member is marked dead because it has no valid presence lease, or for  *)
(* missing its heartbeats: never while it holds a valid lease and answers. *)
DeadForAReason ==
    [][\A n \in Node : n \in alive /\ n \notin alive' => n \notin fresh \/ n \notin up \ cut]_presenceVars

================================================================================
