--------------------------------- MODULE Harness -------------------------------
(***************************************************************************)
(* The two load tools that drive an in-process Raft group through          *)
(* internal/consensus: the soak run (internal/soak), which churns members, *)
(* locks and leases, and the benchmark (internal/bench), which times lock  *)
(* acquisition and elections.  Both are one sequential goroutine that      *)
(* waits for a leader, calls it, and tries again when the call failed      *)
(* because leadership moved, though the call may have taken effect.        *)
(*                                                                         *)
(* Every tick has an extra node, a lock and a lease of its own; here they  *)
(* have one name each, for they are gone when the next tick starts.  One   *)
(* round of polling is a step.  Raft is external, as in LockGrants: an     *)
(* entry that survives a lost leader committed just before.                *)
(***************************************************************************)
EXTENDS Naturals, Sequences, FiniteSets

CONSTANTS
    Core,       \* the nodes that stay, in order; the first bootstraps
    Extra,      \* the node that joins and leaves in every tick
    NoNode,
    Need,       \* polls in a row that must agree (3)
    MaxTicks,   \* bounds: soak ticks, benchmark samples of each kind,
    MaxSamples, \*   leaders that fail, expire warnings
    MaxFaults,
    MaxWarns

VARIABLES
    prog,       \* the program: "soak" or "bench"
    at,         \* its place: phase, round and step
    polls,      \* polls in a row that agreed
    lead,       \* the node it will call, or NoNode
    ctx,        \* the context it was given: "live" or "cancelled"
    out,        \* "running", or how it ended
    extra,      \* the extra node's process: "none", "up", "down"
    isolated,   \* the node cut off by the benchmark, or NoNode
    warns,      \* warnings of the expirers
    voters,     \* the Raft configuration
    com,        \* members, lock and lease after every committed entry
    table,      \* table[n]: the same at core node n
    backlog,    \* backlog[n]: committed entries n has still to apply
    leader,     \* who can commit, or NoNode
    isLeader,   \* isLeader[n]: n takes itself for the leader
    leaderID,   \* leaderID[n]: whom n takes for it
    faults,
    again       \* ghost: the current call took effect and was reported lost

driver == <<prog, at, polls, lead, ctx, out, extra, isolated, warns>>
state == <<voters, com, table, backlog>>
raft == <<leader, isLeader, leaderID, faults>>
harnessVars == <<driver, state, raft, again>>

CoreSet == {Core[k] : k \in DOMAIN Core}
Boot == Core[1]
Server == CoreSet \cup {Extra}

ASSUME CoreAssumption ==
    /\ Core \in Seq(CoreSet) /\ Core # <<>>
    /\ Extra \notin CoreSet /\ NoNode \notin CoreSet

ASSUME RoundAssumption == MaxTicks \in Nat /\ MaxSamples \in Nat

--------------------------------------------------------------------------------
(* The programs, as lists of steps.                                        *)

S(do, n) == [do |-> do, node |-> n]
Do(do) == S(do, Extra)

StartCluster ==
    <<Do("bootLeader")>>
      \o [k \in 1 .. Len(Core) - 1 |-> S("voterAny", Core[k + 1])]
      \o <<Do("leader")>>
      \o [k \in DOMAIN Core |-> S("member", Core[k])]

StartSoak == StartCluster \o <<Do("alive")>>

JoinExtra == <<Do("start"), Do("voter"), Do("member"), Do("has")>>

LeaveExtra == <<Do("drop"), Do("unvote"), Do("shut"), Do("gone"), Do("alive")>>

ChurnLock(expire) == <<Do("acquire"), IF expire THEN Do("lockGone") ELSE Do("release")>>

ChurnLease(expire) == <<Do("grant"), IF expire THEN Do("leaseGone") ELSE Do("revoke")>>

Expires(i) == i % 3 = 2

RunTick(i) == JoinExtra \o LeaveExtra \o ChurnLock(Expires(i)) \o ChurnLease(Expires(i))

MeasureLocks(i) ==
    (IF i = 0 THEN <<Do("leader")>> ELSE <<>>) \o <<Do("acquire"), Do("release")>>

MeasureElection ==
    <<Do("leader"), Do("isolate"), Do("first"), Do("heal"), Do("leader")>>

Phase == {"start", "tick", "locks", "election"}

Run(p, phase, i) ==
    CASE phase = "start" -> IF p = "soak" THEN StartSoak ELSE StartCluster
      [] phase = "tick" -> RunTick(i)
      [] phase = "locks" -> MeasureLocks(i)
      [] phase = "election" -> MeasureElection

Scripts ==
    [p \in {"soak", "bench"} |-> [phase \in Phase |->
        [i \in 0 .. MaxTicks + MaxSamples |-> Run(p, phase, i)]]]

Script == Scripts[prog][at.phase][at.round]

Running == out = "running"
AtEnd == at.step > Len(Script)
Step == IF Running /\ ~AtEnd THEN Script[at.step].do ELSE "none"
Node == Script[at.step].node

Command == {"voter", "member", "drop", "unvote", "acquire", "release", "grant", "revoke"}

Forward == at' = [at EXCEPT !.step = @ + 1]

--------------------------------------------------------------------------------
(* The replicated state: FSM.Apply on what the tools write.                *)

Effect(t, do, n) ==
    CASE do = "member"  -> [t EXCEPT !.members = @ \cup {n}]
      [] do = "drop"    -> [t EXCEPT !.members = @ \ {n}]
      [] do = "acquire" -> [t EXCEPT !.lock = TRUE]
      [] do = "grant"   -> [t EXCEPT !.lease = TRUE]
      [] do \in {"release", "expireLock"} -> [t EXCEPT !.lock = FALSE]
      [] do \in {"revoke", "expireLease"} -> [t EXCEPT !.lease = FALSE]

(* Releasing what is not held is an error; acquiring it again as the same  *)
(* holder is not.                                                          *)
Refused(do) == (do = "release" /\ ~com.lock) \/ (do = "revoke" /\ ~com.lease)

(* An entry is committed; caught is the node whose Apply call returns, or  *)
(* NoNode.  The benchmark reads no table, so there none lags.              *)
Commit(do, n, caught) ==
    IF do \in {"voter", "voterAny", "unvote"}
    THEN /\ voters' = IF do = "unvote" THEN voters \ {n} ELSE voters \cup {n}
         /\ UNCHANGED <<com, table, backlog>>
    ELSE /\ com' = Effect(com, do, n)
         /\ LET now(m) == m = caught \/ prog = "bench"
            IN  /\ table' = [m \in CoreSet |-> IF now(m) THEN com' ELSE table[m]]
                /\ backlog' = [m \in CoreSet |->
                                  IF now(m) THEN <<>> ELSE Append(backlog[m], S(do, n))]
         /\ UNCHANGED voters

ApplyEntry(m) ==
    /\ Running /\ backlog[m] # <<>>
    /\ LET e == Head(backlog[m]) IN table' = [table EXCEPT ![m] = Effect(@, e.do, e.node)]
    /\ backlog' = [backlog EXCEPT ![m] = Tail(@)]
    /\ UNCHANGED <<driver, voters, com, raft, again>>

--------------------------------------------------------------------------------
(* Leadership, as the library shows it.  Nothing is looked at after the    *)
(* end of the run.                                                         *)

Up(n) == n # Extra \/ extra = "up"

LeaderFails ==
    /\ Running /\ leader # NoNode /\ faults < MaxFaults
    /\ leader' = NoNode
    /\ faults' = faults + 1
    /\ UNCHANGED <<driver, state, isLeader, leaderID, again>>

(* A leader that is cut off is given up by the others.                     *)
LeaderCut ==
    /\ Running /\ leader # NoNode /\ leader = isolated
    /\ leader' = NoNode
    /\ UNCHANGED <<driver, state, isLeader, leaderID, faults, again>>

(* The lease of a leader that lost its majority runs out.                  *)
StepDown(n) ==
    /\ Running /\ isLeader[n] /\ n # leader
    /\ isLeader' = [isLeader EXCEPT ![n] = FALSE]
    /\ leaderID' = [leaderID EXCEPT ![n] = NoNode]
    /\ UNCHANGED <<driver, state, leader, faults, again>>

Elect(n) ==
    /\ Running /\ leader = NoNode
    /\ n \in voters /\ n # isolated /\ Up(n)
    /\ 2 * Cardinality({v \in voters : v # isolated /\ Up(v)}) > Cardinality(voters)
    /\ leader' = n
    /\ isLeader' = [isLeader EXCEPT ![n] = TRUE]
    /\ leaderID' = [leaderID EXCEPT ![n] = n]
    /\ UNCHANGED <<driver, state, faults, again>>

(* The leader's heartbeat.                                                 *)
Learn(n) ==
    /\ Running /\ leader # NoNode /\ leaderID[n] # leader
    /\ n \in voters /\ Up(n) /\ isolated \notin {n, leader}
    /\ leaderID' = [leaderID EXCEPT ![n] = leader]
    /\ isLeader' = [isLeader EXCEPT ![n] = FALSE]
    /\ UNCHANGED <<driver, state, leader, faults, again>>

--------------------------------------------------------------------------------
(* How a step fails.                                                       *)

Joining == at.phase = "tick" /\ at.step <= Len(JoinExtra)

(* A cancelled soak run keeps what it has; joinExtra stops its node, while *)
(* leaveExtra leaves it.                                                   *)
Fail(why) ==
    /\ extra' = IF Joining /\ extra = "up" THEN "down" ELSE extra
    /\ out' = IF prog = "soak" /\ ctx = "cancelled" /\ at.phase = "tick" /\ at.round > 0
              THEN "audit" ELSE why
    /\ UNCHANGED <<prog, at, polls, lead, ctx, isolated, warns, state, raft, again>>

Waits == {"bootLeader", "leader", "first", "has", "gone", "alive", "lockGone", "leaseGone"}

(* Slip: a failed election returns before the heal.                        *)
TimeoutUnhealed ==
    /\ Step \in Waits \cup Command \cup {"voterAny"} /\ polls = 0
    /\ Fail("timeout")

(* The operation's deadline, or the cancelled context, at a loop's head.   *)
(* The cluster is started under a context of its own.  The election        *)
(* sample reconnects the node whatever the wait returned.  Between two     *)
(* polls that agree the outcome is the same.                               *)
Timeout ==
    /\ Step \in Waits \cup Command \cup {"voterAny"} /\ polls = 0
    /\ IF Step = "first"
       THEN /\ out' = "timeout" /\ isolated' = NoNode
            /\ UNCHANGED <<prog, at, polls, lead, ctx, extra, warns, state, raft, again>>
       ELSE Fail("timeout")

Done == ctx = "cancelled"

CtxDone == Done /\ Timeout

--------------------------------------------------------------------------------
(* Finding the leader.                                                     *)

Polled ==
    CASE Step = "bootLeader" -> {Boot}
      [] Step = "first" -> CoreSet \ {isolated}
      [] OTHER -> CoreSet

Agreed(n) ==
    /\ {m \in Polled : isLeader[m]} = {n}
    /\ \A m \in Polled : leaderID[m] = n

Enough == IF Step = "first" THEN 1 ELSE Need

(* waitLeaderOf, waitLeaderStable: one leader, and all nodes agree.        *)
Poll ==
    /\ Step \in Command \cup {"bootLeader", "leader", "first"}
    /\ ~Done
    /\ Step \in Command => lead = NoNode
    /\ IF \E n \in Polled : Agreed(n)
       THEN IF polls + 1 < Enough
            THEN polls' = polls + 1 /\ UNCHANGED <<at, lead>>
            ELSE /\ polls' = 0
                 /\ IF Step \in Command
                    THEN UNCHANGED at /\ lead' = CHOOSE n \in Polled : Agreed(n)
                    ELSE /\ Forward
                         /\ lead' = IF prog = "bench" /\ Step = "leader"
                                    THEN CHOOSE n \in Polled : Agreed(n) ELSE NoNode
       ELSE polls' = 0 /\ UNCHANGED <<at, lead>>
    /\ UNCHANGED <<prog, ctx, out, extra, isolated, warns, state, raft, again>>

(* withAnyLeader: the first that takes itself for the leader.              *)
PickAny ==
    /\ Step = "voterAny" /\ lead = NoNode
    /\ \E k \in DOMAIN Core :
          /\ isLeader[Core[k]] /\ \A j \in 1 .. k - 1 : ~isLeader[Core[j]]
          /\ lead' = Core[k]
    /\ UNCHANGED <<prog, at, polls, ctx, out, extra, isolated, warns, state, raft, again>>

(* measureLocks asks the leader it knows and looks for another one first   *)
(* when that has stepped down.                                             *)
LeadStale == prog = "bench" /\ Step = "acquire" /\ lead # NoNode /\ ~isLeader[lead]

Relook ==
    /\ LeadStale
    /\ lead' = NoNode
    /\ UNCHANGED <<prog, at, polls, ctx, out, extra, isolated, warns, state, raft, again>>

--------------------------------------------------------------------------------
(* Calling it: withLeader, withAnyLeader, and the loops of measureLocks.   *)

Calling == Step \in Command \cup {"voterAny"} /\ lead # NoNode /\ ~LeadStale

(* alreadyReleased: the benchmark takes a refused release for done.        *)
Forgiven == prog = "bench" /\ Step = "release"

(* The leader commits the command, applies it and returns.                 *)
CallOk ==
    /\ Calling /\ lead = leader
    /\ IF Refused(Step) /\ ~Forgiven
       THEN Fail("refused")
       ELSE /\ Commit(Step, Node, lead)
            /\ Forward
            /\ lead' = IF prog = "soak" THEN NoNode ELSE lead
            /\ again' = FALSE
            /\ UNCHANGED <<prog, polls, ctx, out, extra, isolated, warns, raft>>

(* Slip: the call is not made again.                                       *)
CallLostGivesUp ==
    /\ Calling /\ lead = leader /\ faults < MaxFaults
    /\ leader' = NoNode /\ faults' = faults + 1
    /\ \/ Commit(Step, Node, NoNode) /\ again' = TRUE
       \/ UNCHANGED <<state, again>>
    /\ lead' = NoNode
    /\ Forward
    /\ UNCHANGED <<prog, polls, ctx, out, extra, isolated, warns, isLeader, leaderID>>

(* Leadership goes during the call: ErrLeadershipLost, whether or not the  *)
(* entry survived.                                                         *)
CallLost ==
    /\ Calling /\ lead = leader /\ faults < MaxFaults
    /\ leader' = NoNode /\ faults' = faults + 1
    /\ \/ ~Refused(Step) /\ Commit(Step, Node, NoNode) /\ again' = TRUE
       \/ UNCHANGED <<state, again>>
    /\ lead' = NoNode
    /\ UNCHANGED <<prog, at, polls, ctx, out, extra, isolated, warns, isLeader, leaderID>>

(* Slip: the next attempt calls the same node.                             *)
CallNotLeaderSame ==
    /\ Calling /\ lead # leader
    /\ UNCHANGED harnessVars

(* ErrNotLeader.                                                           *)
CallNotLeader ==
    /\ Calling /\ lead # leader
    /\ lead' = NoNode
    /\ UNCHANGED <<prog, at, polls, ctx, out, extra, isolated, warns, state, raft, again>>

--------------------------------------------------------------------------------
(* The other steps.                                                        *)

Seen ==
    CASE Step = "has"       -> \A m \in CoreSet : Extra \in table[m].members
      [] Step = "gone"      -> \A m \in CoreSet : Extra \notin table[m].members
      [] Step = "alive"     -> \A m \in CoreSet : table[m].members = CoreSet
      [] Step = "lockGone"  -> \A m \in CoreSet : ~table[m].lock
      [] Step = "leaseGone" -> \A m \in CoreSet : ~table[m].lease
      [] OTHER -> FALSE

Wait ==
    /\ ~Done /\ Seen
    /\ Forward
    /\ UNCHANGED <<prog, polls, lead, ctx, out, extra, isolated, warns, state, raft, again>>

StartExtra ==
    /\ Step = "start"
    /\ extra' = "up"
    /\ Forward
    /\ UNCHANGED <<prog, polls, lead, ctx, out, isolated, warns, state, raft, again>>

(* The extra node is removed from the group, shut down and disconnected.   *)
ShutExtra ==
    /\ Step = "shut"
    /\ extra' = "down"
    /\ leaderID' = [leaderID EXCEPT ![Extra] = NoNode]
    /\ isLeader' = [isLeader EXCEPT ![Extra] = FALSE]
    /\ Forward
    /\ UNCHANGED <<prog, polls, lead, ctx, out, isolated, warns, state, leader, faults, again>>

Isolate ==
    /\ Step = "isolate"
    /\ isolated' = lead
    /\ lead' = NoNode
    /\ Forward
    /\ UNCHANGED <<prog, polls, ctx, out, extra, warns, state, raft, again>>

Heal ==
    /\ Step = "heal"
    /\ isolated' = NoNode
    /\ Forward
    /\ UNCHANGED <<prog, polls, lead, ctx, out, extra, warns, state, raft, again>>

(* The next round or phase.  The soak's deadline may be over after any     *)
(* tick; the benchmark asks for its context before every sample.           *)
NextRound ==
    /\ Running /\ AtEnd
    /\ LET To(p, r) == at' = [phase |-> p, round |-> r, step |-> 1] /\ UNCHANGED out
           more == at.round + 1 < IF at.phase = "tick" THEN MaxTicks ELSE MaxSamples
           End(o) == out' = o /\ UNCHANGED at
       IN  IF prog = "soak"
           THEN \/ at.phase = "start" /\ To("tick", 0)
                \/ at.phase = "tick" /\ more /\ ctx = "live" /\ To("tick", at.round + 1)
                \/ at.phase = "tick" /\ End("audit")
           ELSE IF ctx = "cancelled" THEN End("timeout")
           ELSE \/ at.phase = "start" /\ To("locks", 0)
                \/ at.phase # "start" /\ more /\ To(at.phase, at.round + 1)
                \/ at.phase = "locks" /\ ~more /\ To("election", 0)
                \/ at.phase = "election" /\ ~more /\ End("passed")
    /\ UNCHANGED <<prog, polls, lead, ctx, extra, isolated, warns, state, raft, again>>

(* The heap or the goroutines may have grown, or the log be too noisy: at  *)
(* most two warnings, and one more a minute.                               *)
Audit ==
    /\ out = "audit"
    /\ out' \in IF warns > 2 THEN {"failed"} ELSE {"passed", "failed"}
    /\ UNCHANGED <<prog, at, polls, lead, ctx, extra, isolated, warns, state, raft, again>>

(* locks.RunExpirer and leases.RunExpirer on the core nodes, for the short *)
(* TTLs of the expiring ticks.                                             *)
Expirer(n) ==
    /\ prog = "soak" /\ Running /\ at.phase = "tick" /\ Expires(at.round)
    /\ ctx = "live" /\ isLeader[n]
    /\ \E do \in {"expireLock", "expireLease"} :
          /\ IF do = "expireLock" THEN table[n].lock ELSE table[n].lease
          /\ IF n = leader
             THEN Commit(do, Extra, n) /\ UNCHANGED warns
             ELSE warns < MaxWarns /\ warns' = warns + 1 /\ UNCHANGED state
    /\ UNCHANGED <<prog, at, polls, lead, ctx, out, extra, isolated, raft, again>>

(* A signal; one that comes while the cluster is started is seen after.    *)
Cancel ==
    /\ Running /\ ctx = "live" /\ at.phase # "start" /\ polls = 0
    /\ ctx' = "cancelled"
    /\ UNCHANGED <<prog, at, polls, lead, out, extra, isolated, warns, state, raft, again>>

--------------------------------------------------------------------------------

HarnessInit ==
    /\ prog \in {"soak", "bench"}
    /\ at = [phase |-> "start", round |-> 0, step |-> 1]
    /\ polls = 0 /\ lead = NoNode /\ ctx = "live" /\ out = "running"
    /\ extra = "none" /\ isolated = NoNode /\ warns = 0
    /\ voters = {Boot}
    /\ com = [members |-> {}, lock |-> FALSE, lease |-> FALSE]
    /\ table = [n \in CoreSet |-> com]
    /\ backlog = [n \in CoreSet |-> <<>>]
    /\ leader = NoNode
    /\ isLeader = [n \in Server |-> FALSE]
    /\ leaderID = [n \in Server |-> NoNode]
    /\ faults = 0
    /\ again = FALSE

Drive ==
    \/ Poll \/ PickAny \/ Relook \/ CallOk \/ CallNotLeader \/ Wait \/ StartExtra
    \/ ShutExtra \/ Isolate \/ Heal \/ NextRound \/ Audit \/ CtxDone

Settle == LeaderCut \/ \E n \in Server : Elect(n) \/ Learn(n) \/ StepDown(n)

HarnessNext ==
    \/ Drive \/ CallLost \/ Timeout \/ Cancel \/ LeaderFails \/ Settle
    \/ \E n \in CoreSet : ApplyEntry(n) \/ Expirer(n)

HarnessSpec == HarnessInit /\ [][HarnessNext]_harnessVars

(* The goroutines run and Raft elects; no deadline need ever pass.         *)
FairSpec ==
    /\ HarnessSpec
    /\ WF_harnessVars(Drive) /\ WF_harnessVars(Settle)
    /\ WF_harnessVars(\E n \in CoreSet : ApplyEntry(n))
    /\ WF_harnessVars(\E n \in CoreSet : Expirer(n))

--------------------------------------------------------------------------------
(* Properties                                                              *)

(* runTick, measureLocks: whatever was lost, repeated or left to expire, a *)
(* round that is over has left the configuration, the member list and the  *)
(* tables as it found them, and no extra node runs.                        *)
RoundLeavesNothing ==
    Running /\ AtEnd /\ at.phase \in {"tick", "locks", "election"} =>
        /\ voters = CoreSet /\ com.members = CoreSet
        /\ ~com.lock /\ ~com.lease
        /\ extra # "up" /\ isolated = NoNode

(* withLeader retries what transientLeadership names: a call that was      *)
(* reported lost and had taken effect can be made again.                   *)
RetriesAreSafe == out # "refused"

(* measureElection, joinExtra: however a run ends, the benchmark has       *)
(* reconnected the node it cut off, and a soak run has stopped the extra   *)
(* node unless leaving failed under it.                                    *)
NothingLeftBehind ==
    out \notin {"running", "audit"} =>
        /\ isolated = NoNode
        /\ extra = "up" => at.phase = "tick" /\ at.step > Len(JoinExtra)

(* waitLeaderOf, withLeader: the loops find the leader again, so a run     *)
(* ends without any deadline passing, unless the extra node is elected,    *)
(* which the soak run does not poll.                                       *)
RunEnds == <>(out \notin {"running", "audit"}) \/ <>(leader = Extra)

================================================================================
