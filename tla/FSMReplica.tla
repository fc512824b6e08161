------------------------------- MODULE FSMReplica ------------------------------
(***************************************************************************)
(* Replicas of the FSM under crashes, restarts and snapshots               *)
(* (internal/consensus/fsm.go, node.go New).  A node applies the committed *)
(* log; it may write a snapshot of its state; a restarted node starts with *)
(* fresh objects, restores its last snapshot and replays the rest of the   *)
(* log; a node that has fallen behind gets another node's snapshot while   *)
(* it runs.  Raft (external) owns the log and decides when each happens.   *)
(***************************************************************************)
EXTENDS FSM, Sequences, FiniteSets

CONSTANTS
    Command,   \* the commands that may be committed
    MaxLog,    \* bound: length of the log
    MaxCrash   \* bound: crashes

ASSUME NoMemberAssumption == NoMember \notin Member

ASSUME LimitAssumption == MaxGrants \in Nat

ASSUME CommandAssumption ==
    \A c \in Command : c.kind \in {"add_member", "remove_member", "drop_member"} => c.id \in Node

VARIABLES
    log,       \* committed commands
    up,        \* running nodes
    applied,   \* applied[n]: how many commands n has applied
    engine,    \* engine[n]: the member list of n
    locks,     \* locks[n], leases[n]: the tables of n
    leases,
    snap,      \* snap[n]: n's last snapshot on disk, with the index it stands for
    crashes,   \* crashes so far
    hist       \* ghost: hist[i] is the state that i commands make of nothing

vars == <<log, up, applied, engine, locks, leases, snap, crashes, hist>>

fsmVars == <<applied, engine, locks, leases>>

NoSnapshot == [index |-> 0, data |-> SnapshotPayload(NoEngine, Locks!EmptyTable, Leases!EmptyTable)]

Initial == [engine |-> NoEngine, locks |-> Locks!EmptyTable, leases |-> Leases!EmptyTable]

Init ==
    /\ log = <<>>
    /\ up = Node
    /\ applied = [n \in Node |-> 0]
    /\ engine = [n \in Node |-> NewEngine(n)]
    /\ locks = [n \in Node |-> Locks!EmptyTable]
    /\ leases = [n \in Node |-> Leases!EmptyTable]
    /\ snap = [n \in Node |-> NoSnapshot]
    /\ crashes = 0
    /\ hist = [i \in {0} |-> Initial]

(* Raft commits a command.                                                 *)
Commit(c) ==
    /\ Len(log) < MaxLog
    /\ log' = Append(log, c)
    /\ LET s == hist[Len(log)]
       IN  hist' = [i \in 0 .. Len(log) + 1 |->
                        IF i <= Len(log) THEN hist[i]
                        ELSE [engine |-> ApplyMembers(s.engine, c),
                              locks  |-> ApplyLocks(s.locks, c),
                              leases |-> ApplyLeases(s.leases, c)]]
    /\ UNCHANGED <<up, fsmVars, snap, crashes>>

(* FSM.Apply of the next entry.                                            *)
ApplyEntry(n) ==
    /\ n \in up
    /\ applied[n] < Len(log)
    /\ applied' = [applied EXCEPT ![n] = @ + 1]
    /\ engine' = [engine EXCEPT ![n] = ApplyMembers(@, log[applied[n] + 1])]
    /\ locks' = [locks EXCEPT ![n] = ApplyLocks(@, log[applied[n] + 1])]
    /\ leases' = [leases EXCEPT ![n] = ApplyLeases(@, log[applied[n] + 1])]
    /\ UNCHANGED <<log, up, snap, crashes, hist>>

(* FSM.Snapshot and Persist.                                               *)
TakeSnapshot(n) ==
    /\ n \in up
    /\ applied[n] > snap[n].index
    /\ snap' = [snap EXCEPT ![n] = [index |-> applied[n],
                                    data  |-> SnapshotPayload(engine[n], locks[n], leases[n])]]
    /\ UNCHANGED <<log, up, fsmVars, crashes, hist>>

(* FSM.Restore on a running node: what another node's snapshot says.       *)
InstallSnapshot(n, m) ==
    /\ n \in up
    /\ snap[m].index > applied[n]
    /\ applied' = [applied EXCEPT ![n] = snap[m].index]
    /\ engine' = [engine EXCEPT ![n] = RestoreMembers(@, snap[m].data.members)]
    /\ locks' = [locks EXCEPT ![n] = RestoreTable(snap[m].data.locks)]
    /\ leases' = [leases EXCEPT ![n] = RestoreTable(snap[m].data.leases)]
    /\ snap' = [snap EXCEPT ![n] = snap[m]]
    /\ UNCHANGED <<log, up, crashes, hist>>

Crash(n) ==
    /\ n \in up
    /\ crashes < MaxCrash
    /\ crashes' = crashes + 1
    /\ up' = up \ {n}
    /\ UNCHANGED <<log, fsmVars, snap, hist>>

(* A new process: fresh engine and tables, then FSM.Restore of the last    *)
(* snapshot if there is one; ApplyEntry replays what follows it.           *)
Restart(n) ==
    /\ n \notin up
    /\ up' = up \cup {n}
    /\ applied' = [applied EXCEPT ![n] = snap[n].index]
    /\ engine' = [engine EXCEPT ![n] = RestoreMembers(NewEngine(n), snap[n].data.members)]
    /\ locks' = [locks EXCEPT ![n] = RestoreTable(snap[n].data.locks)]
    /\ leases' = [leases EXCEPT ![n] = RestoreTable(snap[n].data.leases)]
    /\ UNCHANGED <<log, snap, crashes, hist>>

Next ==
    \/ \E c \in Command : Commit(c)
    \/ \E n \in Node : ApplyEntry(n) \/ TakeSnapshot(n) \/ Crash(n) \/ Restart(n)
    \/ \E n, m \in Node : InstallSnapshot(n, m)

Spec == Init /\ [][Next]_vars

--------------------------------------------------------------------------------

(* Whatever mixture of replay, snapshots and restarts brought a node to a  *)
(* log position, its lock and lease tables, counters included, are those   *)
(* of the log at that position ("Writes must come from the Raft FSM so     *)
(* every node sees the same table", locks/table.go and leases/table.go).   *)
TablesAgree ==
    \A n \in Node : /\ locks[n] = hist[applied[n]].locks
                    /\ leases[n] = hist[applied[n]].leases

(* The limit on the number of grants is checked where a command is         *)
(* applied, against that node's own table: no node ever holds more than    *)
(* the maximum of either kind, whatever it was restored from.              *)
GrantsWithinLimit ==
    \A n \in Node : /\ Cardinality(Locks!Held(locks[n])) <= MaxGrants
                    /\ Cardinality(Leases!Held(leases[n])) <= MaxGrants

(* The grants of a table: name, holder and token of each.                  *)
LocksGiven(t) == {<<nm, t.locks[nm].holder, t.locks[nm].token>> : nm \in Locks!Held(t)}
LeasesGiven(t) == {<<nm, t.leases[nm].owner, t.leases[nm].token>> : nm \in Leases!Held(t)}

(* A token names one grant for ever: whatever two nodes show at whatever   *)
(* log positions, restarted or restored or not, equal tokens are the same  *)
(* name's grant to the same holder (the counter next of both tables, which *)
(* a snapshot carries).                                                    *)
TokensNameOneGrant ==
    \A n, m \in Node :
        /\ \A g \in LocksGiven(locks[n]), h \in LocksGiven(locks[m]) : g[3] = h[3] => g = h
        /\ \A g \in LeasesGiven(leases[n]), h \in LeasesGiven(leases[m]) : g[3] = h[3] => g = h

(* A member the log has accepted and not dropped is listed by every node   *)
(* at that log position, with the role and the status the log gave it: no  *)
(* restart and no snapshot loses a member or revives a dead one.           *)
AcceptedAreListed ==
    \A n \in Node, id \in Node :
        LET accepted == hist[applied[n]].engine.members[id]
        IN  accepted # NoMember => engine[n].members[id] = accepted

(* "A left id is gone from the list" (docs/concepts/membership.md): once a *)
(* node has reached a log position at which id has been dropped, it does   *)
(* not list id.  The node itself is excepted: its engine starts with it.   *)
LeftIsGone ==
    \A n \in Node : \A id \in Node \ {n} :
        id \in hist[applied[n]].engine.dropped => engine[n].members[id] = NoMember

================================================================================
