------------------------------- MODULE LockGrants ------------------------------
(***************************************************************************)
(* The life of a lock grant: commands that the leader stamps and proposes  *)
(* (internal/consensus/node.go), their commit by Raft, their application   *)
(* to every node's table (internal/consensus/fsm.go), and the leader's     *)
(* expirer (internal/locks/expirer.go), under leader changes, replicas     *)
(* that lag and clocks that differ.                                        *)
(*                                                                         *)
(* Raft is external: a proposal of the leader commits, in any order with   *)
(* the other proposals in flight, or is lost when leadership moves; every  *)
(* node applies the committed log in order, at its own pace.  An entry of  *)
(* an old leader that survives the election is one that committed just     *)
(* before it.                                                              *)
(***************************************************************************)
EXTENDS LockTable, Sequences

CONSTANTS
    Node,
    Skew,          \* Skew[n]: how far n's clock runs ahead of real time
    MaxSkew,       \* the largest of them
    Requested,     \* TTLs clients ask for; 0 is "not given"
    MaxTime,       \* bound: no deadline is stamped beyond it
    MaxLog,        \* bound: clients propose while the log is shorter
    MaxInFlight,   \* bound: client proposals in flight at once
    MaxElections   \* bound: leader changes

ASSUME SkewAssumption == MaxSkew \in Nat /\ Skew \in [Node -> 0 .. MaxSkew]

ASSUME RequestedAssumption == Requested \subseteq Nat

VARIABLES
    now,        \* real time
    leader,     \* the Raft leader
    elections,  \* leader changes so far
    pending,    \* commands proposed by the leader, not committed
    log,        \* committed commands
    applied,    \* applied[n]: how many of them n's FSM has applied
    table,      \* table[n]: the lock table of node n
    due,        \* due[n]: what n's expirer has still to expire in this tick
    expiring,   \* expiring[n]: the expire commands n waits for (one or none)
    hist        \* ghost: hist[i+1] is the table after the first i commands

vars == <<now, leader, elections, pending, log, applied, table, due, expiring, hist>>

clockVars  == <<now, leader, elections>>
expireVars == <<due, expiring>>
logVars    == <<log, hist>>
fsmVars    == <<applied, table>>

--------------------------------------------------------------------------------
(* Commands (internal/consensus/command.go) and their interpreter.         *)

LockAcquire(nm, h, dl, ttl) ==
    [kind |-> "lock_acquire", name |-> nm, id |-> h, token |-> 0,
     deadline |-> dl, ttl |-> ttl]

LockRelease(nm, h, tok) ==
    [kind |-> "lock_release", name |-> nm, id |-> h, token |-> tok,
     deadline |-> 0, ttl |-> 0]

LockRenew(nm, h, tok, dl, ttl) ==
    [kind |-> "lock_renew", name |-> nm, id |-> h, token |-> tok,
     deadline |-> dl, ttl |-> ttl]

(* An expire command carries no id.                                        *)
LockExpire(nm, tok) ==
    [kind |-> "lock_expire", name |-> nm, id |-> NoLock, token |-> tok,
     deadline |-> 0, ttl |-> 0]

ClientCommand ==
    [kind : {"lock_acquire", "lock_release", "lock_renew"},
     name : Name, id : Holder, token : Nat, deadline : Nat, ttl : 0 .. MaxTTL]

ExpireCommand ==
    [kind : {"lock_expire"}, name : Name, id : {NoLock}, token : Nat,
     deadline : {0}, ttl : {0}]

Command == ClientCommand \cup ExpireCommand

(* FSM.Apply on the lock commands.                                         *)
ApplyCommand(t, c) ==
    CASE c.kind = "lock_acquire" -> Acquire(t, c.name, c.id, c.deadline, c.ttl)
      [] c.kind = "lock_release" -> Release(t, c.name, c.id, c.token)
      [] c.kind = "lock_renew"   -> Renew(t, c.name, c.id, c.token, c.deadline, c.ttl)
      [] c.kind = "lock_expire"  -> Expire(t, c.name, c.token)

Clock(n) == now + Skew[n]

(* Slip: a TTL that is not given means no deadline.                        *)
DeadlineNoDefault(n, ttl) == IF ttl = 0 THEN 0 ELSE Clock(n) + ttl

(* The deadline the leader stamps.                                         *)
Deadline(n, ttl) == Clock(n) + ClampTTL(ttl, 0)

(* The table after every committed command.                                *)
Committed == hist[Len(hist)]

(* The grants ever made: what a client may try to release or renew.        *)
Granted ==
    {g \in [name : Name, holder : Holder, token : 1 .. Committed.next] :
        \E i \in DOMAIN hist : Matches(hist[i], g.name, g.holder, g.token)}

--------------------------------------------------------------------------------

Init ==
    /\ now = 0
    /\ leader \in Node
    /\ elections = 0
    /\ pending = {}
    /\ log = <<>>
    /\ applied = [n \in Node |-> 0]
    /\ table = [n \in Node |-> EmptyTable]
    /\ due = [n \in Node |-> {}]
    /\ expiring = [n \in Node |-> {}]
    /\ hist = <<EmptyTable>>

(* applyLock: hand a client's command to Raft on the leader.               *)
Propose(c) ==
    /\ Len(log) + Cardinality(pending) < MaxLog
    /\ Cardinality(pending) < MaxInFlight
    /\ pending' = pending \cup {c}
    /\ UNCHANGED <<clockVars, logVars, fsmVars, expireVars>>

ApplyLockAcquire(nm, h, ttl) ==
    /\ Deadline(leader, ttl) <= MaxTime
    /\ Propose(LockAcquire(nm, h, Deadline(leader, ttl), ClampTTL(ttl, 0)))

ApplyLockRelease(g) == Propose(LockRelease(g.name, g.holder, g.token))

ApplyLockRenew(g, ttl) ==
    /\ Deadline(leader, ttl) <= MaxTime
    /\ Propose(LockRenew(g.name, g.holder, g.token, Deadline(leader, ttl), ClampTTL(ttl, 0)))

(* Raft: a proposal is replicated to a majority.                           *)
Commit(c) ==
    /\ c \in pending
    /\ pending' = pending \ {c}
    /\ log' = Append(log, c)
    /\ hist' = Append(hist, ApplyCommand(Committed, c))
    /\ UNCHANGED <<clockVars, fsmVars, expireVars>>

(* Slip: the deadline is computed where the entry is applied.              *)
ApplyEntryOwnClock(n) ==
    /\ applied[n] < Len(log)
    /\ applied' = [applied EXCEPT ![n] = @ + 1]
    /\ LET c == log[applied[n] + 1]
       IN  /\ table' = [table EXCEPT ![n] =
                            ApplyCommand(@, [c EXCEPT !.deadline = Clock(n) + c.ttl])]
           /\ expiring' = [expiring EXCEPT ![n] = @ \ {c}]
    /\ UNCHANGED <<clockVars, pending, logVars, due>>

(* FSM.Apply of the next log entry.  A leader's expirer that waits for the *)
(* entry gets its answer.                                                  *)
ApplyEntry(n) ==
    /\ applied[n] < Len(log)
    /\ applied' = [applied EXCEPT ![n] = @ + 1]
    /\ table' = [table EXCEPT ![n] = ApplyCommand(@, log[applied[n] + 1])]
    /\ expiring' = [expiring EXCEPT ![n] = @ \ {log[applied[n] + 1]}]
    /\ UNCHANGED <<clockVars, pending, logVars, due>>

(* Raft: n takes over.  What was in flight at the old leader is lost, and  *)
(* the calls that waited for it fail.                                      *)
Elect(n) ==
    /\ n # leader
    /\ elections < MaxElections
    /\ elections' = elections + 1
    /\ leader' = n
    /\ pending' = {}
    /\ expiring' = [expiring EXCEPT ![leader] = {}]
    /\ UNCHANGED <<now, logVars, fsmVars, due>>

Tick ==
    /\ now < MaxTime
    /\ now' = now + 1
    /\ UNCHANGED <<leader, elections, pending, logVars, fsmVars, expireVars>>

--------------------------------------------------------------------------------
(* RunExpirer.  The loop over the due records is sequential: the next one  *)
(* is proposed when the previous call has returned.                        *)

DueGrants(n) ==
    {[name |-> nm, token |-> table[n].locks[nm].token] : nm \in Due(table[n], Clock(n))}

ScanDue(n) ==
    /\ n = leader
    /\ due[n] = {}
    /\ expiring[n] = {}
    /\ DueGrants(n) # {}
    /\ due' = [due EXCEPT ![n] = DueGrants(n)]
    /\ UNCHANGED <<clockVars, pending, logVars, fsmVars, expiring>>

(* One call of expire: proposed by a leader, refused by any other node.    *)
ExpireNext(n, r) ==
    /\ expiring[n] = {}
    /\ r \in due[n]
    /\ due' = [due EXCEPT ![n] = @ \ {r}]
    /\ IF n = leader
       THEN /\ expiring' = [expiring EXCEPT ![n] = {LockExpire(r.name, r.token)}]
            /\ pending' = pending \cup {LockExpire(r.name, r.token)}
       ELSE UNCHANGED <<expiring, pending>>
    /\ UNCHANGED <<clockVars, logVars, fsmVars>>

--------------------------------------------------------------------------------

Client ==
    \/ \E nm \in Name, h \in Holder, ttl \in Requested : ApplyLockAcquire(nm, h, ttl)
    \/ \E g \in Granted : ApplyLockRelease(g)
    \/ \E g \in Granted, ttl \in Requested : ApplyLockRenew(g, ttl)

Expirer(n) == ScanDue(n) \/ \E r \in due[n] : ExpireNext(n, r)

System ==
    \/ \E c \in pending : Commit(c)
    \/ \E n \in Node : ApplyEntry(n) \/ Expirer(n)

Next == Client \/ System \/ Tick \/ \E n \in Node : Elect(n)

Spec == Init /\ [][Next]_vars

(* Raft makes progress while a leader stays, every FSM goroutine and every *)
(* expirer loop runs, and time passes; clients and elections owe nothing.  *)
FairSpec ==
    /\ Spec
    /\ WF_vars(Tick)
    /\ WF_vars(\E c \in pending : Commit(c))
    /\ \A n \in Node : WF_vars(ApplyEntry(n)) /\ WF_vars(Expirer(n))

--------------------------------------------------------------------------------

DueRecord == [name : Name, token : Nat]

(* Every variable keeps its type: commands, tables and scan results are    *)
(* well formed, and every stored TTL is one ClampTTL returned.             *)
TypeOK ==
    /\ now \in Nat
    /\ leader \in Node
    /\ elections \in Nat
    /\ pending \subseteq Command
    /\ log \in Seq(Command)
    /\ applied \in [Node -> Nat]
    /\ table \in [Node -> Table]
    /\ due \in [Node -> SUBSET DueRecord]
    /\ expiring \in [Node -> SUBSET ExpireCommand]
    /\ hist \in Seq(Table)

(* Every node that has applied the same prefix of the log has the same     *)
(* table, because the leader stamps the deadline and Apply reads no clock  *)
(* ("Writes must come from the Raft FSM so every node sees the same        *)
(* table", table.go).                                                      *)
Agreement ==
    /\ Len(hist) = Len(log) + 1
    /\ \A n \in Node : applied[n] \in 0 .. Len(log) /\ table[n] = hist[applied[n] + 1]

(* A fencing token stands for one grant, for ever: wherever in the history *)
(* a token appears, it is held under the same name by the same holder, and *)
(* a name's later grants have larger tokens than its earlier ones.         *)
Fencing ==
    \A i, j \in DOMAIN hist, a, b \in Name :
        (hist[i].locks[a] # NoLock /\ hist[j].locks[b] # NoLock) =>
            /\ hist[i].locks[a].token = hist[j].locks[b].token =>
                  a = b /\ hist[i].locks[a].holder = hist[j].locks[b].holder
            /\ a = b /\ i <= j => hist[i].locks[a].token <= hist[j].locks[b].token

(* Some deadline stamped for the grant has passed, on the fastest clock.   *)
Lapsed(nm, tok) ==
    \E i \in DOMAIN hist :
        /\ hist[i].locks[nm] # NoLock
        /\ hist[i].locks[nm].token = tok
        /\ hist[i].locks[nm].deadline # 0
        /\ hist[i].locks[nm].deadline <= now + MaxSkew

(* Between two log positions a grant ends only through a release by its    *)
(* own holder with its own token, or through an expire after one of the    *)
(* deadlines stamped for it has passed.  No command of another client, no  *)
(* stale token, no slow replica and no change of leader ends it.           *)
NoEarlyLoss ==
    \A i \in DOMAIN log, nm \in Name :
        LET g == hist[i].locks[nm]
            e == hist[i + 1].locks[nm]
        IN  (g # NoLock /\ (e = NoLock \/ e.token # g.token)) =>
                /\ log[i].name = nm /\ log[i].token = g.token
                /\ \/ log[i].kind = "lock_release" /\ log[i].id = g.holder
                   \/ log[i].kind = "lock_expire" /\ Lapsed(nm, g.token)

(* An expire that the leader has scanned, proposed or committed is never   *)
(* premature: it is for a grant one of whose deadlines has passed.         *)
NoEarlyExpire ==
    /\ \A n \in Node : \A r \in due[n] : Lapsed(r.name, r.token)
    /\ \A c \in pending \cup {log[i] : i \in DOMAIN log} :
            c.kind = "lock_expire" => Lapsed(c.name, c.token)

(* A grant as its clients know it, and what they see of a table.           *)
Grant == [name : Name, holder : Holder, token : Nat]

ASSUME GrantAssumption == NoLock \notin Grant

View(t) ==
    [nm \in Name |->
        IF t.locks[nm] = NoLock THEN NoLock
        ELSE [name |-> nm, holder |-> t.locks[nm].holder, token |-> t.locks[nm].token]]

Released ==
    {[name |-> log[i].name, holder |-> log[i].id, token |-> log[i].token] :
        i \in {j \in DOMAIN log : log[j].kind = "lock_release"}}

Late == {tok \in 0 .. Committed.next : \E nm \in Name : Lapsed(nm, tok)}

Contract == INSTANCE FencedLock
    WITH grant <- View(Committed), next <- Committed.next, asked <- Released, late <- Late

(* Table.Acquire, Release, Renew and Expire behind Raft keep the contract  *)
(* of a fenced lock: whatever replicas, leaders and clocks do, clients see *)
(* one grant at a time with the next token, which ends when its holder     *)
(* released that very grant or after a deadline.                           *)
Implements == Contract!Spec

(* "Expire releases name if token still matches. No-op on mismatch (renew  *)
(* raced)" (table.go): an expire that lost the race against a renew drops  *)
(* nothing, so what it drops is past its current deadline.                 *)
ExpireSparesRenewed ==
    \A i \in DOMAIN log :
        LET nm == log[i].name
            g  == hist[i].locks[nm]
        IN  (log[i].kind = "lock_expire" /\ g # NoLock /\ hist[i + 1].locks[nm] = NoLock)
                => g.deadline <= now + MaxSkew

(* "A dead holder must not hold forever" (table.go): every grant ends on   *)
(* every node, whoever leads, once its holder stops renewing it.           *)
NoHolderForever ==
    \A n \in Node, nm \in Name : []<>(table[n].locks[nm] = NoLock)

================================================================================
