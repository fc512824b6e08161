------------------------------- MODULE LockService -----------------------------
(***************************************************************************)
(* The lock service (internal/grpcserver/locks.go) on every daemon: calls  *)
(* that wait on the table's condition variable, are forwarded to the node  *)
(* the daemon takes for the leader, lose their leader half-way or run out  *)
(* of time.                                                                *)
(*                                                                         *)
(* Replication is LockGrants' subject: here a committed command is at once *)
(* in the one table every daemon reads.  Time is reduced to its effects: a *)
(* call's context may end at any moment, and a grant may expire.           *)
(***************************************************************************)
EXTENDS LockTable

CONSTANTS
    Node,
    NoNode,
    Observer,      \* observers: they neither lead nor accept lock calls
    Client,        \* each client makes one call at a time
    Home,          \* Home[c]: the daemon client c talks to
    AskedHolder,   \* AskedHolder[c]: the holder c sends, or NoHolder
    NoHolder,
    Requested,     \* Requested[op]: TTLs clients send with op; 0 is "not given"
    ServiceTTL,    \* lock.ttl of the configuration
    Lagging,       \* observers that have just started: their member list does not
                   \* yet say what they are
    FirstLeader,   \* the leader at the start, or NoNode
    MaxToken,      \* bound: grants
    MaxElections   \* bound: leader changes

VARIABLES
    table,     \* the committed lock table
    leader,    \* the Raft leader, or NoNode
    elections,
    view,      \* view[n]: the leader's id in n's membership engine
    aware,     \* observers whose own member list calls them one
    call,      \* call[c]: where c's call is
    over,      \* calls whose context is done
    answer,    \* answer[c]: what c's last call returned
    grant      \* grant[c]: the token c was told it holds, or 0

vars == <<table, leader, elections, view, aware, call, over, answer, grant>>

Op == {"Lock", "TryLock", "Unlock", "Renew"}

ASSUME NodeAssumption ==
    /\ NoNode \notin Node
    /\ FirstLeader \in (Node \ Observer) \cup {NoNode}
    /\ Home \in [Client -> Node]

ASSUME HolderAssumption ==
    /\ Node \subseteq Holder
    /\ \A c \in Client : AskedHolder[c] \in Holder \cup {NoHolder}

ASSUME RequestAssumption ==
    ServiceTTL \in Nat /\ \A op \in Op : Requested[op] \subseteq Nat

Idle == [pc |-> "idle"]

Active(c) == call[c].pc # "idle"

At(c, pc) == call[c].pc = pc

(* Calls that may yet bring a new token.                                   *)
Asking == {c \in Client : Active(c) /\ call[c].op \in {"Lock", "TryLock"}}

Init ==
    /\ table = EmptyTable
    /\ leader = FirstLeader
    /\ elections = 0
    /\ view = [n \in Node |-> n]
    /\ aware = Observer \ Lagging
    /\ call = [c \in Client |-> Idle]
    /\ over = {}
    /\ answer = [c \in Client |-> "OK"]
    /\ grant = [c \in Client |-> 0]

--------------------------------------------------------------------------------
(* Building blocks.                                                        *)

Broadcast(f) == [d \in Client |-> IF f[d].pc = "parked" THEN [f[d] EXCEPT !.pc = "woken"] ELSE f[d]]

(* The handler returns: a client whose deadline has passed has stopped     *)
(* listening.                                                              *)
Reply(c, code, tok) ==
    /\ answer' = [answer EXCEPT ![c] = IF c \in over THEN "DeadlineExceeded" ELSE code]
    /\ grant' = [grant EXCEPT ![c] = IF c \in over \/ code # "OK" THEN @ ELSE tok]
    /\ over' = over \ {c}

Fail(c, code) ==
    /\ Reply(c, code, 0)
    /\ call' = [call EXCEPT ![c] = Idle]

(* Slip: the service never looks at the holder it was sent.                *)
HolderAtOwn(c, n) == n

(* The service's own id stands in for an empty holder.                     *)
HolderAt(c, n) == IF AskedHolder[c] = NoHolder THEN n ELSE AskedHolder[c]

(* Slip: a renewal without a TTL takes the service's default.              *)
TTLFromMsNoReuse(ms, reuse) == ClampTTL(ms, ServiceTTL)

TTLFromMs(ms, reuse) == ClampTTL(IF ms > 0 THEN ms ELSE reuse, ServiceTTL)

(* What a renewal without a TTL reuses: the TTL of whatever grant the name *)
(* has when the handler looks.                                             *)
ReuseTTL(nm) ==
    IF table.locks[nm] # NoLock /\ table.locks[nm].ttl > 0 THEN table.locks[nm].ttl
    ELSE ServiceTTL

--------------------------------------------------------------------------------
(* Handlers.                                                               *)

(* A client starts a call on its daemon.  Unlock and Renew name the grant  *)
(* it was given; Unlock has no TTL.  knew is a ghost: the daemon knew      *)
(* that it is an observer.                                                 *)
Call(c, op, nm, ms) ==
    /\ ~Active(c)
    /\ op \in {"Unlock", "Renew"} => grant[c] # 0
    /\ op \in {"Lock", "TryLock"} => table.next + Cardinality(Asking) < MaxToken
    /\ call' = [call EXCEPT ![c] = [pc |-> "serve", op |-> op, name |-> nm, at |-> Home[c],
                                    ms |-> ms, ttl |-> 0, knew |-> Home[c] \in aware]]
    /\ answer' = [answer EXCEPT ![c] = "OK"]
    /\ UNCHANGED <<table, leader, elections, view, aware, over, grant>>

(* Slip: an observer forwards like any other follower.                     *)
ServeNoObserverCheck(c) ==
    LET n == call[c].at IN
    /\ At(c, "serve")
    /\ CASE n # leader /\ view[n] = n -> Fail(c, "FailedPrecondition")
         [] n # leader /\ view[n] # n ->
                /\ call' = [call EXCEPT ![c].at = view[n]]
                /\ UNCHANGED <<over, answer, grant>>
         [] n = leader ->
                /\ call' = [call EXCEPT ![c].pc = "try", ![c].ttl = ServiceTTL]
                /\ UNCHANGED <<over, answer, grant>>
    /\ UNCHANGED <<table, leader, elections, view, aware>>

(* The head of every handler: observers refuse, followers forward to the   *)
(* leader they know of, and the leader fixes the TTL.                      *)
Serve(c) ==
    LET n == call[c].at IN
    /\ At(c, "serve")
    /\ CASE n \in aware -> Fail(c, "FailedPrecondition")
         [] n \notin aware /\ n # leader /\ view[n] = n -> Fail(c, "FailedPrecondition")
         [] n \notin aware /\ n # leader /\ view[n] # n ->
                /\ call' = [call EXCEPT ![c].at = view[n]]
                /\ UNCHANGED <<over, answer, grant>>
         [] n \notin aware /\ n = leader ->
                LET reuse == IF call[c].op = "Renew" THEN ReuseTTL(call[c].name) ELSE 0 IN
                /\ call' = [call EXCEPT ![c].pc = "try", ![c].ttl = TTLFromMs(call[c].ms, reuse)]
                /\ UNCHANGED <<over, answer, grant>>
    /\ UNCHANGED <<table, leader, elections, view, aware>>

(* A command Raft does not commit.                                         *)
RaftError(op) == IF op \in {"Lock", "TryLock"} THEN "Internal" ELSE "FailedPrecondition"

(* The top of Lock's loop looks at the context; the others go straight to  *)
(* Raft, which takes the command only if this node still leads.            *)
Try(c) ==
    /\ At(c, "try")
    /\ CASE call[c].op = "Lock" /\ c \in over -> Fail(c, "DeadlineExceeded")
         [] ~(call[c].op = "Lock" /\ c \in over) /\ call[c].at # leader ->
                Fail(c, RaftError(call[c].op))
         [] ~(call[c].op = "Lock" /\ c \in over) /\ call[c].at = leader ->
                /\ call' = [call EXCEPT ![c].pc = "apply"]
                /\ UNCHANGED <<over, answer, grant>>
    /\ UNCHANGED <<table, leader, elections, view, aware>>

(* What the call's command makes of the table.                             *)
Applied(c) ==
    LET nm == call[c].name
        h  == HolderAt(c, call[c].at)
    IN  CASE call[c].op \in {"Lock", "TryLock"} -> Acquire(table, nm, h, 1, call[c].ttl)
          [] call[c].op = "Unlock" -> Release(table, nm, h, grant[c])
          [] call[c].op = "Renew"  -> Renew(table, nm, h, grant[c], 1, call[c].ttl)

(* Slip: Release forgets to broadcast.                                     *)
WakesNotOnRelease(c) ==
    call[c].op \in {"Lock", "TryLock"} /\ HeldBy(Applied(c), call[c].name, HolderAt(c, call[c].at))

(* Acquire, Release and Expire broadcast when they do something; Renew     *)
(* never does.                                                             *)
Wakes(c) ==
    LET nm == call[c].name
        h  == HolderAt(c, call[c].at)
    IN  CASE call[c].op \in {"Lock", "TryLock"} -> HeldBy(Applied(c), nm, h)
          [] call[c].op = "Unlock" -> Matches(table, nm, h, grant[c])
          [] call[c].op = "Renew"  -> FALSE

(* The command commits and is applied on the leader.  A Lock that is       *)
(* refused will wait; a full table is an error.                            *)
Apply(c) ==
    LET nm == call[c].name
        h  == HolderAt(c, call[c].at)
        rest == [call EXCEPT ![c] = Idle]
    IN
    /\ At(c, "apply")
    /\ call[c].at = leader
    /\ table' = Applied(c)
    /\ CASE call[c].op \in {"Lock", "TryLock"} /\ HeldBy(Applied(c), nm, h) ->
                /\ Reply(c, "OK", Applied(c).locks[nm].token)
                /\ call' = Broadcast(rest)
         [] call[c].op \in {"Lock", "TryLock"} /\ table.locks[nm] = NoLock /\ ~HeldBy(Applied(c), nm, h) ->
                Fail(c, "Internal")
         [] call[c].op = "TryLock" /\ table.locks[nm] # NoLock /\ ~HeldBy(Applied(c), nm, h) ->
                Fail(c, "Held")
         [] call[c].op = "Lock" /\ table.locks[nm] # NoLock /\ ~HeldBy(Applied(c), nm, h) ->
                /\ call' = [call EXCEPT ![c].pc = "refused"]
                /\ UNCHANGED <<over, answer, grant>>
         [] call[c].op \in {"Unlock", "Renew"} ->
                IF Matches(table, nm, h, grant[c])
                THEN /\ Reply(c, "OK", IF call[c].op = "Unlock" THEN 0 ELSE grant[c])
                     /\ call' = IF Wakes(c) THEN Broadcast(rest) ELSE rest
                ELSE Fail(c, "FailedPrecondition")
    /\ UNCHANGED <<leader, elections, view, aware>>

(* Leadership was lost with the command in flight: the caller gets an      *)
(* error, and the command may commit all the same.                         *)
ApplyFails(c) ==
    /\ At(c, "apply")
    /\ call[c].at # leader
    /\ LET rest == [call EXCEPT ![c] = Idle]
       IN  /\ Reply(c, RaftError(call[c].op), 0)
           /\ \/ UNCHANGED table /\ call' = rest
              \/ /\ table' = Applied(c)
                 /\ call' = IF Wakes(c) THEN Broadcast(rest) ELSE rest
    /\ UNCHANGED <<leader, elections, view, aware>>

(* Table.Wait: the caller joins the condition variable's queue, whatever   *)
(* happened since it was refused.                                          *)
Wait(c) ==
    /\ At(c, "refused")
    /\ call' = [call EXCEPT ![c].pc = "parked"]
    /\ UNCHANGED <<table, leader, elections, view, aware, over, answer, grant>>

(* Slip: the context is looked at only when the table changes.             *)
AfterFuncNever(c) == FALSE /\ UNCHANGED vars

(* context.AfterFunc: the end of a waiter's context wakes every waiter.    *)
AfterFunc(c) ==
    /\ At(c, "parked")
    /\ c \in over
    /\ call' = Broadcast(call)
    /\ UNCHANGED <<table, leader, elections, view, aware, over, answer, grant>>

(* Wait returns the context's error, or Lock tries again on this node.     *)
Woken(c) ==
    /\ At(c, "woken")
    /\ IF c \in over
       THEN Fail(c, "DeadlineExceeded")
       ELSE /\ call' = [call EXCEPT ![c].pc = "try"]
            /\ UNCHANGED <<over, answer, grant>>
    /\ UNCHANGED <<table, leader, elections, view, aware>>

(* A forwarding daemon gives up when the context ends.                     *)
GiveUp(c) ==
    /\ At(c, "serve")
    /\ call[c].at # leader
    /\ c \in over
    /\ Fail(c, "DeadlineExceeded")
    /\ UNCHANGED <<table, leader, elections, view, aware>>

--------------------------------------------------------------------------------
(* The environment: deadlines, the expirer, Raft and its leader observer.  *)

ContextEnds(c) ==
    /\ Active(c)
    /\ c \notin over
    /\ over' = over \cup {c}
    /\ UNCHANGED <<table, leader, elections, view, aware, call, answer, grant>>

GrantExpires(nm) ==
    /\ leader # NoNode
    /\ table.locks[nm] # NoLock
    /\ table' = Expire(table, nm, table.locks[nm].token)
    /\ call' = Broadcast(call)
    /\ UNCHANGED <<leader, elections, view, aware, over, answer, grant>>

LeaderChanges(n) ==
    /\ n # leader
    /\ elections < MaxElections
    /\ elections' = elections + 1
    /\ leader' = n
    /\ UNCHANGED <<table, view, aware, call, over, answer, grant>>

(* The leader-change callback: "no leader" is ignored, and an observation  *)
(* may be dropped.                                                         *)
SetLeader(n) ==
    /\ leader # NoNode
    /\ view[n] # leader
    /\ view' = [view EXCEPT ![n] = leader]
    /\ UNCHANGED <<table, leader, elections, aware, call, over, answer, grant>>

(* An observer applies the log entry that added it.                        *)
LearnRole(n) ==
    /\ n \in Observer \ aware
    /\ aware' = aware \cup {n}
    /\ UNCHANGED <<table, leader, elections, view, call, over, answer, grant>>

--------------------------------------------------------------------------------

Handler(c) ==
    \/ Serve(c) \/ Try(c) \/ Apply(c) \/ ApplyFails(c)
    \/ Wait(c) \/ AfterFunc(c) \/ Woken(c)

Next ==
    \/ \E c \in Client : Handler(c) \/ GiveUp(c) \/ ContextEnds(c)
    \/ \E c \in Client, nm \in Name, op \in Op : \E ms \in Requested[op] : Call(c, op, nm, ms)
    \/ \E nm \in Name : GrantExpires(nm)
    \/ \E n \in (Node \ Observer) \cup {NoNode} : LeaderChanges(n)
    \/ \E n \in Node : SetLeader(n) \/ LearnRole(n)

Spec == Init /\ [][Next]_vars

(* Handlers are goroutines: each runs on, Raft answers (its Apply has a    *)
(* timeout), and gRPC ends a forwarded call with its context.  Nothing     *)
(* makes clients, elections, expiries or deadlines happen.                 *)
FairSpec ==
    /\ Spec
    /\ \A c \in Client : WF_vars(Handler(c)) /\ WF_vars(GiveUp(c))

--------------------------------------------------------------------------------
(* Properties.                                                             *)

(* The holders a client's grants may have.                                 *)
Holders(c) == IF AskedHolder[c] = NoHolder THEN Node ELSE {AskedHolder[c]}

Apart(c, d) == Holders(c) \cap Holders(d) = {}

(* Two clients that send different holders (one that sends none may get    *)
(* any daemon's id) are never told that they own the same grant, whatever  *)
(* daemons they use, however their calls are forwarded and retried         *)
(* (lockService.holder and the same-holder branch of Table.Acquire).       *)
OneClientPerToken ==
    \A c, d \in Client : Apart(c, d) /\ grant[c] # 0 => grant[c] # grant[d]

(* An empty holder stands for the daemon the client talks to, as the       *)
(* reference of the lock API says of lockService.holder.                   *)
HolderIsOwnDaemon ==
    \A c \in Client, nm \in Name :
        /\ AskedHolder[c] = NoHolder
        /\ table.locks[nm] # NoLock
        /\ grant[c] # 0
        /\ table.locks[nm].token = grant[c]
        => table.locks[nm].holder = Home[c]

(* A call made to a daemon that knows it is an observer neither gets nor   *)
(* gives up a grant, wherever stale leader views would send it:            *)
(* rejectIfObserver comes before forwarding.                               *)
ObserversGrantNothing ==
    [][\A c \in Client : Active(c) /\ call[c].knew => grant'[c] = grant[c]]_vars

(* The same for every observer, including one that has not yet applied the *)
(* entry which added it: SelfRole reads the member list, and that of a     *)
(* lagging observer says voter.                                            *)
ObserversNeverGrant == \A c \in Client : Home[c] \in Observer => grant[c] = 0

(* A renewal that names no TTL keeps the TTL the grant has when it         *)
(* commits, although the handler read it before (Renew's reuse), for a     *)
(* client whose holder no other client may have.                           *)
RenewKeepsTTL ==
    [][\A c \in Client, nm \in Name :
        /\ \A d \in Client \ {c} : Apart(c, d)
        /\ call[c].pc = "apply" /\ call[c].op = "Renew" /\ call[c].name = nm /\ call[c].ms = 0
        /\ answer'[c] = "OK" /\ call'[c] = Idle
        => /\ table.locks[nm] # NoLock
           /\ table'.locks[nm].ttl = table.locks[nm].ttl]_vars

(* When a name becomes free, nobody is left asleep: each caller parked in  *)
(* Table.Wait runs again (the broadcasts of Release and Expire, and of a   *)
(* command whose proposer got an error).                                   *)
FreeingWakesAll ==
    [][\A nm \in Name : table.locks[nm] # NoLock /\ table'.locks[nm] = NoLock
            => \A c \in Client : call'[c].pc # "parked"]_vars

(* A call whose context ends returns, wherever it was: parked, in flight,  *)
(* or being forwarded in circles between stale views of the leader.        *)
DeadlineEndsCall == \A c \in Client : (c \in over) ~> ~Active(c)

(* Lock "blocks until the named lock is acquired": a caller does not stay  *)
(* parked in Table.Wait while the name is free.                            *)
NoSleepOnFreeLock ==
    \A c \in Client :
        (call[c].pc = "parked" /\ table.locks[call[c].name] = NoLock)
            ~> (call[c].pc # "parked" \/ table.locks[call[c].name] # NoLock)

(* A call that ends before there was ever a leader, and did not run out of *)
(* time, fails as Unavailable.                                             *)
NoLeaderIsUnavailable ==
    [][\A c \in Client :
        /\ Active(c) /\ leader = NoNode /\ elections = 0 /\ c \notin over /\ Home[c] \notin Observer
        /\ call'[c] = Idle
        => answer'[c] = "Unavailable"]_vars

================================================================================
