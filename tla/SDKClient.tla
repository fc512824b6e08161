-------------------------------- MODULE SDKClient ------------------------------
(***************************************************************************)
(* The Go SDK's locks and leases (sdk/lock.go, sdk/lease.go): the map of   *)
(* held handles, the background renewals, retries, Unlock and Close, used  *)
(* by the goroutines of several connections against one name.              *)
(*                                                                         *)
(* The daemon is what the SDK sees of it: a grant with a token, a refusal, *)
(* FailedPrecondition when the grant is gone or no leader is known, or an  *)
(* answer that is lost (Unavailable, retried).  Handles are their tokens;  *)
(* two handles with one token never coexist (adopt).  Deadlines become: a  *)
(* grant may expire, a call may run out of time.                           *)
(***************************************************************************)
EXTENDS Naturals, FiniteSets

CONSTANTS
    Conn,          \* connections, each its own holder
    Thread,        \* goroutines of the applications
    ConnOf,        \* ConnOf[t]: the connection t uses
    MaxToken,      \* bound: grants
    MaxLosses,     \* bound: lost answers
    MaxTimeouts,   \* bound: calls that run out of time, by operation
    MaxElections,  \* bound: times the leader is unknown
    MaxExpiries    \* bound: grants that expire

(* Every goroutine has its connection, and no connection is "nobody".      *)
Wired == "nobody" \notin Conn /\ ConnOf \in [Thread -> Conn]

ASSUME ConnAssumption == Wired

VARIABLES
    grant,     \* the daemon's grant: holder and token; token 0 is free
    next,      \* the last token granted
    leader,    \* the daemons know a leader
    held,      \* held[c]: the token in the connection's map, or 0
    loops,     \* loops[c]: tokens whose renewal goroutine runs
    thread,    \* thread[t]: where its call is
    phase,     \* phase[c]: open, closing (releasing tok), closed
    ghost,     \* tokens each connection was told are over; a stale handle was
               \* returned; connections that may leave a grant behind
    budget

vars == <<grant, next, leader, held, loops, thread, phase, ghost, budget>>

Free == [holder |-> "nobody", token |-> 0]
Idle == [pc |-> "idle", tok |-> 0]

Init ==
    /\ grant = Free
    /\ next = 0
    /\ leader = TRUE
    /\ held = [c \in Conn |-> 0]
    /\ loops = [c \in Conn |-> {}]
    /\ thread = [t \in Thread |-> Idle]
    /\ phase = [c \in Conn |-> [pc |-> "open", tok |-> 0]]
    /\ ghost = [over |-> [c \in Conn |-> {}], stale |-> FALSE, excused |-> {}]
    /\ budget = [losses |-> MaxLosses, locks |-> MaxTimeouts.lock,
                 unlocks |-> MaxTimeouts.unlock, closes |-> MaxTimeouts.close,
                 elections |-> MaxElections, expiries |-> MaxExpiries]

Goto(t, pc, tok) == thread' = [thread EXCEPT ![t] = [pc |-> pc, tok |-> tok]]

Told(c, tok) == ghost' = [ghost EXCEPT !.over[c] = @ \cup {tok}]

(* The application was told of a failure, or closed over its own call.     *)
Excuse(c) == ghost' = [ghost EXCEPT !.excused = @ \cup {c}]

Answered(a) ==
    /\ a \/ budget.losses > 0
    /\ budget' = IF a THEN budget ELSE [budget EXCEPT !.losses = @ - 1]

--------------------------------------------------------------------------------
(* Lock, TryLock, Lease                                                    *)

(* A name in the map is answered from it, with no call to the daemon.      *)
LockCall(t) ==
    LET c == ConnOf[t] IN
    /\ thread[t].pc = "idle"
    /\ phase[c].pc = "open"
    /\ IF held[c] # 0
       THEN /\ ghost' = [ghost EXCEPT !.stale = @ \/ held[c] \in ghost.over[c]]
            /\ UNCHANGED thread
       ELSE Goto(t, "asked", 0) /\ UNCHANGED ghost
    /\ UNCHANGED <<grant, next, leader, held, loops, phase, budget>>

(* The daemon grants a free name, and its own grant again to the same      *)
(* holder; a lost answer is retried.                                       *)
LockServe(t, answered) ==
    LET c == ConnOf[t] IN
    /\ thread[t].pc = "asked"
    /\ leader
    /\ answered => phase[c].pc # "closed"
    /\ \/ /\ grant = Free
          /\ next < MaxToken
          /\ grant' = [holder |-> c, token |-> next + 1]
          /\ next' = next + 1
       \/ /\ grant.holder = c
          /\ UNCHANGED <<grant, next>>
    /\ Answered(answered)
    /\ IF answered THEN Goto(t, "granted", grant'.token) ELSE UNCHANGED thread
    /\ UNCHANGED <<leader, held, loops, phase, ghost>>

(* TryLock and Lease do not wait; no leader is FailedPrecondition.         *)
LockRefused(t) ==
    /\ thread[t].pc = "asked"
    /\ \/ ~leader /\ Excuse(ConnOf[t])
       \/ leader /\ grant.holder \notin {"nobody", ConnOf[t]} /\ UNCHANGED ghost
    /\ Goto(t, "idle", 0)
    /\ UNCHANGED <<grant, next, leader, held, loops, phase, budget>>

LockTimeout(t) ==
    /\ thread[t].pc = "asked"
    /\ budget.locks > 0
    /\ Goto(t, "idle", 0)
    /\ budget' = [budget EXCEPT !.locks = @ - 1]
    /\ Excuse(ConnOf[t])
    /\ UNCHANGED <<grant, next, leader, held, loops, phase>>

(* The same token again is the handle already there, renewal included.     *)
Adopt(t) ==
    LET c == ConnOf[t] tok == thread[t].tok IN
    /\ thread[t].pc = "granted"
    /\ IF held[c] = tok
       THEN Goto(t, "idle", 0) /\ UNCHANGED held
       ELSE Goto(t, "adopted", tok) /\ held' = [held EXCEPT ![c] = tok]
    /\ UNCHANGED <<grant, next, leader, loops, phase, ghost, budget>>

(* The renewal starts after the map's mutex is released: Close may have    *)
(* found the handle in between.                                            *)
StartRenew(t) ==
    LET c == ConnOf[t] IN
    /\ thread[t].pc = "adopted"
    /\ loops' = [loops EXCEPT ![c] = @ \cup {thread[t].tok}]
    /\ Goto(t, "idle", 0)
    /\ UNCHANGED <<grant, next, leader, held, phase, ghost, budget>>

--------------------------------------------------------------------------------
(* Unlock, Revoke: the same release serves Close.                          *)

StopRenew(c, tok) == loops' = [loops EXCEPT ![c] = @ \ {tok}]

(* Slip: Unlock leaves the renewal to notice by itself.                    *)
UnlockCallStillRenewing(t) ==
    LET c == ConnOf[t] IN
    /\ thread[t].pc = "idle"
    /\ phase[c].pc = "open"
    /\ held[c] # 0
    /\ Goto(t, "releasing", held[c])
    /\ UNCHANGED <<grant, next, leader, held, loops, phase, ghost, budget>>

UnlockCall(t) ==
    LET c == ConnOf[t] IN
    /\ thread[t].pc = "idle"
    /\ phase[c].pc = "open"
    /\ held[c] # 0
    /\ StopRenew(c, held[c])
    /\ Goto(t, "releasing", held[c])
    /\ UNCHANGED <<grant, next, leader, held, phase, ghost, budget>>

Forget(c, tok) == held' = [held EXCEPT ![c] = IF @ = tok THEN 0 ELSE @]

Matches(c, tok) == grant = [holder |-> c, token |-> tok]

(* Released, or FailedPrecondition because the grant is gone: either way   *)
(* the map forgets it.  A lost answer is retried and then finds it gone.   *)
UnlockServe(t, answered) ==
    LET c == ConnOf[t] tok == thread[t].tok IN
    /\ thread[t].pc = "releasing"
    /\ leader
    /\ answered => phase[c].pc # "closed"
    /\ grant' = IF Matches(c, tok) THEN Free ELSE grant
    /\ Answered(answered)
    /\ IF answered
       THEN Forget(c, tok) /\ Goto(t, "idle", 0) /\ Told(c, tok)
       ELSE UNCHANGED <<held, thread, ghost>>
    /\ UNCHANGED <<next, leader, loops, phase>>

(* NOT_LEADER is FailedPrecondition too: forgotten, although still granted.*)
UnlockRefused(t) ==
    LET c == ConnOf[t] tok == thread[t].tok IN
    /\ thread[t].pc = "releasing"
    /\ ~leader
    /\ Forget(c, tok)
    /\ Goto(t, "idle", 0)
    /\ Excuse(c)
    /\ UNCHANGED <<grant, next, leader, loops, phase, budget>>

(* The handle stays in the map, no longer renewed.                         *)
UnlockTimeout(t) ==
    /\ thread[t].pc = "releasing"
    /\ budget.unlocks > 0
    /\ Goto(t, "idle", 0)
    /\ budget' = [budget EXCEPT !.unlocks = @ - 1]
    /\ UNCHANGED <<grant, next, leader, held, loops, phase, ghost>>

--------------------------------------------------------------------------------
(* The renewal goroutine: FailedPrecondition and a closed connection end   *)
(* it, any other error does not; the map is left alone.                    *)

RenewFails(c, tok) ==
    /\ tok \in loops[c]
    /\ \/ phase[c].pc = "closed" /\ UNCHANGED ghost
       \/ phase[c].pc # "closed" /\ ~leader /\ UNCHANGED ghost
       \/ phase[c].pc # "closed" /\ leader /\ ~Matches(c, tok) /\ Told(c, tok)
    /\ StopRenew(c, tok)
    /\ UNCHANGED <<grant, next, leader, held, thread, phase, budget>>

(* The context given to Lease ends: renewal stops, nothing else happens.   *)
(* A Lock has no such context; its behaviours are those without this step. *)
LifeEnds(c, tok) ==
    /\ tok \in loops[c]
    /\ StopRenew(c, tok)
    /\ UNCHANGED <<grant, next, leader, held, thread, phase, ghost, budget>>

--------------------------------------------------------------------------------
(* Close                                                                   *)

InFlight(c) == \E t \in Thread : ConnOf[t] = c /\ thread[t].pc # "idle"

Overlaps(c) == IF InFlight(c) THEN Excuse(c) ELSE UNCHANGED ghost

(* Slip: only handles that are still being renewed are released.           *)
CloseRenewedOnly(c) ==
    /\ phase[c].pc = "open"
    /\ phase' = [phase EXCEPT ![c] = [pc  |-> IF held[c] \in loops[c] THEN "closing" ELSE "closed",
                                       tok |-> held[c]]]
    /\ StopRenew(c, held[c])
    /\ Overlaps(c)
    /\ UNCHANGED <<grant, next, leader, held, thread, budget>>

(* releaseHeld copies the map, then releases what it copied.               *)
Close(c) ==
    /\ phase[c].pc = "open"
    /\ phase' = [phase EXCEPT ![c] = [pc  |-> IF held[c] # 0 THEN "closing" ELSE "closed",
                                       tok |-> held[c]]]
    /\ StopRenew(c, held[c])
    /\ Overlaps(c)
    /\ UNCHANGED <<grant, next, leader, held, thread, budget>>

CloseServe(c, answered) ==
    /\ phase[c].pc = "closing"
    /\ IF leader
       THEN /\ grant' = IF Matches(c, phase[c].tok) THEN Free ELSE grant
            /\ Answered(answered)
            /\ UNCHANGED ghost
       ELSE answered /\ Excuse(c) /\ UNCHANGED <<grant, budget>>
    /\ IF answered
       THEN phase' = [phase EXCEPT ![c].pc = "closed"] /\ Forget(c, phase[c].tok)
       ELSE UNCHANGED <<phase, held>>
    /\ UNCHANGED <<next, leader, loops, thread>>

(* Close ignores the error of a release that ran out of time.              *)
CloseTimeout(c) ==
    /\ phase[c].pc = "closing"
    /\ budget.closes > 0
    /\ phase' = [phase EXCEPT ![c].pc = "closed"]
    /\ budget' = [budget EXCEPT !.closes = @ - 1]
    /\ Excuse(c)
    /\ UNCHANGED <<grant, next, leader, held, loops, thread>>

(* The closed connection fails what is still in flight.                    *)
Cancel(t) ==
    /\ phase[ConnOf[t]].pc = "closed"
    /\ thread[t].pc \in {"asked", "releasing"}
    /\ Goto(t, "idle", 0)
    /\ UNCHANGED <<grant, next, leader, held, loops, phase, ghost, budget>>

--------------------------------------------------------------------------------
(* The cluster                                                             *)

Expire ==
    /\ grant # Free
    /\ budget.expiries > 0
    /\ grant' = Free
    /\ budget' = [budget EXCEPT !.expiries = @ - 1]
    /\ UNCHANGED <<next, leader, held, loops, thread, phase, ghost>>

LoseLeader ==
    /\ leader
    /\ budget.elections > 0
    /\ leader' = FALSE
    /\ budget' = [budget EXCEPT !.elections = @ - 1]
    /\ UNCHANGED <<grant, next, held, loops, thread, phase, ghost>>

Elect ==
    /\ ~leader
    /\ leader' = TRUE
    /\ UNCHANGED <<grant, next, held, loops, thread, phase, ghost, budget>>

Next ==
    \/ \E t \in Thread :
        \/ LockCall(t) \/ LockRefused(t) \/ LockTimeout(t) \/ Adopt(t) \/ StartRenew(t)
        \/ UnlockCall(t) \/ UnlockRefused(t) \/ UnlockTimeout(t) \/ Cancel(t)
        \/ \E a \in BOOLEAN : LockServe(t, a) \/ UnlockServe(t, a)
    \/ \E c \in Conn :
        \/ Close(c) \/ CloseTimeout(c)
        \/ \E a \in BOOLEAN : CloseServe(c, a)
        \/ \E tok \in loops[c] : RenewFails(c, tok) \/ LifeEnds(c, tok)
    \/ Expire \/ LoseLeader \/ Elect

Spec == Init /\ [][Next]_vars

--------------------------------------------------------------------------------

(* The connection is used by one goroutine at a time, Close aside.         *)
Single(c) == \A t, u \in Thread : ConnOf[t] = c /\ ConnOf[u] = c => t = u

Releasable(c) ==
    phase[c].pc # "closed" => \A tok \in loops[c] : Matches(c, tok) => held[c] = tok

(* A grant that an open connection renews is in the connection's map,      *)
(* where Unlock and Close find it: no renewal keeps a lock alive that      *)
(* nothing can release (lock.go:117-195).                                  *)
RenewedIsReleasable == \A c \in Conn : Single(c) => Releasable(c)

(* The same when goroutines share the connection.                          *)
SharedIsReleasable == \A c \in Conn : Releasable(c)

(* When Close has returned, the daemon has no grant of the connection      *)
(* left, after lost answers, expiries and unlocks that ran out of time     *)
(* (client.go:262-269, lock.go:197-209).  Excused are connections whose    *)
(* Lock or Close ran out of time, that were answered NOT_LEADER, or that   *)
(* were closed over a call in flight.                                      *)
CloseReleases ==
    \A c \in Conn \ ghost.excused :
        Single(c) /\ phase[c].pc = "closed" => grant.holder # c

(* Close "unlocks and revokes what this connection still holds" when no    *)
(* call failed, calls in flight or not (docs/sdk/go.md).                   *)
CloseReleasesAll ==
    budget.locks = MaxTimeouts.lock /\ budget.closes = MaxTimeouts.close /\ budget.elections = MaxElections =>
        \A c \in Conn : phase[c].pc = "closed" => grant.holder # c

(* Lock never returns, from the map, a handle whose grant the daemon has   *)
(* told this connection is over (lock.go:20-23, 149-153).                  *)
CachedIsLive == ~ghost.stale

(* A grant in the map is renewed until it is released or the connection is *)
(* closed (lock.go:131-169).                                               *)
RenewedUntilReleased ==
    \A c \in Conn :
        /\ held[c] # 0 /\ Matches(c, held[c]) /\ phase[c].pc = "open"
        /\ \A t \in Thread : ConnOf[t] = c => thread[t].pc # "releasing"
        => held[c] \in loops[c]

================================================================================
