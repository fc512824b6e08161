--------------------------------- MODULE Publish -------------------------------
(***************************************************************************)
(* Custom events: PublishEvent, its one-hop fan-out and the cache of seen  *)
(* ids of internal/grpcserver/events.go, called through the retry loop of  *)
(* the SDK (sdk/client.go Publish, sdk/retry.go).                          *)
(*                                                                         *)
(* A handler takes two steps.  seenOrAdd, under the cache's mutex, admits  *)
(* the id or answers "duplicate"; the local publish and the spawning of    *)
(* the relays come later, when other handlers may have admitted, evicted   *)
(* and emitted other ids.  (These two are one step: what happens between   *)
(* them commutes with one of them.)  Topics and payloads, whose checks     *)
(* reject a call before anything happens, are left out.  An id is the call *)
(* and 0 when the caller supplied it, and the call and the attempt when    *)
(* the receiving daemon makes a fresh one.                                 *)
(***************************************************************************)
EXTENDS Naturals, Sequences, FiniteSets, Functions

CONSTANTS
    Daemon,
    NoDaemon,
    Call,          \* Publish calls of applications
    Identified,    \* the calls made with an event_id
    Capacity,      \* size of the id cache (4096)
    MaxTries,      \* bound: attempts per call
    MaxFaults      \* bound: relays lost to a dial error or the timeout, members
                   \* marked dead on some daemon's list, restarts, together

ASSUME CapacityAssumption == Capacity \in Nat \ {0}

VARIABLES
    seen,      \* each daemon's FIFO of recent ids
    admitted,  \* history: the ids each daemon's cache let through since it started
    handling,  \* handlers that were let through and have not emitted
    emitted,   \* each daemon: the events on its bus, by id and number of admission
    alive,     \* each daemon: the peers its member list has alive
    relays,    \* fan-out calls in flight
    call,      \* each call: where it is and how often it was tried
    owed,      \* ghost: relays some peer is owed
    faults     \* faults so far

publishVars == <<seen, admitted, handling, emitted, alive, relays, call, owed, faults>>

PublishInit ==
    /\ seen = [d \in Daemon |-> <<>>]
    /\ admitted = [d \in Daemon |-> <<>>]
    /\ handling = {}
    /\ emitted = [d \in Daemon |-> {}]
    /\ alive = [d \in Daemon |-> Daemon]
    /\ relays = {}
    /\ call = [c \in Call |-> [pc |-> "idle", at |-> NoDaemon, tries |-> 0]]
    /\ owed = {}
    /\ faults = 0

(* Slip: the cache is emptied one entry too early.                         *)
AddEarlyEvict(q, id) ==
    IF Len(q) >= Capacity - 1 THEN Append(Tail(q), id) ELSE Append(q, id)

Add(q, id) == IF Len(q) >= Capacity THEN Append(Tail(q), id) ELSE Append(q, id)

Seen(d, id) == id \in Range(seen[d])

(* PublishEvent up to seenOrAdd: a new id is recorded and its handler goes *)
(* on, a known one is answered "duplicate".                                *)
PublishEvent(d, id, relay) ==
    \/ Seen(d, id) /\ UNCHANGED <<seen, admitted, handling>>
    \/ /\ ~Seen(d, id)
       /\ seen' = [seen EXCEPT ![d] = Add(@, id)]
       /\ admitted' = [admitted EXCEPT ![d] = Append(@, id)]
       /\ handling' = handling \cup {[at |-> d, id |-> id, n |-> Len(admitted[d]) + 1, relay |-> relay]}

(* Peers that are alive on the daemon's list, and only for a client's call.*)
FanoutTo(h) ==
    IF h.relay THEN {}
    ELSE {[from |-> h.at, to |-> p, id |-> h.id, n |-> h.n] : p \in alive[h.at] \ {h.at}}

(* The rest of PublishEvent: bus.Publish and the relays.                   *)
Emit(h) ==
    /\ handling' = handling \ {h}
    /\ emitted' = [emitted EXCEPT ![h.at] = @ \cup {[id |-> h.id, n |-> h.n]}]
    /\ relays' = relays \cup FanoutTo(h)
    /\ owed' = owed \cup FanoutTo(h)
    /\ UNCHANGED <<seen, admitted, alive, call, faults>>

(* The id the caller sends, or the one the daemon makes for the attempt.   *)
EventID(c) == <<c, IF c \in Identified THEN 0 ELSE call[c].tries + 1>>

(* One attempt reaches a daemon; its answer will arrive, or is lost and    *)
(* the SDK sees Unavailable, at once or when the handler is done.  The SDK *)
(* sends no id and stays with its daemon; a caller that sends one may      *)
(* retry anywhere.                                                         *)
Attempt(c, d, answered) ==
    /\ call[c].pc = "idle"
    /\ call[c].tries < MaxTries
    /\ c \in Identified \/ call[c].at \in {d, NoDaemon}
    /\ PublishEvent(d, EventID(c), FALSE)
    /\ call' = [call EXCEPT ![c] = [pc |-> IF answered THEN "done" ELSE "idle",
                                    at    |-> IF c \in Identified THEN NoDaemon ELSE d,
                                    tries |-> @.tries + 1]]
    /\ UNCHANGED <<emitted, alive, relays, owed, faults>>

(* Slip: the relay's answer is counted, its event is not.                  *)
RelayRejected(r) ==
    /\ relays' = relays \ {r}
    /\ UNCHANGED <<seen, admitted, handling, emitted, alive, call, owed, faults>>

Relay(r) ==
    /\ PublishEvent(r.to, r.id, TRUE)
    /\ relays' = relays \ {r}
    /\ UNCHANGED <<emitted, alive, call, owed, faults>>

(* A relay is never retried.                                               *)
LoseRelay(r) ==
    /\ faults < MaxFaults
    /\ relays' = relays \ {r}
    /\ owed' = owed \ {r}
    /\ faults' = faults + 1
    /\ UNCHANGED <<seen, admitted, handling, emitted, alive, call>>

MarkDead(d, p) ==
    /\ faults < MaxFaults
    /\ p # d /\ p \in alive[d]
    /\ alive' = [alive EXCEPT ![d] = @ \ {p}]
    /\ faults' = faults + 1
    /\ UNCHANGED <<seen, admitted, handling, emitted, relays, call, owed>>

(* A restarted daemon has an empty cache and a new bus; its handlers and   *)
(* the relays it was sending are gone.                                     *)
Crash(d) ==
    /\ faults < MaxFaults
    /\ seen' = [seen EXCEPT ![d] = <<>>]
    /\ admitted' = [admitted EXCEPT ![d] = <<>>]
    /\ handling' = {h \in handling : h.at # d}
    /\ emitted' = [emitted EXCEPT ![d] = {}]
    /\ relays' = {r \in relays : r.from # d}
    /\ owed' = {r \in owed : r.from # d /\ r.to # d}
    /\ faults' = faults + 1
    /\ UNCHANGED <<alive, call>>

PublishNext ==
    \/ \E c \in Call, d \in Daemon, a \in BOOLEAN : Attempt(c, d, a)
    \/ \E h \in handling : Emit(h)
    \/ \E r \in relays : Relay(r) \/ LoseRelay(r)
    \/ \E d, p \in Daemon : MarkDead(d, p)
    \/ \E d \in Daemon : Crash(d)

PublishSpec == PublishInit /\ [][PublishNext]_publishVars

--------------------------------------------------------------------------------

(* A daemon emits an id a second time only when its cache has let more     *)
(* than Capacity ids through in between: retries with the same event_id,   *)
(* relays of it from several daemons and handlers that overtake each other *)
(* between the cache and the bus make one event (events.go:70-89,          *)
(* 150-166).                                                               *)
SecondOnlyAfterEviction ==
    \A d \in Daemon : \A e, f \in emitted[d] :
        e.id = f.id /\ e.n < f.n => f.n - e.n > Capacity

(* A peer that a fan-out addressed has emitted the event, is about to, or  *)
(* its relay is still under way: a relay that is refused as a duplicate is *)
(* a duplicate of something, and evictions and relays of other events      *)
(* never make it go unheard.  Only a lost relay and a restart of one of    *)
(* the two daemons excuse it (events.go:70-77, 102-133).                   *)
PeersHear ==
    \A r \in owed :
        \/ r \in relays
        \/ \E h \in handling : h.at = r.to /\ h.id = r.id
        \/ \E e \in emitted[r.to] : e.id = r.id

(* One Publish call of an application is one event on every daemon, however*)
(* often the SDK has to retry it (client.go:171-190).                      *)
OneFactPerCall ==
    \A d \in Daemon, c \in Call :
        Cardinality({e \in emitted[d] : e.id[1] = c}) <= 1

================================================================================
