---------------------------------- MODULE Watch --------------------------------
(***************************************************************************)
(* One daemon's event bus (internal/eventbus/bus.go), the Watch handler of *)
(* internal/grpcserver/watch.go on it, and the SDK's reconnecting client   *)
(* (sdk/client.go).  Three kinds of goroutine publish: the Raft FSM        *)
(* changes the member list and then emits, the leadership watcher changes  *)
(* the leader and then emits, and PublishEvent handlers emit signals that  *)
(* leave no state behind.  A publish is three steps, as in the code: the   *)
(* change, the sequence number, the fan-out.                               *)
(*                                                                         *)
(* Abstractions: one client, whose connections follow one another; the     *)
(* stream is a rendezvous, so a message in flight when the stream breaks   *)
(* is one the handler had not taken yet; an event is the piece of state it *)
(* is about and its new value; event_types and topics are the set Filter.  *)
(***************************************************************************)
EXTENDS Naturals, Sequences, FiniteSetsExt

CONSTANTS
    Member,        \* nodes the list may hold
    NoNode,        \* no leader known
    Topic,         \* topics of custom events
    Publisher,     \* concurrent PublishEvent handlers
    Filter,        \* the state and topics the client's request lets through
    Capacity,      \* depth of a subscription's channel (64 in Watch)
    MaxSeq,        \* bound: events
    MaxFaults      \* bound: stream breaks, daemon restarts and Raft snapshots
                   \* installed while running, together

Leader == "leader"
Thread == {"fsm", "raft"} \cup Publisher
Status == {"alive", "dead", "absent"}
Key == Member \cup {Leader} \cup Topic
NoValue == "none"

(* Members, the leader and topics are different kinds of event, and each   *)
(* goroutine publishes one kind.                                           *)
ASSUME KindAssumption ==
    /\ Leader \notin Member /\ Topic \cap (Member \cup {Leader}) = {}
    /\ Publisher \cap {"fsm", "raft"} = {}
    /\ Filter \subseteq Key

VARIABLES
    state,    \* the membership engine: status of each member, and the leader
    bus,      \* sequence counter and the client's subscription
    pub,      \* each thread's publish in progress
    conn,     \* the Watch handler serving the client
    client,   \* the SDK's cursor and the view an application builds
    faults    \* how often the environment has interfered; ghosts: the events
              \* of earlier buses, and whether a snapshot was installed

vars == <<state, bus, pub, conn, client, faults>>

Idle == [pc |-> "idle", key |-> Leader, val |-> NoValue, seq |-> 0]

NoSub == [on |-> FALSE, queue |-> <<>>, dropped |-> FALSE]

(* The handler is between two streams: pc counts the steps of Order.       *)
NoConn == [pc |-> 0, from |-> 0, cursor |-> 0, lastLive |-> 0,
           due |-> {}, lossy |-> FALSE]

EmptyView == [k \in Member \cup {Leader} |-> IF k = Leader THEN NoNode ELSE "absent"]

Init ==
    /\ state \in {[k \in Member \cup {Leader} |->
                     IF k = Leader THEN n ELSE IF k = n THEN "alive" ELSE "absent"] :
                  n \in Member}
    /\ bus = [seq |-> 0, sub |-> NoSub]
    /\ pub = [t \in Thread |-> Idle]
    /\ conn = NoConn
    /\ client = [last |-> 0, view |-> EmptyView, missed |-> {}, told |-> FALSE,
                 ordered |-> TRUE]
    /\ faults = [count |-> 0, before |-> 0, restored |-> FALSE]

--------------------------------------------------------------------------------
(* Publishing                                                              *)

Start(t, k, v) ==
    /\ pub[t].pc = "idle"
    /\ faults.before + bus.seq + Cardinality({u \in Thread : pub[u].pc = "changed"}) < MaxSeq
    /\ pub' = [pub EXCEPT ![t] = [pc |-> "changed", key |-> k, val |-> v, seq |-> 0]]
    /\ UNCHANGED <<bus, conn, client, faults>>

(* JoinAs, MarkDead and Leave emit only when they change the list, after   *)
(* the engine's mutex is released.                                         *)
ChangeMember(m, v) ==
    /\ v # state[m]
    /\ v = "dead" => state[m] = "alive"
    /\ state' = [state EXCEPT ![m] = v]
    /\ Start("fsm", m, v)

SetLeader(n) ==
    /\ n # state[Leader]
    /\ state' = [state EXCEPT ![Leader] = n]
    /\ Start("raft", Leader, n)

Signal(p, topic) == Start(p, topic, NoValue) /\ UNCHANGED state

(* A Raft snapshot installed on a running daemon writes the members it     *)
(* holds without emitting.                                                 *)
RestoreMember(m, v) ==
    /\ faults.count < MaxFaults
    /\ pub["fsm"].pc = "idle"
    /\ v \in {"alive", "dead"} /\ v # state[m]
    /\ state' = [state EXCEPT ![m] = v]
    /\ faults' = [faults EXCEPT !.count = @ + 1, !.restored = TRUE]
    /\ UNCHANGED <<bus, pub, conn, client>>

Matches(k) == k \in Filter

(* The counter moves before the bus's mutex is taken.                      *)
Number(t) ==
    /\ pub[t].pc = "changed"
    /\ bus' = [bus EXCEPT !.seq = @ + 1]
    /\ pub' = [pub EXCEPT ![t].pc = "numbered", ![t].seq = bus.seq + 1]
    /\ conn' = IF conn.pc > 2 /\ Matches(pub[t].key)
               THEN [conn EXCEPT !.due = @ \cup {bus.seq + 1}] ELSE conn
    /\ UNCHANGED <<state, client, faults>>

(* Slip: a full channel is skipped and the flag forgotten.                 *)
OfferSilently(sub, e) ==
    IF ~sub.on \/ Len(sub.queue) >= Capacity THEN sub
    ELSE [sub EXCEPT !.queue = Append(@, e)]

Offer(sub, e) ==
    IF ~sub.on THEN sub
    ELSE IF Len(sub.queue) < Capacity THEN [sub EXCEPT !.queue = Append(@, e)]
    ELSE [sub EXCEPT !.dropped = TRUE]

Fanout(t) ==
    LET sub == Offer(bus.sub, [key |-> pub[t].key, val |-> pub[t].val, seq |-> pub[t].seq])
    IN  /\ pub[t].pc = "numbered"
        /\ bus' = [bus EXCEPT !.sub = sub]
        /\ conn' = [conn EXCEPT !.lossy = @ \/ sub.dropped]
        /\ pub' = [pub EXCEPT ![t] = Idle]
        /\ client' = IF client.last > 0 /\ Matches(pub[t].key)
                     THEN [client EXCEPT !.missed = @ \cup {<<faults.before, pub[t].seq>>}]
                     ELSE client
        /\ UNCHANGED <<state, faults>>

--------------------------------------------------------------------------------
(* The Watch handler                                                       *)

(* Slip: the current state is read before the subscription exists.         *)
OrderSnapshotFirst ==
    <<"lastseq", "members", "subscribe", "leader", "sync", "gap">>

Order == <<"subscribe", "lastseq", "members", "leader", "sync", "gap">>

Opening(step) == conn.pc \in DOMAIN Order /\ Order[conn.pc] = step
Live == conn.pc > Len(Order)

(* The SDK opens a stream with the highest sequence number it has seen; an *)
(* application rebuilds its view from the snapshot.                        *)
Connect ==
    /\ conn.pc = 0
    /\ conn' = [NoConn EXCEPT !.pc = 1, !.cursor = client.last]
    /\ client' = [client EXCEPT !.view = EmptyView]
    /\ UNCHANGED <<state, bus, pub, faults>>

Subscribe ==
    /\ Opening("subscribe")
    /\ bus' = [bus EXCEPT !.sub = [NoSub EXCEPT !.on = TRUE]]
    /\ conn' = [conn EXCEPT !.pc = @ + 1]
    /\ UNCHANGED <<state, pub, client, faults>>

LastSeq ==
    /\ Opening("lastseq")
    /\ conn' = [conn EXCEPT !.pc = @ + 1, !.from = bus.seq]
    /\ UNCHANGED <<state, bus, pub, client, faults>>

Shown(keys) ==
    [k \in DOMAIN client.view |->
        IF k \in keys /\ Matches(k) THEN state[k] ELSE client.view[k]]

SendMembers ==
    /\ Opening("members")
    /\ conn' = [conn EXCEPT !.pc = @ + 1]
    /\ client' = [client EXCEPT !.view = Shown(Member)]
    /\ UNCHANGED <<state, bus, pub, faults>>

SendLeader ==
    /\ Opening("leader")
    /\ conn' = [conn EXCEPT !.pc = @ + 1]
    /\ client' = [client EXCEPT !.view = Shown({Leader})]
    /\ UNCHANGED <<state, bus, pub, faults>>

(* watch.sync carries the high-water mark, which becomes the cursor.       *)
SendSync ==
    /\ Opening("sync")
    /\ conn' = [conn EXCEPT !.pc = @ + 1]
    /\ client' = [client EXCEPT !.last = Max({@, conn.from})]
    /\ UNCHANGED <<state, bus, pub, faults>>

SendGap ==
    /\ Opening("gap")
    /\ conn' = [conn EXCEPT !.pc = @ + 1]
    /\ client' = [client EXCEPT
                    !.told = @ \/ (conn.cursor > 0 /\ conn.from > conn.cursor)]
    /\ UNCHANGED <<state, bus, pub, faults>>

(* An event the request filters out is skipped before the drop flag is     *)
(* looked at; otherwise the flag is taken, a gap up to the event in hand   *)
(* is sent if that range is not empty, and the event follows.              *)
Recv ==
    LET e == Head(bus.sub.queue)
        rest == Tail(bus.sub.queue)
        from == IF conn.lastLive > 0 THEN conn.lastLive + 1 ELSE 1
        gap == bus.sub.dropped /\ from <= e.seq - 1
    IN  /\ Live
        /\ bus.sub.queue # <<>>
        /\ IF Matches(e.key)
           THEN /\ bus' = [bus EXCEPT !.sub.queue = rest, !.sub.dropped = FALSE]
                /\ conn' = [conn EXCEPT !.lastLive = e.seq, !.due = @ \ {e.seq}]
                /\ client' = [client EXCEPT
                     !.last = Max({@, e.seq}),
                     !.view = [k \in DOMAIN @ |-> IF k = e.key THEN e.val ELSE @[k]],
                     !.missed = @ \ {<<faults.before, e.seq>>},
                     !.told = @ \/ gap,
                     !.ordered = @ /\ e.seq > conn.lastLive]
           ELSE /\ bus' = [bus EXCEPT !.sub.queue = rest]
                /\ UNCHANGED <<conn, client>>
        /\ UNCHANGED <<state, pub, faults>>

(* The stream breaks; Unsubscribe runs when the handler returns, and what  *)
(* was queued is gone.                                                     *)
Break ==
    /\ conn.pc > 0
    /\ faults.count < MaxFaults
    /\ conn' = NoConn
    /\ bus' = [bus EXCEPT !.sub = NoSub]
    /\ faults' = [faults EXCEPT !.count = @ + 1]
    /\ UNCHANGED <<state, pub, client>>

(* The daemon restarts: a new bus counts from 1 again, and the engine has  *)
(* its state back from Raft.                                               *)
Restart ==
    /\ faults.count < MaxFaults
    /\ conn' = NoConn
    /\ bus' = [seq |-> 0, sub |-> NoSub]
    /\ pub' = [t \in Thread |-> Idle]
    /\ faults' = [faults EXCEPT !.count = @ + 1, !.before = @ + bus.seq]
    /\ UNCHANGED <<state, client>>

Next ==
    \/ \E m \in Member, v \in Status : ChangeMember(m, v) \/ RestoreMember(m, v)
    \/ \E n \in Member : SetLeader(n)
    \/ \E p \in Publisher, topic \in Topic : Signal(p, topic)
    \/ \E t \in Thread : Number(t) \/ Fanout(t)
    \/ Connect \/ Subscribe \/ LastSeq \/ SendMembers \/ SendLeader \/ SendSync
    \/ SendGap \/ Recv \/ Break \/ Restart

Spec == Init /\ [][Next]_vars

--------------------------------------------------------------------------------

Quiet ==
    /\ Live
    /\ bus.sub.queue = <<>>
    /\ \A t \in Thread : pub[t].pc = "idle"

ViewIsCurrent ==
    Quiet /\ ~conn.lossy => \A k \in Filter \ Topic : client.view[k] = state[k]

(* A client that rebuilds its view from the snapshot and applies the live  *)
(* events in order has, once nothing is queued or being published and      *)
(* nothing was dropped on this stream, exactly the daemon's members and    *)
(* leader: subscribing before the snapshot (watch.go:54-60) closes the     *)
(* race, although events may repeat what the snapshot said.  A Raft        *)
(* snapshot restored on the running daemon is the exception: RestoreMember *)
(* emits nothing, and open streams never learn of it.                      *)
ViewConverges == ~faults.restored => ViewIsCurrent

(* Every matching event numbered above the high-water mark of watch.sync   *)
(* is received on that stream or the bus has recorded a drop               *)
(* (bus.go:58-60): nothing falls between the mark and the first live event.*)
StreamComplete == Quiet /\ ~conn.lossy => conn.due = {}

InFlight(n) ==
    \/ \E i \in DOMAIN bus.sub.queue : bus.sub.queue[i].seq = n
    \/ \E t \in Thread : pub[t].pc = "numbered" /\ pub[t].seq = n

(* An event dropped because the channel was full is announced by watch.gap *)
(* by the time a later event of the stream has been received               *)
(* (watch.go:84-95).                                                       *)
DropIsAnnounced ==
    \A n \in conn.due : n < conn.lastLive /\ ~InFlight(n) => client.told

(* A client that reconnects with a cursor and has missed a matching event  *)
(* has been told of some gap by the time the stream is quiet again         *)
(* (watch.go:66-70).                                                       *)
GapTold == Quiet /\ client.missed # {} => client.told

(* The sequence numbers of the live events of one stream increase: gap     *)
(* detection and the cursor rely on it (events.go:47-49, bus.go:51).       *)
StreamSeqIncreases == client.ordered

================================================================================
