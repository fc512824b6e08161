------------------------------- MODULE EventProofs -----------------------------
(***************************************************************************)
(* Watch: for any members, topics, publishers, filter and channel depth, a *)
(* quiet stream that lost nothing has shown the client the current state   *)
(* and every matching event after its high-water mark.  Neither is         *)
(* inductive: StreamInv follows each event from the change over the number *)
(* to the channel, and says of each key that whoever is about to report it *)
(* reports its value, that the last event queued about it tells it, and    *)
(* that the view has it once the snapshot was sent and nothing is queued.  *)
(*                                                                         *)
(* Presence: nobody is marked dead who answers and never let a lease       *)
(* expire, because a watcher's queue only holds expiries of the log.       *)
(***************************************************************************)
EXTENDS Watch, Presence, TLAPS

(* Most steps are first-order: Zenon first, SMT for what it does not find. *)
USE ZenonT(30), SMTT(60)

StateKey == Member \cup {Leader}

Value == Status \cup Member \cup {NoValue}

Event == [key : Key, val : Value, seq : Nat]

Report == [pc : {"idle", "changed", "numbered"}, key : Key, val : Value, seq : Nat]

(* One goroutine publishes the members, one the leader; a channel is there *)
(* from Subscribe on; a recorded drop is remembered.                       *)
StreamTypes ==
    /\ state \in [StateKey -> Value]
    /\ bus = [seq |-> bus.seq, sub |-> bus.sub] /\ bus.seq \in Nat
    /\ bus.sub = [on |-> bus.sub.on, queue |-> bus.sub.queue, dropped |-> bus.sub.dropped]
    /\ bus.sub.queue \in Seq(Event)
    /\ pub \in [Thread -> Report]
    /\ conn = [pc |-> conn.pc, from |-> conn.from, cursor |-> conn.cursor,
               lastLive |-> conn.lastLive, due |-> conn.due, lossy |-> conn.lossy]
    /\ conn.pc \in 0 .. 7
    /\ client = [last |-> client.last, view |-> client.view, missed |-> client.missed,
                 told |-> client.told, ordered |-> client.ordered]
    /\ client.view = [k \in StateKey |-> client.view[k]]
    /\ faults = [count |-> faults.count, before |-> faults.before, restored |-> faults.restored]
    /\ bus.sub.on <=> conn.pc > 1
    /\ ~bus.sub.on => bus.sub.queue = <<>> /\ ~bus.sub.dropped
    /\ bus.sub.dropped => conn.lossy
    /\ \A t \in Thread : pub[t].pc # "idle" =>
           \/ t = "fsm" /\ pub[t].key \in Member
           \/ t = "raft" /\ pub[t].key = Leader
           \/ t \in Publisher /\ pub[t].key \in Topic

(* A matching event that the client still has to get is in the channel or  *)
(* about to be put there.                                                  *)
Coming(n) ==
    \/ \E t \in Thread :
           pub[t].pc = "numbered" /\ pub[t].seq = n /\ Matches(pub[t].key)
    \/ \E i \in 1 .. Len(bus.sub.queue) :
           bus.sub.queue[i].seq = n /\ Matches(bus.sub.queue[i].key)

DueInv == \A n \in conn.due : conn.pc > 2 /\ (conn.lossy \/ Coming(n))

Pending(k) == \E t \in Thread : pub[t].pc # "idle" /\ pub[t].key = k

(* The last event about k says that k is v.                                *)
Tells(q, k, v) ==
    \A i \in 1 .. Len(q) :
        q[i].key = k /\ (\A j \in 1 .. Len(q) : j > i => q[j].key # k) => q[i].val = v

NoneAbout(q, k) == \A i \in 1 .. Len(q) : q[i].key # k

(* The snapshot has shown k to the client.                                 *)
Snapped(k) == conn.pc > (IF k = Leader THEN 4 ELSE 3)

KeyInv(k) ==
    /\ \A t \in Thread : pub[t].pc # "idle" /\ pub[t].key = k => pub[t].val = state[k]
    /\ ~Pending(k) /\ ~conn.lossy => Tells(bus.sub.queue, k, state[k])
    /\ ~Pending(k) /\ ~conn.lossy /\ Snapped(k) /\ Matches(k) /\ NoneAbout(bus.sub.queue, k)
           => client.view[k] = state[k]

StreamInv ==
    /\ StreamTypes
    /\ DueInv
    /\ ~faults.restored => \A k \in StateKey : KeyInv(k)

LEMMA AppendTells ==
    ASSUME NEW q \in Seq(Event), NEW e \in Event, NEW k, NEW v,
           IF e.key = k THEN e.val = v ELSE Tells(q, k, v)
    PROVE  Tells(Append(q, e), k, v)
<1> DEFINE r == Append(q, e)
<1>1. /\ Len(q) \in Nat /\ Len(r) = Len(q) + 1 /\ r[Len(q) + 1] = e
      /\ \A i \in 1 .. Len(q) : r[i] = q[i]
  OBVIOUS
<1> HIDE DEF r
<1> SUFFICES ASSUME NEW i \in 1 .. Len(r), r[i].key = k,
                    \A j \in 1 .. Len(r) : j > i => r[j].key # k
             PROVE  r[i].val = v
  BY DEF Tells, r
<1>2. CASE i = Len(q) + 1
  BY <1>1, <1>2
<1>3. CASE i # Len(q) + 1
  <2>1. i \in 1 .. Len(q) /\ Len(q) + 1 \in 1 .. Len(r) /\ Len(q) + 1 > i
    BY <1>1, <1>3
  <2>2. e.key # k
    BY <1>1, <2>1
  <2>3. q[i].key = k /\ q[i] = r[i]
    BY <1>1, <2>1
  <2>4. \A j \in 1 .. Len(q) : j \in 1 .. Len(r) /\ r[j] = q[j]
    BY <1>1
  <2>5. \A j \in 1 .. Len(q) : j > i => q[j].key # k
    BY <2>4
  <2> QED  BY <2>1, <2>2, <2>3, <2>5 DEF Tells
<1> QED  BY <1>2, <1>3

LEMMA TailTells ==
    ASSUME NEW q \in Seq(Event), q # <<>>, NEW k, NEW v, Tells(q, k, v)
    PROVE  /\ Tells(Tail(q), k, v)
           /\ NoneAbout(Tail(q), k) /\ Head(q).key = k => Head(q).val = v
           /\ NoneAbout(Tail(q), k) /\ Head(q).key # k => NoneAbout(q, k)
<1> DEFINE r == Tail(q)
<1>1. /\ Len(q) \in Nat /\ Len(q) > 0 /\ Len(r) = Len(q) - 1 /\ q[1] = Head(q)
      /\ \A i \in 1 .. Len(r) : r[i] = q[i + 1] /\ i + 1 \in 1 .. Len(q)
  OBVIOUS
<1>2. \A j \in 2 .. Len(q) : j - 1 \in 1 .. Len(r) /\ r[j - 1] = q[j]
  BY SMTT(60), <1>1
<1> HIDE DEF r
<1>3. Tells(r, k, v)
  <2> SUFFICES ASSUME NEW i \in 1 .. Len(r), r[i].key = k,
                      \A j \in 1 .. Len(r) : j > i => r[j].key # k
               PROVE  r[i].val = v
    BY DEF Tells
  <2>1. i + 1 \in 1 .. Len(q) /\ q[i + 1] = r[i]
    BY <1>1
  <2>2. ASSUME NEW j \in 1 .. Len(q), j > i + 1 PROVE q[j].key # k
    <3>1. j \in 2 .. Len(q) /\ j - 1 > i
      BY SMTT(60), <2>2, <1>1
    <3> QED  BY <1>2, <3>1
  <2> QED  BY <2>1, <2>2 DEF Tells
<1>4. ASSUME NoneAbout(r, k) PROVE \A j \in 1 .. Len(q) : j > 1 => q[j].key # k
  <2>1. ASSUME NEW j \in 1 .. Len(q), j > 1 PROVE q[j].key # k
    <3>1. j \in 2 .. Len(q)
      BY SMTT(60), <1>1, <2>1
    <3> QED  BY <1>2, <1>4, <3>1 DEF NoneAbout
  <2> QED  BY <2>1
<1>5. NoneAbout(r, k) /\ Head(q).key = k => Head(q).val = v
  BY SMTT(60), <1>1, <1>4 DEF Tells
<1>6. NoneAbout(r, k) /\ Head(q).key # k => NoneAbout(q, k)
  BY <1>1, <1>4 DEF NoneAbout
<1> QED  BY <1>3, <1>5, <1>6 DEF r

(* A step that leaves k, the channel and what is being published alone.    *)
LEMMA KeyKept ==
    ASSUME NEW k \in StateKey, KeyInv(k), state'[k] = state[k],
           bus'.sub.queue = bus.sub.queue,
           \A t \in Thread :
               pub'[t] = pub[t] \/ (pub'[t].pc # "idle" /\ pub[t].pc # "idle"
                                     /\ pub'[t].key = pub[t].key /\ pub'[t].val = pub[t].val),
           conn.lossy => conn'.lossy,
           Snapped(k)' /\ Matches(k)
               => client'.view[k] = state[k] \/ (Snapped(k) /\ client'.view[k] = client.view[k])
    PROVE  KeyInv(k)'
<1>1. Pending(k)' <=> Pending(k)
  BY DEF Pending
<1>2. Tells(bus.sub.queue, k, state[k]) => Tells(bus.sub.queue, k, state[k])'
  BY SMTT(60) DEF Tells
<1>3. NoneAbout(bus.sub.queue, k)' => NoneAbout(bus.sub.queue, k)
  BY DEF NoneAbout
<1>4. \A t \in Thread : pub'[t].pc # "idle" /\ pub'[t].key = k => pub'[t].val = state'[k]
  BY DEF KeyInv
<1>5. ~Pending(k)' /\ ~conn'.lossy => Tells(bus.sub.queue, k, state[k])'
  BY <1>1, <1>2 DEF KeyInv
<1>6. ~Pending(k)' /\ ~conn'.lossy /\ Snapped(k)' /\ Matches(k)
        /\ NoneAbout(bus.sub.queue, k)' => client'.view[k] = state'[k]
  BY <1>1, <1>3 DEF KeyInv
<1> QED  BY <1>4, <1>5, <1>6 DEF KeyInv, Matches

(* No channel and no snapshot yet: only the publishers count.              *)
LEMMA KeyFresh ==
    ASSUME NEW k \in StateKey, KeyInv(k), state'[k] = state[k],
           bus'.sub.queue = <<>>, ~Snapped(k)',
           \A t \in Thread : pub'[t] = pub[t] \/ pub'[t].pc = "idle"
    PROVE  KeyInv(k)'
<1>1. \A t \in Thread : pub'[t].pc # "idle" /\ pub'[t].key = k => pub'[t].val = state'[k]
  BY DEF KeyInv
<1>2. Tells(bus.sub.queue, k, state[k])'
  BY DEF Tells
<1> QED  BY <1>1, <1>2 DEF KeyInv

(* ChangeMember, SetLeader and Signal: the report of k is now pending.     *)
LEMMA StartStep ==
    ASSUME StreamInv, NEW t \in Thread, NEW key \in Key, NEW v \in Value,
           \/ t = "fsm" /\ key \in Member
           \/ t = "raft" /\ key = Leader
           \/ t \in Publisher /\ key \in Topic,
           Start(t, key, v), state' \in [StateKey -> Value],
           \A k \in StateKey : state'[k] = IF k = key THEN v ELSE state[k]
    PROVE  StreamInv'
<1> DEFINE r == [pc |-> "changed", key |-> key, val |-> v, seq |-> 0]
<1>1. pub[t].pc = "idle" /\ pub' = [pub EXCEPT ![t] = r] /\ UNCHANGED <<bus, conn, client, faults>>
  BY DEF Start
<1>2. StreamTypes /\ DueInv
  BY DEF StreamInv
<1>3. r \in Report /\ r.pc = "changed" /\ r.key = key /\ r.val = v
  BY DEF Report
<1> HIDE DEF r
<1>4. pub'[t] = r /\ \A u \in Thread \ {t} : pub'[u] = pub[u]
  BY <1>1, <1>2 DEF StreamTypes
<1>5. pub' \in [Thread -> Report]
  BY <1>1, <1>2, <1>3 DEF StreamTypes
<1>6. \A u \in Thread : pub'[u].pc # "idle" =>
           \/ u = "fsm" /\ pub'[u].key \in Member
           \/ u = "raft" /\ pub'[u].key = Leader
           \/ u \in Publisher /\ pub'[u].key \in Topic
  BY SMTT(60), <1>2, <1>3, <1>4 DEF StreamTypes
<1>7. StreamTypes'
  BY <1>1, <1>2, <1>5, <1>6 DEF StreamTypes, Thread, Leader, Key, Status, NoValue, Value, StateKey, Event, Report
<1>8. DueInv'
  <2> SUFFICES ASSUME NEW n \in conn'.due PROVE conn'.pc > 2 /\ (conn'.lossy \/ Coming(n)')
    BY DEF DueInv
  <2>1. conn.pc > 2 /\ (conn.lossy \/ Coming(n)) /\ conn' = conn /\ bus' = bus
    BY <1>1, <1>2 DEF DueInv
  <2>2. Coming(n) => Coming(n)'
    BY <2>1, <1>1, <1>4 DEF Coming, Matches, Thread
  <2> QED  BY <2>1, <2>2
<1>9. ASSUME ~faults'.restored, NEW k \in StateKey PROVE KeyInv(k)'
  <2>1. KeyInv(k) /\ bus' = bus /\ conn' = conn /\ client' = client
    BY <1>1, <1>9 DEF StreamInv
  <2>2. CASE k = key
    <3>1. Pending(k)'
      BY <1>3, <1>4, <2>2 DEF Pending, Thread
    <3>2. \A u \in Thread : pub'[u].pc # "idle" /\ pub'[u].key = k => u = t
      <4>1. ASSUME NEW u \in Thread, u # t, pub'[u].pc # "idle", pub'[u].key = k PROVE FALSE
        BY SMTT(60), <4>1, <1>2, <1>4, <2>2, KindAssumption DEF StreamTypes, StateKey
      <4> QED  BY <4>1
    <3>3. \A u \in Thread : pub'[u].pc # "idle" /\ pub'[u].key = k => pub'[u].val = state'[k]
      BY <3>2, <1>3, <1>4, <2>2
    <3> QED  BY ZenonT(30), <3>1, <3>3 DEF KeyInv, Thread
  <2>3. CASE k # key
    <3>1. state'[k] = state[k]
      BY <2>3
    <3>2. Pending(k)' <=> Pending(k)
      BY <1>1, <1>3, <1>4, <2>3 DEF Pending, Thread
    <3>3. \A u \in Thread : pub'[u].pc # "idle" /\ pub'[u].key = k => pub'[u].val = state'[k]
      BY <1>3, <1>4, <2>1, <2>3, <3>1 DEF KeyInv
    <3>4. Tells(bus.sub.queue, k, state[k]) => Tells(bus.sub.queue, k, state[k])'
      BY <2>1, <3>1 DEF Tells
    <3>5. NoneAbout(bus.sub.queue, k)' <=> NoneAbout(bus.sub.queue, k)
      BY <2>1 DEF NoneAbout
    <3>6. Snapped(k)' <=> Snapped(k)
      BY <2>1 DEF Snapped, Leader
    <3>7. ~Pending(k)' /\ ~conn'.lossy => Tells(bus.sub.queue, k, state[k])'
      BY <2>1, <3>2, <3>4 DEF KeyInv
    <3>8. ~Pending(k)' /\ ~conn'.lossy /\ Snapped(k)' /\ Matches(k)
            /\ NoneAbout(bus.sub.queue, k)' => client'.view[k] = state'[k]
      BY <2>1, <3>1, <3>2, <3>5, <3>6 DEF KeyInv
    <3> QED  BY <3>3, <3>7, <3>8 DEF KeyInv, Matches, Thread
  <2> QED  BY <2>2, <2>3
<1> QED  BY <1>2, <1>7, <1>8, <1>9 DEF StreamInv, Leader, Key, StateKey

LEMMA ChangeMemberStep ==
    ASSUME StreamInv, NEW m \in Member, NEW v \in Status, ChangeMember(m, v)
    PROVE  StreamInv'
<1>1. state \in [StateKey -> Value]
  BY DEF StreamInv, StreamTypes
<1>2. state' = [state EXCEPT ![m] = v] /\ Start("fsm", m, v)
  BY DEF ChangeMember
<1>3. m \in StateKey /\ m \in Key /\ v \in Value /\ "fsm" \in Thread
  BY DEF StateKey, Key, Value, Thread
<1>4. state' \in [StateKey -> Value] /\ \A k \in StateKey : state'[k] = IF k = m THEN v ELSE state[k]
  BY <1>1, <1>2, <1>3
<1> QED  BY <1>2, <1>3, <1>4, StartStep

LEMMA SetLeaderStep ==
    ASSUME StreamInv, NEW n \in Member, SetLeader(n)
    PROVE  StreamInv'
<1> DEFINE l == Leader
<1>1. state \in [StateKey -> Value]
  BY DEF StreamInv, StreamTypes
<1>2. state' = [state EXCEPT ![l] = n] /\ Start("raft", l, n)
  BY DEF SetLeader
<1>3. l \in StateKey /\ l \in Key /\ n \in Value /\ "raft" \in Thread
  BY DEF StateKey, Key, Value, Thread
<1>4. state' \in [StateKey -> Value] /\ \A k \in StateKey : state'[k] = IF k = l THEN n ELSE state[k]
  BY <1>1, <1>2, <1>3
<1> QED  BY <1>2, <1>3, <1>4, StartStep

LEMMA SignalStep ==
    ASSUME StreamInv, NEW p \in Publisher, NEW topic \in Topic, Signal(p, topic)
    PROVE  StreamInv'
<1> DEFINE none == NoValue
<1>1. state \in [StateKey -> Value] /\ topic \notin StateKey
  BY KindAssumption DEF StreamInv, StreamTypes, StateKey
<1>2. state' = state /\ Start(p, topic, none)
  BY DEF Signal
<1>3. topic \in Key /\ none \in Value /\ p \in Thread
  BY DEF Key, Value, Thread
<1>4. state' \in [StateKey -> Value] /\ \A k \in StateKey : state'[k] = IF k = topic THEN none ELSE state[k]
  BY <1>1, <1>2
<1> QED  BY <1>2, <1>3, <1>4, StartStep

LEMMA RestoreMemberStep ==
    ASSUME StreamInv, NEW m \in Member, NEW v \in Status, RestoreMember(m, v)
    PROVE  StreamInv'
<1>1. StreamTypes /\ DueInv
  BY DEF StreamInv
<1>2. /\ state' = [state EXCEPT ![m] = v] /\ UNCHANGED <<bus, pub, conn, client>>
      /\ faults' = [faults EXCEPT !.count = @ + 1, !.restored = TRUE]
  BY DEF RestoreMember
<1>3. state' \in [StateKey -> Value]
  BY <1>1, <1>2 DEF StreamTypes, StateKey, Value
<1>4. faults'.restored
     /\ faults' = [count |-> faults'.count, before |-> faults'.before, restored |-> faults'.restored]
  BY ZenonT(30), <1>1, <1>2 DEF StreamTypes
<1>5. StreamTypes'
  BY <1>1, <1>2, <1>3, <1>4 DEF StreamTypes
<1>6. DueInv'
  <2> SUFFICES ASSUME NEW n \in conn.due PROVE conn'.pc > 2 /\ (conn'.lossy \/ Coming(n)')
    BY <1>2 DEF DueInv
  <2>1. conn.pc > 2 /\ (conn.lossy \/ Coming(n))
    BY <1>1 DEF DueInv
  <2>2. Coming(n) => Coming(n)'
    BY <1>2 DEF Coming
  <2> QED  BY <1>2, <2>1, <2>2
<1> QED  BY <1>1, <1>4, <1>5, <1>6 DEF StreamInv

(* The event has its number and is on its way to the channel.              *)
LEMMA NumberStep ==
    ASSUME StreamInv, NEW t \in Thread, Number(t)
    PROVE  StreamInv'
<1>1. StreamTypes /\ DueInv
  BY DEF StreamInv
<1>2. /\ pub[t].pc = "changed" /\ bus' = [bus EXCEPT !.seq = @ + 1]
      /\ pub' = [pub EXCEPT ![t].pc = "numbered", ![t].seq = bus.seq + 1]
      /\ conn' = IF conn.pc > 2 /\ Matches(pub[t].key)
                 THEN [conn EXCEPT !.due = @ \cup {bus.seq + 1}] ELSE conn
      /\ UNCHANGED <<state, client, faults>>
  BY DEF Number
<1>3. bus' = [seq |-> bus'.seq, sub |-> bus'.sub] /\ bus'.seq = bus.seq + 1 /\ bus'.sub = bus.sub
     /\ bus.seq \in Nat /\ bus'.seq \in Nat
  BY SMTT(60), <1>1, <1>2 DEF StreamTypes
<1>4. /\ pub' \in [Thread -> Report]
      /\ \A u \in Thread \ {t} : pub'[u] = pub[u]
      /\ pub'[t].pc = "numbered" /\ pub'[t].seq = bus.seq + 1
      /\ pub'[t].key = pub[t].key /\ pub'[t].val = pub[t].val
  <2>1. pub[t] \in Report /\ pub \in [Thread -> Report]
    BY <1>1 DEF StreamTypes
  <2>2. pub' = [pub EXCEPT ![t] = [pub[t] EXCEPT !.pc = "numbered", !.seq = bus.seq + 1]]
    BY ZenonT(30), <1>2, <2>1 DEF Report
  <2>3. [pub[t] EXCEPT !.pc = "numbered", !.seq = bus.seq + 1] \in Report
    BY ZenonT(30), <1>3, <2>1 DEF Report
  <2>4. pub'[t] = [pub[t] EXCEPT !.pc = "numbered", !.seq = bus.seq + 1]
    BY <2>1, <2>2
  <2>5. pub' \in [Thread -> Report] /\ \A u \in Thread \ {t} : pub'[u] = pub[u]
    BY <2>1, <2>2, <2>3
  <2> QED  BY <2>1, <2>4, <2>5 DEF Report
<1>5. /\ conn' = [pc |-> conn'.pc, from |-> conn'.from, cursor |-> conn'.cursor,
                  lastLive |-> conn'.lastLive, due |-> conn'.due, lossy |-> conn'.lossy]
      /\ conn'.pc = conn.pc /\ conn'.lossy = conn.lossy
      /\ \A n \in conn'.due : n \in conn.due
             \/ (n = bus.seq + 1 /\ conn.pc > 2 /\ Matches(pub[t].key))
  <2>1. CASE conn.pc > 2 /\ Matches(pub[t].key)
    BY ZenonT(30), <1>1, <1>2, <2>1 DEF StreamTypes
  <2>2. CASE ~(conn.pc > 2 /\ Matches(pub[t].key))
    BY <1>1, <1>2, <2>2 DEF StreamTypes
  <2> QED  BY <2>1, <2>2
<1>6. \A u \in Thread : pub'[u].pc # "idle" =>
           \/ u = "fsm" /\ pub'[u].key \in Member
           \/ u = "raft" /\ pub'[u].key = Leader
           \/ u \in Publisher /\ pub'[u].key \in Topic
  BY SMTT(60), <1>1, <1>2, <1>4 DEF StreamTypes
<1>7. StreamTypes'
  BY <1>1, <1>2, <1>3, <1>4, <1>5, <1>6 DEF StreamTypes
<1>8. DueInv'
  <2> SUFFICES ASSUME NEW n \in conn'.due PROVE conn'.pc > 2 /\ (conn'.lossy \/ Coming(n)')
    BY DEF DueInv
  <2>1. CASE n \in conn.due
    <3>1. conn.pc > 2 /\ (conn.lossy \/ Coming(n))
      BY <1>1, <2>1 DEF DueInv
    <3>2. Coming(n) => Coming(n)'
      BY <1>2, <1>3, <1>4 DEF Coming
    <3> QED  BY <1>5, <3>1, <3>2
  <2>2. CASE n = bus.seq + 1 /\ conn.pc > 2 /\ Matches(pub[t].key)
    BY <1>4, <1>5, <2>2 DEF Coming
  <2> QED  BY <1>5, <2>1, <2>2
<1>9. ASSUME ~faults'.restored, NEW k \in StateKey PROVE KeyInv(k)'
  <2>1. KeyInv(k) /\ state' = state /\ client' = client
    BY <1>2, <1>9 DEF StreamInv
  <2>2. \A u \in Thread :
            pub'[u] = pub[u] \/ (pub'[u].pc # "idle" /\ pub[u].pc # "idle"
                                  /\ pub'[u].key = pub[u].key /\ pub'[u].val = pub[u].val)
    BY <1>2, <1>4
  <2>3. Snapped(k)' => Snapped(k)
    BY <1>5 DEF Snapped
  <2> QED  BY <1>3, <1>5, <2>1, <2>2, <2>3, KeyKept
<1> QED  BY <1>1, <1>7, <1>8, <1>9 DEF StreamInv

(* What any fan-out leaves: the goroutine is idle again, and the rest of   *)
(* the state is as before but for the subscription and the drop it records.*)
LEMMA FanoutEffect ==
    ASSUME StreamInv, NEW t \in Thread, Fanout(t),
           NEW e, e = [key |-> pub[t].key, val |-> pub[t].val, seq |-> pub[t].seq]
    PROVE  /\ pub[t].pc = "numbered" /\ e \in Event
           /\ e.key = pub[t].key /\ e.val = pub[t].val /\ e.seq = pub[t].seq
           /\ UNCHANGED <<state, faults>>
           /\ bus' = [seq |-> bus.seq, sub |-> bus'.sub] /\ bus'.seq = bus.seq
           /\ bus'.sub = Offer(bus.sub, e)
           /\ pub' \in [Thread -> Report] /\ pub'[t].pc = "idle"
           /\ \A u \in Thread \ {t} : pub'[u] = pub[u]
           /\ conn' = [pc |-> conn'.pc, from |-> conn'.from, cursor |-> conn'.cursor,
                       lastLive |-> conn'.lastLive, due |-> conn'.due, lossy |-> conn'.lossy]
           /\ conn'.pc = conn.pc /\ conn'.due = conn.due
           /\ conn'.lossy <=> (conn.lossy \/ bus'.sub.dropped)
           /\ client' = [last |-> client'.last, view |-> client'.view, missed |-> client'.missed,
                         told |-> client'.told, ordered |-> client'.ordered]
           /\ client'.view = client.view
<1>1. StreamTypes
  BY DEF StreamInv
<1>2. /\ pub[t].pc = "numbered" /\ bus' = [bus EXCEPT !.sub = Offer(bus.sub, e)]
      /\ conn' = [conn EXCEPT !.lossy = @ \/ Offer(bus.sub, e).dropped]
      /\ pub' = [pub EXCEPT ![t] = Idle] /\ UNCHANGED <<state, faults>>
      /\ client' = IF client.last > 0 /\ Matches(pub[t].key)
                   THEN [client EXCEPT !.missed = @ \cup {<<faults.before, pub[t].seq>>}]
                   ELSE client
  BY DEF Fanout
<1>3. pub \in [Thread -> Report] /\ pub[t] \in Report
  BY <1>1 DEF StreamTypes
<1>4. e \in Event /\ e.key = pub[t].key /\ e.val = pub[t].val /\ e.seq = pub[t].seq
  BY <1>3 DEF Event, Report
<1>5. Idle \in Report /\ Idle.pc = "idle"
  BY DEF Idle, Report, Key, Value
<1>6. pub' \in [Thread -> Report] /\ pub'[t].pc = "idle"
      /\ \A u \in Thread \ {t} : pub'[u] = pub[u]
  BY <1>2, <1>3, <1>5
<1>7. bus' = [seq |-> bus.seq, sub |-> bus'.sub] /\ bus'.seq = bus.seq
      /\ bus'.sub = Offer(bus.sub, e)
  BY <1>1, <1>2 DEF StreamTypes
<1>8. /\ conn' = [pc |-> conn'.pc, from |-> conn'.from, cursor |-> conn'.cursor,
                  lastLive |-> conn'.lastLive, due |-> conn'.due, lossy |-> conn'.lossy]
      /\ conn'.pc = conn.pc /\ conn'.due = conn.due
  BY <1>1, <1>2 DEF StreamTypes
<1>9. conn'.lossy <=> (conn.lossy \/ bus'.sub.dropped)
  BY ZenonT(30), <1>1, <1>2, <1>7 DEF StreamTypes
<1>10. /\ client' = [last |-> client'.last, view |-> client'.view, missed |-> client'.missed,
                     told |-> client'.told, ordered |-> client'.ordered]
       /\ client'.view = client.view
  <2>1. client = [last |-> client.last, view |-> client.view, missed |-> client.missed,
                  told |-> client.told, ordered |-> client.ordered]
    BY <1>1 DEF StreamTypes
  <2>2. CASE client' = client
    BY <2>1, <2>2
  <2>3. CASE client' = [client EXCEPT !.missed = @ \cup {<<faults.before, pub[t].seq>>}]
    BY <2>1, <2>3
  <2> QED  BY <1>2, <2>2, <2>3
<1> QED  BY <1>2, <1>4, <1>6, <1>7, <1>8, <1>9, <1>10

(* The three ways Offer can go.                                            *)
LEMMA OfferCases ==
    ASSUME StreamTypes, NEW e \in Event, NEW sub, sub = Offer(bus.sub, e)
    PROVE  /\ sub = [on |-> sub.on, queue |-> sub.queue, dropped |-> sub.dropped]
           /\ sub.on <=> bus.sub.on
           /\ sub.queue \in Seq(Event)
           /\ \/ ~bus.sub.on /\ sub = bus.sub
              \/ bus.sub.on /\ sub.queue = Append(bus.sub.queue, e) /\ sub.dropped = bus.sub.dropped
              \/ bus.sub.on /\ sub.queue = bus.sub.queue /\ sub.dropped
<1>1. /\ bus.sub = [on |-> bus.sub.on, queue |-> bus.sub.queue, dropped |-> bus.sub.dropped]
      /\ bus.sub.queue \in Seq(Event)
  BY DEF StreamTypes
<1>2. CASE ~bus.sub.on
  BY <1>1, <1>2 DEF Offer
<1>3. CASE bus.sub.on /\ Len(bus.sub.queue) < Capacity
  <2>1. sub = [bus.sub EXCEPT !.queue = Append(@, e)]
    BY <1>3 DEF Offer
  <2>2. sub = [on |-> bus.sub.on, queue |-> Append(bus.sub.queue, e), dropped |-> bus.sub.dropped]
    BY ZenonT(30), <1>1, <2>1
  <2>3. Append(bus.sub.queue, e) \in Seq(Event)
    BY <1>1
  <2> QED  BY <1>3, <2>2, <2>3
<1>4. CASE bus.sub.on /\ ~(Len(bus.sub.queue) < Capacity)
  <2>1. sub = [bus.sub EXCEPT !.dropped = TRUE]
    BY <1>4 DEF Offer
  <2> QED  BY ZenonT(30), <1>1, <1>4, <2>1
<1> QED  BY <1>2, <1>3, <1>4

LEMMA FanoutStep ==
    ASSUME StreamInv, NEW t \in Thread, Fanout(t)
    PROVE  StreamInv'
<1> DEFINE e == [key |-> pub[t].key, val |-> pub[t].val, seq |-> pub[t].seq]
           q == bus.sub.queue
<1>1. StreamTypes /\ DueInv
  BY DEF StreamInv
<1> HIDE DEF e
<1>2. /\ pub[t].pc = "numbered" /\ e \in Event
      /\ e.key = pub[t].key /\ e.val = pub[t].val /\ e.seq = pub[t].seq
      /\ UNCHANGED <<state, faults>>
      /\ bus' = [seq |-> bus.seq, sub |-> bus'.sub] /\ bus'.seq = bus.seq
      /\ bus'.sub = Offer(bus.sub, e)
      /\ pub' \in [Thread -> Report] /\ pub'[t].pc = "idle"
      /\ \A u \in Thread \ {t} : pub'[u] = pub[u]
      /\ conn' = [pc |-> conn'.pc, from |-> conn'.from, cursor |-> conn'.cursor,
                  lastLive |-> conn'.lastLive, due |-> conn'.due, lossy |-> conn'.lossy]
      /\ conn'.pc = conn.pc /\ conn'.due = conn.due
      /\ conn'.lossy <=> (conn.lossy \/ bus'.sub.dropped)
      /\ client' = [last |-> client'.last, view |-> client'.view, missed |-> client'.missed,
                    told |-> client'.told, ordered |-> client'.ordered]
      /\ client'.view = client.view
  BY FanoutEffect DEF e
<1>3. /\ bus'.sub = [on |-> bus'.sub.on, queue |-> bus'.sub.queue, dropped |-> bus'.sub.dropped]
      /\ bus'.sub.on <=> bus.sub.on
      /\ bus'.sub.queue \in Seq(Event)
      /\ \/ ~bus.sub.on /\ bus'.sub = bus.sub
         \/ bus.sub.on /\ bus'.sub.queue = Append(q, e) /\ bus'.sub.dropped = bus.sub.dropped
         \/ bus.sub.on /\ bus'.sub.queue = q /\ bus'.sub.dropped
  BY <1>1, <1>2, OfferCases
<1>4. StreamTypes'
  <2>1. bus'.seq \in Nat /\ bus' = [seq |-> bus'.seq, sub |-> bus'.sub]
    BY <1>1, <1>2 DEF StreamTypes
  <2>2. ~bus'.sub.on => bus'.sub.queue = <<>> /\ ~bus'.sub.dropped
    BY <1>1, <1>3 DEF StreamTypes
  <2>3. bus'.sub.dropped => conn'.lossy
    BY <1>2
  <2>4. \A u \in Thread : pub'[u].pc # "idle" =>
           \/ u = "fsm" /\ pub'[u].key \in Member
           \/ u = "raft" /\ pub'[u].key = Leader
           \/ u \in Publisher /\ pub'[u].key \in Topic
    BY <1>1, <1>2 DEF StreamTypes
  <2>5. client'.view = [k \in StateKey |-> client'.view[k]] /\ conn'.pc \in 0 .. 7
    BY <1>1, <1>2 DEF StreamTypes
  <2>6. bus'.sub.on <=> conn'.pc > 1
    BY <1>1, <1>2, <1>3 DEF StreamTypes
  <2>7. state' \in [StateKey -> Value]
      /\ faults' = [count |-> faults'.count, before |-> faults'.before, restored |-> faults'.restored]
    BY <1>1, <1>2 DEF StreamTypes
  <2> QED  BY <1>2, <1>3, <2>1, <2>2, <2>3, <2>4, <2>5, <2>6, <2>7 DEF StreamTypes
<1>5. q \in Seq(Event)
  BY <1>1 DEF StreamTypes
<1>6. DueInv'
  <2> SUFFICES ASSUME NEW n \in conn.due PROVE conn'.pc > 2 /\ (conn'.lossy \/ Coming(n)')
    BY <1>2 DEF DueInv
  <2>1. conn.pc > 2 /\ (conn.lossy \/ Coming(n))
    BY <1>1 DEF DueInv
  <2>2. bus.sub.on
    BY SMTT(60), <1>1, <2>1 DEF StreamTypes
  <2>3. CASE conn.lossy \/ bus'.sub.dropped
    BY <1>2, <2>1, <2>3
  <2>4. CASE ~conn.lossy /\ bus'.sub.queue = Append(q, e)
    <3>1. CASE \E u \in Thread :
                   pub[u].pc = "numbered" /\ pub[u].seq = n /\ Matches(pub[u].key)
      <4>1. PICK u \in Thread :
                   pub[u].pc = "numbered" /\ pub[u].seq = n /\ Matches(pub[u].key)
        BY <3>1
      <4>2. CASE u # t
        <5>1. pub'[u] = pub[u]
          BY <1>2, <4>2
        <5>2. Coming(n)'
          BY <4>1, <5>1 DEF Coming, Matches, Thread
        <5> QED  BY <1>2, <2>1, <5>2
      <4>3. CASE u = t
        <5>1. e.seq = n /\ Matches(e.key)
          BY <1>2, <4>1, <4>3
        <5>2. Len(q) + 1 \in 1 .. Len(bus'.sub.queue) /\ bus'.sub.queue[Len(q) + 1] = e
          BY SMTT(60), <1>2, <1>5, <2>4
        <5>3. Coming(n)'
          BY <5>1, <5>2 DEF Coming, Matches
        <5> QED  BY <1>2, <2>1, <5>3
      <4> QED  BY <4>2, <4>3
    <3>2. CASE \E i \in 1 .. Len(q) : q[i].seq = n /\ Matches(q[i].key)
      <4>1. PICK i \in 1 .. Len(q) : q[i].seq = n /\ Matches(q[i].key)
        BY <3>2
      <4>2. i \in 1 .. Len(bus'.sub.queue) /\ bus'.sub.queue[i] = q[i]
        BY SMTT(60), <1>2, <1>5, <2>4
      <4>3. Coming(n)'
        BY <4>1, <4>2 DEF Coming, Matches
      <4> QED  BY <1>2, <2>1, <4>3
    <3> QED  BY <2>1, <2>4, <3>1, <3>2 DEF Coming
  <2> QED  BY <1>3, <2>2, <2>3, <2>4
<1>7. ASSUME ~faults'.restored, NEW k \in StateKey PROVE KeyInv(k)'
  <2>1. KeyInv(k) /\ state' = state
    BY <1>2, <1>7 DEF StreamInv
  <2>2. \A u \in Thread : pub'[u].pc # "idle" /\ pub'[u].key = k => pub'[u].val = state'[k]
    BY SMTT(60), <1>2, <2>1 DEF KeyInv
  <2>3. CASE ~bus.sub.on
    <3>1. bus'.sub.queue = <<>>
      BY <1>1, <1>3, <2>3 DEF StreamTypes
    <3>2. ~Snapped(k)'
      BY SMTT(60), <1>1, <1>2, <2>3 DEF StreamTypes, Snapped, Leader
    <3>3. \A u \in Thread : pub'[u] = pub[u] \/ pub'[u].pc = "idle"
      BY <1>2
    <3> QED  BY <2>1, <3>1, <3>2, <3>3, KeyFresh
  <2>4. CASE conn'.lossy
    BY <2>2, <2>4 DEF KeyInv
  <2>5. CASE ~conn'.lossy /\ bus'.sub.queue = Append(q, e)
    <3>1. /\ Len(bus'.sub.queue) = Len(q) + 1 /\ bus'.sub.queue[Len(q) + 1] = e
          /\ \A i \in 1 .. Len(q) : bus'.sub.queue[i] = q[i]
          /\ Len(q) \in Nat
      BY <1>2, <1>5, <2>5
    <3>2. CASE e.key = k
      <4>1. e.val = state'[k]
        <5>1. pub[t].pc # "idle" /\ pub[t].key = k
          BY <1>2, <3>2
        <5>2. pub[t].val = state[k]
          BY <2>1, <5>1 DEF KeyInv
        <5> QED  BY <1>2, <2>1, <5>2
      <4>2. Tells(bus.sub.queue, k, state[k])'
        BY <1>2, <1>5, <2>5, <3>2, <4>1, AppendTells
      <4>3. ~NoneAbout(bus.sub.queue, k)'
        BY <3>1, <3>2 DEF NoneAbout
      <4> QED  BY <2>2, <4>2, <4>3 DEF KeyInv
    <3>3. CASE e.key # k
      <4>1. Pending(k)' <=> Pending(k)
        BY SMTT(60), <1>2, <3>3 DEF Pending, Thread
      <4>2. Tells(q, k, state[k]) => Tells(bus.sub.queue, k, state[k])'
        BY <1>2, <1>5, <2>1, <2>5, <3>3, AppendTells
      <4>3. NoneAbout(bus.sub.queue, k)' => NoneAbout(q, k)
        <5>1. \A i \in 1 .. Len(q) : i \in 1 .. Len(bus'.sub.queue) /\ bus'.sub.queue[i] = q[i]
          BY <3>1
        <5> QED  BY <5>1 DEF NoneAbout
      <4>4. Snapped(k)' <=> Snapped(k)
        BY <1>2 DEF Snapped, Leader
      <4>5. ~conn.lossy
        BY <1>2, <2>5
      <4>6. ~Pending(k)' => Tells(bus.sub.queue, k, state[k])'
        BY <2>1, <4>1, <4>2, <4>5 DEF KeyInv
      <4>7. ~Pending(k)' /\ Snapped(k)' /\ Matches(k) /\ NoneAbout(bus.sub.queue, k)'
              => client'.view[k] = state'[k]
        BY <1>2, <2>1, <4>1, <4>3, <4>4, <4>5 DEF KeyInv
      <4> QED  BY ZenonT(30), <2>2, <4>6, <4>7 DEF KeyInv, Matches, Thread
    <3> QED  BY <3>2, <3>3
  <2> QED  BY <1>2, <1>3, <2>3, <2>4, <2>5
<1> QED  BY <1>1, <1>4, <1>6, <1>7 DEF StreamInv

(* The handler's steps in the order of watch.go.                           *)
LEMMA HandlerOrder ==
    ASSUME NEW step, Opening(step)
    PROVE  /\ step = "subscribe" => conn.pc = 1
           /\ step = "lastseq" => conn.pc = 2
           /\ step = "members" => conn.pc = 3
           /\ step = "leader" => conn.pc = 4
           /\ step = "sync" => conn.pc = 5
           /\ step = "gap" => conn.pc = 6
<1>1. conn.pc \in 1 .. 6 /\ Order[conn.pc] = step
  BY DEF Opening, Order
<1>2. Order[1] = "subscribe" /\ Order[2] = "lastseq" /\ Order[3] = "members"
      /\ Order[4] = "leader" /\ Order[5] = "sync" /\ Order[6] = "gap"
  BY DEF Order
<1>3. conn.pc = 1 \/ conn.pc = 2 \/ conn.pc = 3 \/ conn.pc = 4 \/ conn.pc = 5 \/ conn.pc = 6
  BY <1>1
<1> QED  BY <1>1, <1>2, <1>3

(* A step of the handler that leaves the bus and the engine alone and goes *)
(* on to the next: what it shows of the snapshot is the current state.     *)
LEMMA AdvanceStep ==
    ASSUME StreamInv, UNCHANGED <<state, bus, pub, faults>>,
           conn' = [pc |-> conn'.pc, from |-> conn'.from, cursor |-> conn'.cursor,
                    lastLive |-> conn'.lastLive, due |-> conn'.due, lossy |-> conn'.lossy],
           conn.pc > 1, conn.pc < 7, conn'.pc = conn.pc + 1,
           conn'.due = conn.due, conn'.lossy = conn.lossy,
           client' = [last |-> client'.last, view |-> client'.view, missed |-> client'.missed,
                      told |-> client'.told, ordered |-> client'.ordered],
           client'.view = [k \in StateKey |-> client'.view[k]],
           \A k \in StateKey : Snapped(k)' /\ Matches(k)
               => client'.view[k] = state[k] \/ (Snapped(k) /\ client'.view[k] = client.view[k])
    PROVE  StreamInv'
<1>1. StreamTypes /\ DueInv
  BY DEF StreamInv
<1>2. conn'.pc \in 0 .. 7 /\ (bus'.sub.on <=> conn'.pc > 1)
  BY SMTT(60), <1>1 DEF StreamTypes
<1>3. bus'.sub.dropped => conn'.lossy
  BY <1>1 DEF StreamTypes
<1>4. StreamTypes'
  BY <1>1, <1>2, <1>3 DEF StreamTypes
<1>5. DueInv'
  <2> SUFFICES ASSUME NEW n \in conn.due PROVE conn'.pc > 2 /\ (conn'.lossy \/ Coming(n)')
    BY DEF DueInv
  <2>1. conn.pc > 2 /\ (conn.lossy \/ Coming(n))
    BY <1>1 DEF DueInv
  <2>2. Coming(n) => Coming(n)'
    BY DEF Coming
  <2>3. conn'.pc > 2
    BY SMTT(60), <2>1, <1>1 DEF StreamTypes
  <2> QED  BY <2>1, <2>2, <2>3
<1>6. ASSUME ~faults'.restored, NEW k \in StateKey PROVE KeyInv(k)'
  <2>1. KeyInv(k)
    BY <1>6 DEF StreamInv
  <2> QED  BY <2>1, KeyKept
<1> QED  BY <1>1, <1>4, <1>5, <1>6 DEF StreamInv

LEMMA LastSeqStep ==
    ASSUME StreamInv, LastSeq
    PROVE  StreamInv'
<1>1. conn.pc = 2
  BY HandlerOrder DEF LastSeq
<1>2. conn' = [conn EXCEPT !.pc = @ + 1, !.from = bus.seq] /\ UNCHANGED <<state, bus, pub, client, faults>>
  BY DEF LastSeq
<1>3. StreamTypes
  BY DEF StreamInv
<1>4. /\ conn' = [pc |-> conn'.pc, from |-> conn'.from, cursor |-> conn'.cursor,
                  lastLive |-> conn'.lastLive, due |-> conn'.due, lossy |-> conn'.lossy]
      /\ conn'.pc = 3 /\ conn'.due = conn.due /\ conn'.lossy = conn.lossy
  <2>1. conn = [pc |-> conn.pc, from |-> conn.from, cursor |-> conn.cursor,
                lastLive |-> conn.lastLive, due |-> conn.due, lossy |-> conn.lossy]
    BY <1>3 DEF StreamTypes
  <2>2. conn' = [pc |-> conn.pc + 1, from |-> bus.seq, cursor |-> conn.cursor,
                 lastLive |-> conn.lastLive, due |-> conn.due, lossy |-> conn.lossy]
    BY ZenonT(30), <1>2, <2>1
  <2> QED  BY <1>1, <2>2
<1>5. /\ client' = [last |-> client'.last, view |-> client'.view, missed |-> client'.missed,
                    told |-> client'.told, ordered |-> client'.ordered]
      /\ client'.view = [k \in StateKey |-> client'.view[k]]
  BY <1>2, <1>3 DEF StreamTypes
<1>6. \A k \in StateKey : ~Snapped(k)'
  BY <1>4 DEF Snapped, Leader
<1> QED  BY SMTT(60), <1>1, <1>2, <1>4, <1>5, <1>6, AdvanceStep

(* The member list and the leader reach the client as they are now.        *)
LEMMA SendStateStep ==
    ASSUME StreamInv, SendMembers \/ SendLeader
    PROVE  StreamInv'
<1> DEFINE keys == IF conn.pc = 3 THEN Member ELSE {Leader}
<1>1. /\ conn.pc \in {3, 4} /\ conn' = [conn EXCEPT !.pc = @ + 1]
      /\ client' = [client EXCEPT !.view = Shown(keys)]
      /\ UNCHANGED <<state, bus, pub, faults>>
  <2>1. CASE SendMembers
    <3>1. conn.pc = 3
      BY <2>1, HandlerOrder DEF SendMembers
    <3> QED  BY <2>1, <3>1 DEF SendMembers
  <2>2. CASE SendLeader
    <3>1. conn.pc = 4
      BY <2>2, HandlerOrder DEF SendLeader
    <3> QED  BY SMTT(60), <2>2, <3>1 DEF SendLeader
  <2> QED  BY <2>1, <2>2
<1>2. StreamTypes
  BY DEF StreamInv
<1> HIDE DEF keys
<1>3. /\ conn' = [pc |-> conn'.pc, from |-> conn'.from, cursor |-> conn'.cursor,
                  lastLive |-> conn'.lastLive, due |-> conn'.due, lossy |-> conn'.lossy]
      /\ conn'.pc = conn.pc + 1 /\ conn'.due = conn.due /\ conn'.lossy = conn.lossy
  BY <1>1, <1>2 DEF StreamTypes
<1>4. /\ client' = [last |-> client'.last, view |-> client'.view, missed |-> client'.missed,
                    told |-> client'.told, ordered |-> client'.ordered]
      /\ client'.view = Shown(keys)
  BY <1>1, <1>2 DEF StreamTypes
<1>5. DOMAIN client.view = StateKey
  BY <1>2 DEF StreamTypes
<1>6. client'.view = [k \in StateKey |->
                        IF k \in keys /\ Matches(k) THEN state[k] ELSE client.view[k]]
  BY <1>4, <1>5 DEF Shown
<1>7. client'.view = [k \in StateKey |-> client'.view[k]]
  BY <1>6
<1>8. ASSUME NEW k \in StateKey, Snapped(k)', Matches(k)
      PROVE  client'.view[k] = state[k] \/ (Snapped(k) /\ client'.view[k] = client.view[k])
  <2>1. k \in keys \/ Snapped(k)
    BY SMTT(60), <1>1, <1>2, <1>3, <1>8, KindAssumption DEF keys, Snapped, StateKey
  <2> QED  BY <1>6, <1>8, <2>1
<1> QED  BY SMTT(60), <1>1, <1>3, <1>4, <1>7, <1>8, AdvanceStep

(* watch.sync and the opening watch.gap show nothing of the state.         *)
LEMMA SendMarkStep ==
    ASSUME StreamInv, SendSync \/ SendGap
    PROVE  StreamInv'
<1>1. StreamTypes
  BY DEF StreamInv
<1>2. client = [last |-> client.last, view |-> client.view, missed |-> client.missed,
                told |-> client.told, ordered |-> client.ordered]
  BY <1>1 DEF StreamTypes
<1>3. /\ conn.pc \in {5, 6} /\ conn' = [conn EXCEPT !.pc = @ + 1]
      /\ UNCHANGED <<state, bus, pub, faults>>
      /\ client' = [last |-> client'.last, view |-> client'.view, missed |-> client'.missed,
                    told |-> client'.told, ordered |-> client'.ordered]
      /\ client'.view = client.view
  <2>1. CASE SendSync
    <3>1. conn.pc = 5
      BY <2>1, HandlerOrder DEF SendSync
    <3>2. PICK x : client' = [client EXCEPT !.last = x]
      BY ZenonT(30), <2>1 DEF SendSync
    <3>3. client' = [last |-> x, view |-> client.view, missed |-> client.missed,
                     told |-> client.told, ordered |-> client.ordered]
      BY <1>2, <3>2
    <3>4. conn' = [conn EXCEPT !.pc = @ + 1] /\ UNCHANGED <<state, bus, pub, faults>>
      BY <2>1 DEF SendSync
    <3> QED  BY <3>1, <3>3, <3>4
  <2>2. CASE SendGap
    <3>1. conn.pc = 6
      BY <2>2, HandlerOrder DEF SendGap
    <3>2. PICK x : client' = [client EXCEPT !.told = x]
      BY ZenonT(30), <2>2 DEF SendGap
    <3>3. client' = [last |-> client.last, view |-> client.view, missed |-> client.missed,
                     told |-> x, ordered |-> client.ordered]
      BY <1>2, <3>2
    <3>4. conn' = [conn EXCEPT !.pc = @ + 1] /\ UNCHANGED <<state, bus, pub, faults>>
      BY <2>2 DEF SendGap
    <3> QED  BY <3>1, <3>3, <3>4
  <2> QED  BY <2>1, <2>2
<1>4. /\ conn' = [pc |-> conn'.pc, from |-> conn'.from, cursor |-> conn'.cursor,
                  lastLive |-> conn'.lastLive, due |-> conn'.due, lossy |-> conn'.lossy]
      /\ conn'.pc = conn.pc + 1 /\ conn'.due = conn.due /\ conn'.lossy = conn.lossy
  BY <1>1, <1>3 DEF StreamTypes
<1>5. client'.view = [k \in StateKey |-> client'.view[k]]
  BY <1>1, <1>3 DEF StreamTypes
<1>6. \A k \in StateKey : Snapped(k)
  BY <1>3 DEF Snapped
<1> QED  BY SMTT(60), <1>3, <1>4, <1>5, <1>6, AdvanceStep

(* No snapshot has been sent and nothing is queued: a stream that opens,   *)
(* subscribes or ends, and a restart.                                      *)
LEMMA FreshStep ==
    ASSUME StreamInv, state' = state,
           faults' = [count |-> faults'.count, before |-> faults'.before, restored |-> faults.restored],
           faults'.restored = faults.restored,
           bus' = [seq |-> bus'.seq, sub |-> bus'.sub], bus'.seq \in Nat,
           bus'.sub = [on |-> bus'.sub.on, queue |-> <<>>, dropped |-> bus'.sub.dropped],
           bus'.sub.on <=> conn'.pc > 1, bus'.sub.queue = <<>>, ~bus'.sub.dropped,
           conn' = [pc |-> conn'.pc, from |-> conn'.from, cursor |-> conn'.cursor,
                    lastLive |-> conn'.lastLive, due |-> {}, lossy |-> conn'.lossy],
           conn'.pc \in 0 .. 2, conn'.due = {},
           pub' \in [Thread -> Report],
           \A t \in Thread : pub'[t] = pub[t] \/ pub'[t].pc = "idle",
           client' = [last |-> client'.last, view |-> client'.view, missed |-> client'.missed,
                      told |-> client'.told, ordered |-> client'.ordered],
           client'.view = [k \in StateKey |-> client'.view[k]]
    PROVE  StreamInv'
<1>1. StreamTypes
  BY DEF StreamInv
<1>2. \A t \in Thread : pub'[t].pc # "idle" =>
           \/ t = "fsm" /\ pub'[t].key \in Member
           \/ t = "raft" /\ pub'[t].key = Leader
           \/ t \in Publisher /\ pub'[t].key \in Topic
  BY <1>1 DEF StreamTypes
<1>3. bus'.sub.queue \in Seq(Event) /\ conn'.pc \in 0 .. 7
  BY SMTT(60)
<1>4. state' \in [StateKey -> Value]
  BY <1>1 DEF StreamTypes
<1>5. StreamTypes'
  BY <1>2, <1>3, <1>4 DEF StreamTypes
<1>6. DueInv'
  BY DEF DueInv
<1>7. ASSUME ~faults'.restored, NEW k \in StateKey PROVE KeyInv(k)'
  <2>1. KeyInv(k)
    BY <1>7 DEF StreamInv
  <2>2. ~Snapped(k)'
    BY SMTT(60) DEF Snapped, Leader
  <2> QED  BY <2>1, <2>2, KeyFresh
<1> QED  BY <1>1, <1>5, <1>6, <1>7 DEF StreamInv

LEMMA ConnectStep ==
    ASSUME StreamInv, Connect
    PROVE  StreamInv'
<1>1. StreamTypes
  BY DEF StreamInv
<1>2. /\ conn.pc = 0 /\ conn' = [NoConn EXCEPT !.pc = 1, !.cursor = client.last]
      /\ client' = [client EXCEPT !.view = EmptyView] /\ UNCHANGED <<state, bus, pub, faults>>
  BY DEF Connect
<1>3. conn' = [pc |-> 1, from |-> 0, cursor |-> client.last, lastLive |-> 0,
               due |-> {}, lossy |-> FALSE]
  BY ZenonT(30), <1>2 DEF NoConn
<1>4. /\ client' = [last |-> client'.last, view |-> client'.view, missed |-> client'.missed,
                    told |-> client'.told, ordered |-> client'.ordered]
      /\ client'.view = EmptyView
  BY <1>1, <1>2 DEF StreamTypes
<1>5. client'.view = [k \in StateKey |-> client'.view[k]]
  BY <1>4 DEF EmptyView, StateKey
<1>6. /\ ~bus.sub.on /\ bus.sub.queue = <<>> /\ ~bus.sub.dropped
      /\ bus = [seq |-> bus.seq, sub |-> bus.sub] /\ bus.seq \in Nat
      /\ bus.sub = [on |-> bus.sub.on, queue |-> bus.sub.queue, dropped |-> bus.sub.dropped]
      /\ faults = [count |-> faults.count, before |-> faults.before, restored |-> faults.restored]
      /\ pub \in [Thread -> Report]
  BY SMTT(60), <1>1, <1>2 DEF StreamTypes
<1>7. conn'.pc = 1 /\ conn'.due = {}
     /\ conn' = [pc |-> conn'.pc, from |-> conn'.from, cursor |-> conn'.cursor,
                 lastLive |-> conn'.lastLive, due |-> {}, lossy |-> conn'.lossy]
  BY <1>3
<1> QED  BY SMTT(60), <1>2, <1>4, <1>5, <1>6, <1>7, FreshStep

LEMMA SubscribeStep ==
    ASSUME StreamInv, Subscribe
    PROVE  StreamInv'
<1>1. StreamTypes /\ DueInv
  BY DEF StreamInv
<1>2. conn.pc = 1
  BY HandlerOrder DEF Subscribe
<1>3. /\ bus' = [bus EXCEPT !.sub = [NoSub EXCEPT !.on = TRUE]]
      /\ conn' = [conn EXCEPT !.pc = @ + 1] /\ UNCHANGED <<state, pub, client, faults>>
  BY DEF Subscribe
<1>4. bus' = [seq |-> bus'.seq, sub |-> bus'.sub] /\ bus'.seq \in Nat
      /\ bus'.sub = [NoSub EXCEPT !.on = TRUE]
  BY ZenonT(30), <1>1, <1>3 DEF StreamTypes
<1>5. bus'.sub.on /\ bus'.sub.queue = <<>> /\ ~bus'.sub.dropped
  BY <1>4 DEF NoSub
<1>6. bus'.sub = [on |-> bus'.sub.on, queue |-> <<>>, dropped |-> bus'.sub.dropped]
  BY ZenonT(30), <1>4 DEF NoSub
<1>7. conn.due = {}
  BY <1>1, <1>2 DEF DueInv
<1>8. /\ conn' = [pc |-> conn'.pc, from |-> conn'.from, cursor |-> conn'.cursor,
                  lastLive |-> conn'.lastLive, due |-> {}, lossy |-> conn'.lossy]
      /\ conn'.pc = 2 /\ conn'.due = {}
  <2>1. conn' = [pc |-> conn.pc + 1, from |-> conn.from, cursor |-> conn.cursor,
                 lastLive |-> conn.lastLive, due |-> conn.due, lossy |-> conn.lossy]
    BY <1>1, <1>3 DEF StreamTypes
  <2> QED  BY <1>2, <1>7, <2>1
<1>9. /\ faults = [count |-> faults.count, before |-> faults.before, restored |-> faults.restored]
      /\ pub \in [Thread -> Report]
      /\ client = [last |-> client.last, view |-> client.view, missed |-> client.missed,
                   told |-> client.told, ordered |-> client.ordered]
      /\ client.view = [k \in StateKey |-> client.view[k]]
  BY <1>1 DEF StreamTypes
<1> QED  BY SMTT(60), <1>3, <1>4, <1>5, <1>6, <1>8, <1>9, FreshStep

LEMMA EndStep ==
    ASSUME StreamInv, Break \/ Restart
    PROVE  StreamInv'
<1>1. StreamTypes
  BY DEF StreamInv
<1>2. /\ faults = [count |-> faults.count, before |-> faults.before, restored |-> faults.restored]
      /\ pub \in [Thread -> Report] /\ bus = [seq |-> bus.seq, sub |-> bus.sub]
      /\ bus.seq \in Nat
      /\ client = [last |-> client.last, view |-> client.view, missed |-> client.missed,
                   told |-> client.told, ordered |-> client.ordered]
      /\ client.view = [k \in StateKey |-> client.view[k]]
  BY <1>1 DEF StreamTypes
<1>3. conn' = NoConn /\ state' = state /\ client' = client
  BY DEF Break, Restart
<1>4. /\ conn' = [pc |-> conn'.pc, from |-> conn'.from, cursor |-> conn'.cursor,
                  lastLive |-> conn'.lastLive, due |-> {}, lossy |-> conn'.lossy]
      /\ conn'.pc = 0 /\ conn'.due = {}
  BY <1>3 DEF NoConn
<1>5. bus' = [seq |-> bus'.seq, sub |-> NoSub] /\ bus'.seq \in Nat /\ bus'.sub = NoSub
  <2>1. CASE Break
    BY <1>2, <2>1 DEF Break
  <2>2. CASE Restart
    BY <2>2 DEF Restart
  <2> QED  BY <2>1, <2>2
<1>6. /\ bus' = [seq |-> bus'.seq, sub |-> bus'.sub]
      /\ bus'.sub = [on |-> bus'.sub.on, queue |-> <<>>, dropped |-> bus'.sub.dropped]
      /\ ~bus'.sub.on /\ bus'.sub.queue = <<>> /\ ~bus'.sub.dropped
  BY <1>5 DEF NoSub
<1>7. /\ faults' = [count |-> faults'.count, before |-> faults'.before, restored |-> faults.restored]
      /\ faults'.restored = faults.restored
  <2>1. CASE Break
    BY <1>2, <2>1 DEF Break
  <2>2. CASE Restart
    <3>1. faults' = [faults EXCEPT !.count = @ + 1, !.before = @ + bus.seq]
      BY <2>2 DEF Restart
    <3>2. faults' = [count |-> faults.count + 1, before |-> faults.before + bus.seq,
                     restored |-> faults.restored]
      BY ZenonT(30), <1>2, <3>1
    <3> QED  BY <3>2
  <2> QED  BY <2>1, <2>2
<1>8. /\ pub' \in [Thread -> Report]
      /\ \A t \in Thread : pub'[t] = pub[t] \/ pub'[t].pc = "idle"
  <2>1. Idle \in Report /\ Idle.pc = "idle"
    BY DEF Idle, Report, Key, Value
  <2>2. CASE Break
    BY <1>2, <2>2 DEF Break
  <2>3. CASE Restart
    BY <2>1, <2>3 DEF Restart
  <2> QED  BY <2>2, <2>3
<1> QED  BY SMTT(60), <1>2, <1>3, <1>4, <1>5, <1>6, <1>7, <1>8, FreshStep

(* The head of the channel leaves it; the client applies it if it matches. *)
LEMMA RecvEffect ==
    ASSUME StreamInv, Recv, NEW e, e = Head(bus.sub.queue)
    PROVE  /\ conn.pc > 6 /\ bus.sub.queue # <<>> /\ UNCHANGED <<state, pub, faults>>
           /\ bus' = [seq |-> bus.seq, sub |-> bus'.sub] /\ bus'.seq = bus.seq
           /\ bus'.sub = [on |-> bus.sub.on, queue |-> Tail(bus.sub.queue), dropped |-> bus'.sub.dropped]
           /\ bus'.sub.dropped => bus.sub.dropped
           /\ conn' = [pc |-> conn.pc, from |-> conn'.from, cursor |-> conn'.cursor,
                       lastLive |-> conn'.lastLive, due |-> conn'.due, lossy |-> conn.lossy]
           /\ conn'.due = IF Matches(e.key) THEN conn.due \ {e.seq} ELSE conn.due
           /\ client' = [last |-> client'.last, view |-> client'.view, missed |-> client'.missed,
                         told |-> client'.told, ordered |-> client'.ordered]
           /\ client'.view = [k \in StateKey |->
                IF k = e.key /\ Matches(k) THEN e.val ELSE client.view[k]]
<1> DEFINE sub == bus.sub
<1>1. StreamTypes
  BY DEF StreamInv
<1>2. /\ bus = [seq |-> bus.seq, sub |-> sub]
      /\ sub = [on |-> sub.on, queue |-> sub.queue, dropped |-> sub.dropped]
      /\ conn = [pc |-> conn.pc, from |-> conn.from, cursor |-> conn.cursor,
                 lastLive |-> conn.lastLive, due |-> conn.due, lossy |-> conn.lossy]
      /\ client = [last |-> client.last, view |-> client.view, missed |-> client.missed,
                   told |-> client.told, ordered |-> client.ordered]
      /\ client.view = [k \in StateKey |-> client.view[k]]
  BY <1>1 DEF StreamTypes
<1>3. conn.pc > 6 /\ sub.queue # <<>> /\ UNCHANGED <<state, pub, faults>>
  BY DEF Recv, Live, Order
<1>4. CASE Matches(e.key)
  <2> DEFINE from == IF conn.lastLive > 0 THEN conn.lastLive + 1 ELSE 1
             l == Max({client.last, e.seq})
             mi == client.missed \ {<<faults.before, e.seq>>}
             to == client.told \/ (sub.dropped /\ from <= e.seq - 1)
             o == client.ordered /\ e.seq > conn.lastLive
  <2>1. bus' = [bus EXCEPT !.sub.queue = Tail(sub.queue), !.sub.dropped = FALSE]
    BY <1>4 DEF Recv
  <2>2. bus' = [seq |-> bus.seq,
                sub |-> [on |-> sub.on, queue |-> Tail(sub.queue), dropped |-> FALSE]]
    BY ZenonT(30), <1>2, <2>1
  <2>3. conn' = [conn EXCEPT !.lastLive = e.seq, !.due = @ \ {e.seq}]
    BY <1>4 DEF Recv
  <2>4. conn' = [pc |-> conn.pc, from |-> conn.from, cursor |-> conn.cursor,
                 lastLive |-> e.seq, due |-> conn.due \ {e.seq}, lossy |-> conn.lossy]
    BY ZenonT(30), <1>2, <2>3
  <2>5. client' = [client EXCEPT !.last = l,
                     !.view = [k \in DOMAIN @ |-> IF k = e.key THEN e.val ELSE @[k]],
                     !.missed = mi, !.told = to, !.ordered = o]
    BY SMTT(60), <1>4 DEF Recv
  <2> HIDE DEF l, mi, to, o
  <2>6. client' = [last |-> l,
                   view |-> [k \in DOMAIN client.view |-> IF k = e.key THEN e.val ELSE client.view[k]],
                   missed |-> mi, told |-> to, ordered |-> o]
    BY ZenonT(30), <1>2, <2>5
  <2>7. DOMAIN client.view = StateKey
    BY <1>2
  <2>8. client'.view = [k \in StateKey |-> IF k = e.key THEN e.val ELSE client.view[k]]
    BY <2>6, <2>7
  <2>9. client'.view = [k \in StateKey |->
                IF k = e.key /\ Matches(k) THEN e.val ELSE client.view[k]]
    BY <1>4, <2>8
  <2> QED  BY <1>3, <1>4, <2>2, <2>4, <2>6, <2>9
<1>5. CASE ~Matches(e.key)
  <2>1. bus' = [bus EXCEPT !.sub.queue = Tail(sub.queue)] /\ UNCHANGED <<conn, client>>
    BY <1>5 DEF Recv
  <2>2. bus' = [seq |-> bus.seq,
                sub |-> [on |-> sub.on, queue |-> Tail(sub.queue), dropped |-> sub.dropped]]
    BY ZenonT(30), <1>2, <2>1
  <2>3. client'.view = [k \in StateKey |->
                IF k = e.key /\ Matches(k) THEN e.val ELSE client.view[k]]
    BY <1>2, <1>5, <2>1
  <2>4. /\ bus' = [seq |-> bus.seq, sub |-> bus'.sub] /\ bus'.seq = bus.seq
        /\ bus'.sub = [on |-> sub.on, queue |-> Tail(sub.queue), dropped |-> bus'.sub.dropped]
        /\ bus'.sub.dropped => sub.dropped
    BY ZenonT(30), <2>2
  <2>5. /\ conn' = [pc |-> conn.pc, from |-> conn'.from, cursor |-> conn'.cursor,
                    lastLive |-> conn'.lastLive, due |-> conn'.due, lossy |-> conn.lossy]
        /\ conn'.due = conn.due
    BY <1>2, <2>1
  <2>6. client' = [last |-> client'.last, view |-> client'.view, missed |-> client'.missed,
                   told |-> client'.told, ordered |-> client'.ordered]
    BY <1>2, <2>1
  <2> QED  BY <1>3, <1>5, <2>3, <2>4, <2>5, <2>6
<1> QED  BY <1>4, <1>5

LEMMA RecvStep ==
    ASSUME StreamInv, Recv
    PROVE  StreamInv'
<1> DEFINE q == bus.sub.queue
           e == Head(q)
<1>1. StreamTypes /\ DueInv
  BY DEF StreamInv
<1>2. /\ conn.pc > 6 /\ q # <<>> /\ UNCHANGED <<state, pub, faults>>
      /\ bus' = [seq |-> bus.seq, sub |-> bus'.sub] /\ bus'.seq = bus.seq
      /\ bus'.sub = [on |-> bus.sub.on, queue |-> Tail(q), dropped |-> bus'.sub.dropped]
      /\ bus'.sub.dropped => bus.sub.dropped
      /\ conn' = [pc |-> conn.pc, from |-> conn'.from, cursor |-> conn'.cursor,
                  lastLive |-> conn'.lastLive, due |-> conn'.due, lossy |-> conn.lossy]
      /\ conn'.due = IF Matches(e.key) THEN conn.due \ {e.seq} ELSE conn.due
      /\ client' = [last |-> client'.last, view |-> client'.view, missed |-> client'.missed,
                    told |-> client'.told, ordered |-> client'.ordered]
      /\ client'.view = [k \in StateKey |->
           IF k = e.key /\ Matches(k) THEN e.val ELSE client.view[k]]
  BY ZenonT(30), RecvEffect
<1>3. conn'.pc = conn.pc /\ conn'.lossy = conn.lossy
  BY SMTT(60), <1>2
<1>4. (bus'.sub.on <=> bus.sub.on) /\ bus'.sub.queue = Tail(q)
  <2>1. PICK d : bus'.sub = [on |-> bus.sub.on, queue |-> Tail(q), dropped |-> d]
    BY <1>2
  <2> QED  BY <2>1
<1>5. q \in Seq(Event) /\ Tail(q) \in Seq(Event)
  BY SMTT(60), <1>1, <1>2 DEF StreamTypes
<1>6. StreamTypes'
  <2>1. bus'.seq \in Nat /\ bus' = [seq |-> bus'.seq, sub |-> bus'.sub]
    BY <1>1, <1>2 DEF StreamTypes
  <2>2. bus'.sub = [on |-> bus'.sub.on, queue |-> bus'.sub.queue, dropped |-> bus'.sub.dropped]
    BY <1>2
  <2>3. conn'.pc \in 0 .. 7 /\ (bus'.sub.on <=> conn'.pc > 1) /\ bus'.sub.on
    BY <1>1, <1>2, <1>3, <1>4 DEF StreamTypes
  <2>4. bus'.sub.dropped => conn'.lossy
    BY <1>1, <1>2, <1>3 DEF StreamTypes
  <2>5. client'.view = [k \in StateKey |-> client'.view[k]]
    BY <1>2
  <2>6. conn' = [pc |-> conn'.pc, from |-> conn'.from, cursor |-> conn'.cursor,
                 lastLive |-> conn'.lastLive, due |-> conn'.due, lossy |-> conn'.lossy]
    BY <1>2, <1>3
  <2>7. /\ state' \in [StateKey -> Value] /\ pub' \in [Thread -> Report]
        /\ faults' = [count |-> faults'.count, before |-> faults'.before, restored |-> faults'.restored]
    BY <1>1, <1>2 DEF StreamTypes
  <2>8. \A t \in Thread : pub'[t].pc # "idle" =>
           \/ t = "fsm" /\ pub'[t].key \in Member
           \/ t = "raft" /\ pub'[t].key = Leader
           \/ t \in Publisher /\ pub'[t].key \in Topic
    BY <1>1, <1>2 DEF StreamTypes
  <2> QED  BY <1>2, <1>4, <1>5, <2>1, <2>2, <2>3, <2>4, <2>5, <2>6, <2>7, <2>8 DEF StreamTypes
<1>7. DueInv'
  <2> SUFFICES ASSUME NEW n \in conn'.due PROVE conn'.pc > 2 /\ (conn'.lossy \/ Coming(n)')
    BY DEF DueInv
  <2>1. n \in conn.due /\ (Matches(e.key) => n # e.seq)
    BY <1>2
  <2>2. conn.pc > 2 /\ (conn.lossy \/ Coming(n))
    BY <1>1, <2>1 DEF DueInv
  <2>3. CASE \E t \in Thread :
                 pub[t].pc = "numbered" /\ pub[t].seq = n /\ Matches(pub[t].key)
    <3>1. Coming(n)'
      BY <1>2, <2>3 DEF Coming, Matches, Thread
    <3> QED  BY <1>3, <2>2, <3>1
  <2>4. CASE \E i \in 1 .. Len(q) : q[i].seq = n /\ Matches(q[i].key)
    <3>1. PICK i \in 1 .. Len(q) : q[i].seq = n /\ Matches(q[i].key)
      BY <2>4
    <3>2. q[1] = e
      BY SMTT(60), <1>2, <1>5
    <3>3. i # 1
      BY <2>1, <3>1, <3>2
    <3>4. i - 1 \in 1 .. Len(Tail(q)) /\ Tail(q)[i - 1] = q[i]
      BY SMTT(60), <1>2, <1>5, <3>3
    <3>5. Coming(n)'
      BY ZenonT(30), <1>4, <3>1, <3>4 DEF Coming, Matches
    <3> QED  BY <1>3, <2>2, <3>5
  <2> QED  BY <1>3, <2>2, <2>3, <2>4 DEF Coming
<1>8. ASSUME ~faults'.restored, NEW k \in StateKey PROVE KeyInv(k)'
  <2>1. KeyInv(k) /\ state' = state /\ pub' = pub
    BY <1>2, <1>8 DEF StreamInv
  <2>2. \A t \in Thread : pub'[t].pc # "idle" /\ pub'[t].key = k => pub'[t].val = state'[k]
    BY <2>1 DEF KeyInv
  <2>3. Pending(k)' <=> Pending(k)
    BY <2>1 DEF Pending
  <2>4. CASE Pending(k) \/ conn.lossy
    BY <1>3, <2>2, <2>3, <2>4 DEF KeyInv
  <2>5. CASE ~Pending(k) /\ ~conn.lossy
    <3>1. Tells(q, k, state[k])
      BY <2>1, <2>5 DEF KeyInv
    <3>2. /\ Tells(Tail(q), k, state[k])
          /\ NoneAbout(Tail(q), k) /\ e.key = k => e.val = state[k]
          /\ NoneAbout(Tail(q), k) /\ e.key # k => NoneAbout(q, k)
      BY <1>2, <1>5, <3>1, TailTells
    <3>3. Tells(bus.sub.queue, k, state[k])'
      BY <1>4, <2>1, <3>2
    <3>4. NoneAbout(bus.sub.queue, k)' => NoneAbout(Tail(q), k)
      BY ZenonT(30), <1>4 DEF NoneAbout
    <3>5. Snapped(k)
      BY SMTT(60), <1>1, <1>2 DEF Snapped, StreamTypes
    <3>6. ASSUME Matches(k), NoneAbout(Tail(q), k) PROVE client'.view[k] = state'[k]
      <4>1. CASE e.key = k
        BY <1>2, <2>1, <3>2, <3>6, <4>1
      <4>2. CASE e.key # k
        <5>1. client'.view[k] = client.view[k]
          BY <1>2, <4>2
        <5> QED  BY <2>1, <2>5, <3>2, <3>5, <3>6, <4>2, <5>1 DEF KeyInv
      <4> QED  BY <4>1, <4>2
    <3> QED  BY <2>2, <3>3, <3>4, <3>6 DEF KeyInv, Matches
  <2> QED  BY <2>4, <2>5
<1> QED  BY <1>1, <1>2, <1>6, <1>7, <1>8 DEF StreamInv

LEMMA StreamInvInit == Init => StreamInv
<1> SUFFICES ASSUME Init PROVE StreamInv
  OBVIOUS
<1>1. PICK n \in Member : state = [k \in StateKey |->
            IF k = Leader THEN n ELSE IF k = n THEN "alive" ELSE "absent"]
  BY DEF Init, StateKey
<1>2. state \in [StateKey -> Value]
  BY <1>1 DEF Value, Status
<1>3. Idle \in Report /\ Idle.pc = "idle"
  BY DEF Idle, Report, Key, Value
<1>4. pub \in [Thread -> Report] /\ \A t \in Thread : pub[t].pc = "idle"
  BY <1>3 DEF Init
<1>5. bus = [seq |-> 0, sub |-> NoSub]
  BY DEF Init
<1>6. /\ bus = [seq |-> bus.seq, sub |-> bus.sub] /\ bus.seq = 0
      /\ bus.sub = [on |-> bus.sub.on, queue |-> bus.sub.queue, dropped |-> bus.sub.dropped]
      /\ ~bus.sub.on /\ bus.sub.queue = <<>> /\ ~bus.sub.dropped
  BY <1>5 DEF NoSub
<1>7. /\ conn = [pc |-> conn.pc, from |-> conn.from, cursor |-> conn.cursor,
                 lastLive |-> conn.lastLive, due |-> conn.due, lossy |-> conn.lossy]
      /\ conn.pc = 0 /\ conn.due = {}
  BY DEF Init, NoConn
<1>8. /\ client = [last |-> client.last, view |-> client.view, missed |-> client.missed,
                   told |-> client.told, ordered |-> client.ordered]
      /\ client.view = EmptyView
  BY DEF Init
<1>9. client.view = [k \in StateKey |-> client.view[k]]
  BY <1>8 DEF EmptyView, StateKey
<1>10. faults = [count |-> faults.count, before |-> faults.before, restored |-> faults.restored]
  BY DEF Init
<1>11. StreamTypes
  BY SMTT(60), <1>2, <1>4, <1>6, <1>7, <1>8, <1>9, <1>10 DEF StreamTypes
<1>12. DueInv
  BY <1>7 DEF DueInv
<1>13. ASSUME NEW k \in StateKey PROVE KeyInv(k)
  <2>1. Tells(bus.sub.queue, k, state[k])
    BY <1>6 DEF Tells
  <2>2. ~Snapped(k)
    BY <1>7 DEF Snapped, Leader
  <2> QED  BY <1>4, <2>1, <2>2 DEF KeyInv
<1> QED  BY <1>11, <1>12, <1>13 DEF StreamInv

LEMMA StreamInvNext == StreamInv /\ [Next]_vars => StreamInv'
<1> SUFFICES ASSUME StreamInv, [Next]_vars PROVE StreamInv'
  OBVIOUS
<1>1. CASE UNCHANGED vars
  <2>1. UNCHANGED <<state, bus, pub, conn, client, faults>>
    BY <1>1 DEF vars
  <2>2. StreamTypes'
    BY <2>1 DEF StreamInv, StreamTypes
  <2>3. DueInv'
    BY <2>1 DEF StreamInv, DueInv, Coming
  <2>4. ASSUME ~faults'.restored, NEW k \in StateKey PROVE KeyInv(k)'
    <3>1. KeyInv(k)
      BY <2>1, <2>4 DEF StreamInv
    <3>2. Snapped(k)' <=> Snapped(k)
      BY <2>1 DEF Snapped
    <3> QED  BY <2>1, <3>1, <3>2, KeyKept
  <2> QED  BY <2>2, <2>3, <2>4 DEF StreamInv
<1>2. CASE \E m \in Member, v \in Status : ChangeMember(m, v) \/ RestoreMember(m, v)
  BY <1>2, ChangeMemberStep, RestoreMemberStep
<1>3. CASE \E n \in Member : SetLeader(n)
  BY <1>3, SetLeaderStep
<1>4. CASE \E p \in Publisher, topic \in Topic : Signal(p, topic)
  BY <1>4, SignalStep
<1>5. CASE \E t \in Thread : Number(t) \/ Fanout(t)
  BY <1>5, NumberStep, FanoutStep
<1>6. CASE Connect \/ Subscribe \/ LastSeq
  BY <1>6, ConnectStep, SubscribeStep, LastSeqStep
<1>7. CASE SendMembers \/ SendLeader \/ SendSync \/ SendGap
  BY <1>7, SendStateStep, SendMarkStep
<1>8. CASE Recv \/ Break \/ Restart
  BY <1>8, RecvStep, EndStep
<1> QED  BY <1>1, <1>2, <1>3, <1>4, <1>5, <1>6, <1>7, <1>8 DEF Next

(* On a quiet stream nothing is pending or queued, and every key has been  *)
(* shown.                                                                  *)
LEMMA QuietIsSettled ==
    ASSUME StreamInv, Quiet
    PROVE  /\ conn.pc > 6 /\ bus.sub.queue = <<>>
           /\ \A k \in StateKey : ~Pending(k) /\ Snapped(k) /\ NoneAbout(bus.sub.queue, k)
           /\ \A n : ~Coming(n)
<1>1. /\ conn.pc > 6 /\ conn.pc \in 0 .. 7 /\ bus.sub.queue = <<>>
      /\ \A t \in Thread : pub[t].pc = "idle"
  BY DEF Quiet, Live, Order, StreamInv, StreamTypes
<1>2. \A k \in StateKey : ~Pending(k) /\ Snapped(k) /\ NoneAbout(bus.sub.queue, k)
  BY <1>1 DEF Pending, Snapped, NoneAbout
<1>3. \A n : ~Coming(n)
  BY <1>1 DEF Coming
<1> QED  BY <1>1, <1>2, <1>3

(* Subscribing before the snapshot is read closes the race between the two *)
(* (watch.go:54-60): a client whose stream is quiet and lost nothing has   *)
(* the daemon's members and leader, for any members, topics, publishers,   *)
(* filter and channel depth, unless a Raft snapshot was restored meanwhile.*)
THEOREM ViewConvergesHolds == Spec => []ViewConverges
<1>1. StreamInv => ViewConverges
  <2> SUFFICES ASSUME StreamInv, ~faults.restored, Quiet, ~conn.lossy,
                      NEW k \in Filter \ Topic
               PROVE  client.view[k] = state[k]
    BY DEF ViewConverges, ViewIsCurrent
  <2>1. k \in StateKey /\ Matches(k)
    BY KindAssumption DEF Key, Matches, StateKey
  <2> QED  BY <2>1, QuietIsSettled DEF StreamInv, KeyInv
<1> QED  BY <1>1, StreamInvInit, StreamInvNext, PTL DEF Spec

(* Every matching event numbered after the high-water mark of watch.sync   *)
(* is received on that stream or a drop was recorded (bus.go:58-60).       *)
THEOREM StreamCompleteHolds == Spec => []StreamComplete
<1>1. StreamInv => StreamComplete
  <2> SUFFICES ASSUME StreamInv, Quiet, ~conn.lossy, NEW n \in conn.due PROVE FALSE
    BY DEF StreamComplete
  <2> QED  BY QuietIsSettled DEF StreamInv, DueInv
<1> QED  BY <1>1, StreamInvInit, StreamInvNext, PTL DEF Spec

--------------------------------------------------------------------------------
(* Presence.                                                               *)

(* An event in a watcher's queue tells of an expiry the log has.           *)
ExpiryInv ==
    /\ expired \in Seq(Node)
    /\ seen \in [Node -> Nat]
    /\ queue \in [Node -> Seq(Node)]
    /\ \A m \in Node : \A i \in 1 .. Len(queue[m]) : HasExpired(queue[m][i])

LEMMA InitExpiry == PresenceInit => ExpiryInv
  BY SMTT(60) DEF PresenceInit, ExpiryInv

LEMMA AppendExpiry ==
    ASSUME NEW s \in Seq(Node), NEW n \in Node
    PROVE  /\ Append(s, n) \in Seq(Node) /\ Len(Append(s, n)) = Len(s) + 1
           /\ \A i \in 1 .. Len(s) : i \in 1 .. Len(Append(s, n)) /\ Append(s, n)[i] = s[i]
           /\ Append(s, n)[Len(s) + 1] = n
           /\ \A i \in 1 .. Len(Append(s, n)) : i \in 1 .. Len(s) \/ i = Len(s) + 1
  BY SMTT(60)

LEMMA ExpireKeeps ==
    ASSUME ExpiryInv, NEW n \in Node, Expire(n) PROVE ExpiryInv'
<1>1. expired' = Append(expired, n) /\ seen' = seen /\ queue' = queue /\ expired \in Seq(Node)
  BY DEF Expire, ExpiryInv
<1>2. \A x : HasExpired(x) => HasExpired(x)'
  BY SMTT(60), <1>1, AppendExpiry DEF HasExpired
<1> QED  BY <1>1, <1>2, AppendExpiry DEF ExpiryInv

LEMMA ApplyExpiryKeeps ==
    ASSUME ExpiryInv, NEW m \in Node, ApplyExpiry(m) PROVE ExpiryInv'
<1>1. /\ expired' = expired /\ seen' = [seen EXCEPT ![m] = @ + 1] /\ seen[m] \in Nat
      /\ seen[m] + 1 \in 1 .. Len(expired)
  BY SMTT(60) DEF ApplyExpiry, ExpiryInv
<1>2. expired[seen[m] + 1] \in Node /\ HasExpired(expired[seen[m] + 1])
  BY SMTT(60), <1>1 DEF ExpiryInv, HasExpired
<1>3. \A x : HasExpired(x)' <=> HasExpired(x)
  BY <1>1 DEF HasExpired
<1>4. seen' \in [Node -> Nat]
  BY SMTT(60), <1>1 DEF ExpiryInv
<1>5. CASE queue' = queue
  BY <1>1, <1>3, <1>4, <1>5 DEF ExpiryInv
<1>6. CASE queue' = [queue EXCEPT ![m] = Append(@, expired[seen[m] + 1])]
  <2> DEFINE q == Append(queue[m], expired[seen[m] + 1])
  <2>1. queue[m] \in Seq(Node) /\ \A i \in 1 .. Len(queue[m]) : HasExpired(queue[m][i])
    BY DEF ExpiryInv
  <2>2. q \in Seq(Node) /\ \A i \in 1 .. Len(q) : HasExpired(q[i])
    BY SMTT(60), <1>2, <2>1, AppendExpiry
  <2>3. /\ queue' \in [Node -> Seq(Node)] /\ queue'[m] = q
        /\ \A k \in Node \ {m} : queue'[k] = queue[k]
    BY <1>6, <2>2 DEF ExpiryInv
  <2> QED  BY <1>1, <1>3, <1>4, <2>2, <2>3 DEF ExpiryInv
<1> QED  BY <1>5, <1>6 DEF ApplyExpiry

LEMMA OnExpiredKeeps ==
    ASSUME ExpiryInv, NEW m \in Node, OnExpired(m)
    PROVE  ExpiryInv' /\ Head(queue[m]) \in Node /\ HasExpired(Head(queue[m]))
<1>1. /\ expired' = expired /\ seen' = seen /\ queue' = [queue EXCEPT ![m] = Tail(@)]
      /\ queue[m] \in Seq(Node) /\ queue[m] # <<>>
  BY DEF OnExpired, ExpiryInv
<1>2. /\ Tail(queue[m]) \in Seq(Node) /\ 1 \in 1 .. Len(queue[m]) /\ Head(queue[m]) = queue[m][1]
      /\ Head(queue[m]) \in Node
      /\ \A i \in 1 .. Len(Tail(queue[m])) : i + 1 \in 1 .. Len(queue[m]) /\ Tail(queue[m])[i] = queue[m][i + 1]
  BY SMTT(60), <1>1
<1>3. \A x : HasExpired(x)' <=> HasExpired(x)
  BY <1>1 DEF HasExpired
<1>4. \A i \in 1 .. Len(Tail(queue[m])) : HasExpired(Tail(queue[m])[i])
  BY <1>2 DEF ExpiryInv
<1>5. /\ queue' \in [Node -> Seq(Node)] /\ queue'[m] = Tail(queue[m])
      /\ \A k \in Node \ {m} : queue'[k] = queue[k]
  BY <1>1, <1>2 DEF ExpiryInv
<1>6. ExpiryInv'
  BY <1>1, <1>3, <1>4, <1>5 DEF ExpiryInv
<1> QED  BY <1>2, <1>6 DEF ExpiryInv

LEMMA CrashKeeps ==
    ASSUME ExpiryInv, NEW n \in Node, Crash(n) PROVE ExpiryInv'
<1>1. /\ expired' = expired /\ seen' = [seen EXCEPT ![n] = 0] /\ queue' = [queue EXCEPT ![n] = <<>>]
  BY DEF Crash
<1>2. \A x : HasExpired(x)' <=> HasExpired(x)
  BY <1>1 DEF HasExpired
<1>3. seen' \in [Node -> Nat] /\ queue' \in [Node -> Seq(Node)]
  BY SMTT(60), <1>1 DEF ExpiryInv
<1>4. \A m \in Node : \A i \in 1 .. Len(queue'[m]) : HasExpired(queue'[m][i])
  BY SMTT(60), <1>1 DEF ExpiryInv
<1> QED  BY <1>1, <1>2, <1>3, <1>4 DEF ExpiryInv

(* The steps that leave the log of expiries and the queues alone.          *)
LEMMA OthersKeep ==
    ASSUME ExpiryInv, UNCHANGED events PROVE ExpiryInv'
  BY DEF ExpiryInv, HasExpired, events

LEMMA NextExpiry == ExpiryInv /\ [PresenceNext]_presenceVars => ExpiryInv'
<1> SUFFICES ASSUME ExpiryInv, [PresenceNext]_presenceVars PROVE ExpiryInv'
  OBVIOUS
<1>1. ASSUME NEW n \in Node, \/ Ensure(n) \/ Grant(n) \/ GrantAnswerLost(n) \/ Lapse(n) \/ Ping(n)
                             \/ AnnounceSelf(n) \/ AddSelf(n) \/ StartNode(n) \/ Cut(n) \/ Heal(n)
                             \/ Elect(n)
      PROVE  UNCHANGED events
  BY <1>1 DEF Ensure, Grant, GrantAnswerLost, Lapse, Ping, AnnounceSelf, AddSelf, StartNode, Cut,
     Heal, Elect
<1>2. StepDown \/ Depose \/ UNCHANGED presenceVars => UNCHANGED events
  BY DEF StepDown, Depose, presenceVars, events
<1> QED
  BY <1>1, <1>2, OthersKeep, ExpireKeeps, ApplyExpiryKeeps, OnExpiredKeeps, CrashKeeps DEF PresenceNext

(* WatchExpired acts on what the bus told, which replicas tell from the    *)
(* log, also again after a restart; Monitor.tick on pings it sent itself.  *)
(* A member is marked dead by nothing else.                                *)
THEOREM DeadHadReason == PresenceSpec => DeadWasAbsent
<1>1. ExpiryInv /\ [PresenceNext]_presenceVars =>
        [\A n \in Node : n \in alive /\ n \notin alive' => n \notin up \ cut \/ HasExpired(n)]_presenceVars
  <2> SUFFICES ASSUME ExpiryInv, PresenceNext, NEW n \in Node, n \in alive, n \notin alive'
               PROVE  n \notin up \ cut \/ HasExpired(n)
    OBVIOUS
  <2>1. ASSUME NEW m \in Node, \/ Ensure(m) \/ Grant(m) \/ GrantAnswerLost(m) \/ Lapse(m) \/ Expire(m)
                               \/ ApplyExpiry(m) \/ AnnounceSelf(m) \/ AddSelf(m) \/ Crash(m)
                               \/ StartNode(m) \/ Cut(m) \/ Heal(m) \/ Elect(m)
        PROVE  n \in alive'
    BY <2>1 DEF Ensure, Grant, GrantAnswerLost, Lapse, Expire, ApplyExpiry, AnnounceSelf, AddSelf,
       Crash, StartNode, Cut, Heal, Elect, liveness
  <2>2. StepDown \/ Depose => n \in alive'
    BY DEF StepDown, Depose, liveness
  <2>3. ASSUME NEW m \in Node, OnExpired(m) PROVE HasExpired(n)
    <3>1. n = Head(queue[m])
      BY <2>3 DEF OnExpired
    <3> QED  BY <2>3, <3>1, OnExpiredKeeps
  <2>4. ASSUME NEW m \in Node, Ping(m) PROVE n \notin up \ cut
    BY <2>4 DEF Ping
  <2> QED  BY <2>1, <2>2, <2>3, <2>4 DEF PresenceNext
<1> QED
  BY <1>1, InitExpiry, NextExpiry, PTL DEF PresenceSpec, DeadWasAbsent

================================================================================
