---------------------------- MODULE FSMReplicaProofs ---------------------------
(***************************************************************************)
(* For every set of nodes, every set of commands and every sequence of     *)
(* snapshots, crashes and restarts: the tables of the replicas agree, stay *)
(* within their limit and never reuse a token, and no node forgets a       *)
(* member the log has accepted.                                            *)
(***************************************************************************)
EXTENDS FSMReplica, FiniteSetTheorems, TLAPS

(* Most steps are first-order: Zenon first, SMT for what it does not find. *)
USE ZenonT(30), SMTT(60)

Roster == [Node -> Member \cup {NoMember}]

(* A list that has at least the accepted members, as the log left them.    *)
Covers(members, accepted) ==
    \A id \in Node : accepted[id] # NoMember => members[id] = accepted[id]

(* No id is both listed and remembered as dropped.                         *)
Disjoint(e) == \A id \in e.dropped : e.members[id] = NoMember

(* The history is the log, interpreted.                                    *)
HistStep ==
    \A i \in 1 .. Len(log) :
        /\ hist[i].engine = ApplyMembers(hist[i - 1].engine, log[i])
        /\ hist[i].locks  = ApplyLocks(hist[i - 1].locks, log[i])
        /\ hist[i].leases = ApplyLeases(hist[i - 1].leases, log[i])

(* A snapshot is as good as the log up to its index.                       *)
SnapshotSound ==
    \A n \in Node :
        /\ snap[n].data.members \in Roster
        /\ Covers(snap[n].data.members, hist[snap[n].index].engine.members)
        /\ snap[n].data.locks = hist[snap[n].index].locks
        /\ snap[n].data.leases = hist[snap[n].index].leases

Shape ==
    /\ log \in Seq(Command)
    /\ DOMAIN hist = 0 .. Len(log)
    /\ \A i \in 0 .. Len(log) : hist[i].engine \in Engine /\ Disjoint(hist[i].engine)
    /\ applied \in [Node -> 0 .. Len(log)]
    /\ engine \in [Node -> Engine]
    /\ locks = [n \in Node |-> locks[n]]
    /\ leases = [n \in Node |-> leases[n]]
    /\ snap = [n \in Node |-> snap[n]]
    /\ \A n \in Node : snap[n].index \in 0 .. Len(log)

(* TablesAgree is not inductive alone: a restart brings back the snapshot, *)
(* so the snapshots on disk must be sound too.                             *)
IInv ==
    /\ Shape
    /\ HistStep
    /\ SnapshotSound
    /\ TablesAgree
    /\ AcceptedAreListed

--------------------------------------------------------------------------------
(* The membership operators.                                               *)

LEMMA NormalizedMember ==
    ASSUME NEW role, NEW status
    PROVE  [role |-> NormalizeRole(role), status |-> NormalizeStatus(status)] \in Member
  BY DEF NormalizeRole, NormalizeStatus, Member, Role, Status

(* Normalising an entry that is already a member changes nothing.          *)
LEMMA NormalizeIdentity ==
    ASSUME NEW m \in Member
    PROVE  [role |-> NormalizeRole(m.role), status |-> NormalizeStatus(m.status)] = m
  BY DEF NormalizeRole, NormalizeStatus, Member, Role, Status

LEMMA NewEngineType ==
    ASSUME NEW n \in Node
    PROVE  NewEngine(n) \in Engine
  BY DEF NewEngine, Engine, Member, Role, Status

LEMMA ApplyMembersType ==
    ASSUME NEW e \in Engine, NEW c \in Command
    PROVE  ApplyMembers(e, c) \in Engine
<1>1. CASE c.kind = "add_member"
  <2>1. c.id \in Node
    BY <1>1, CommandAssumption
  <2>2. [role |-> NormalizeRole(c.role), status |-> "alive"] \in Member
    BY DEF NormalizeRole, Member, Role, Status
  <2>3. JoinAs(e, c.id, c.role) \in Engine
    BY <2>1, <2>2 DEF JoinAs, Engine
  <2> QED
    BY <1>1, <2>3 DEF ApplyMembers
<1>2. CASE c.kind = "remove_member"
  <2>1. c.id \in Node
    BY <1>2, CommandAssumption
  <2>2. MarkDead(e, c.id) \in Engine
    BY <2>1 DEF MarkDead, Engine, Member, Status
  <2> QED
    BY <1>2, <2>2 DEF ApplyMembers
<1>3. CASE c.kind = "drop_member"
  <2>1. c.id \in Node
    BY <1>3, CommandAssumption
  <2>2. Leave(e, c.id) \in Engine
    BY <2>1 DEF Leave, Engine
  <2> QED
    BY <1>3, <2>2 DEF ApplyMembers
<1>4. CASE c.kind \notin {"add_member", "remove_member", "drop_member"}
  BY <1>4 DEF ApplyMembers
<1> QED
  BY <1>1, <1>2, <1>3, <1>4

LEMMA ApplyMembersDisjoint ==
    ASSUME NEW e \in Engine, NEW c \in Command, Disjoint(e)
    PROVE  Disjoint(ApplyMembers(e, c))
<1> USE DEF Engine
<1>1. CASE c.kind = "add_member"
  BY <1>1 DEF ApplyMembers, JoinAs, Disjoint
<1>2. CASE c.kind = "remove_member"
  <2>1. c.id \in Node
    BY <1>2, CommandAssumption
  <2>2. Disjoint(MarkDead(e, c.id))
    BY <2>1 DEF MarkDead, Disjoint
  <2> QED
    BY <1>2, <2>2 DEF ApplyMembers
<1>3. CASE c.kind = "drop_member"
  <2>1. c.id \in Node
    BY <1>3, CommandAssumption
  <2>2. Disjoint(Leave(e, c.id))
    BY <2>1 DEF Leave, Disjoint
  <2> QED
    BY <1>3, <2>2 DEF ApplyMembers
<1>4. CASE c.kind \notin {"add_member", "remove_member", "drop_member"}
  BY <1>4 DEF ApplyMembers
<1> QED
  BY <1>1, <1>2, <1>3, <1>4

(* The same command keeps a list that covers the accepted one covering it. *)
LEMMA ApplyMembersCovers ==
    ASSUME NEW e \in Engine, NEW f \in Engine, NEW c \in Command,
           Covers(e.members, f.members), Disjoint(f)
    PROVE  Covers(ApplyMembers(e, c).members, ApplyMembers(f, c).members)
<1> USE DEF Engine
<1>1. CASE c.kind = "add_member"
  <2>1. c.id \in Node
    BY <1>1, CommandAssumption
  <2>2. Covers(JoinAs(e, c.id, c.role).members, JoinAs(f, c.id, c.role).members)
    BY <2>1 DEF JoinAs, Covers
  <2> QED
    BY <1>1, <2>2 DEF ApplyMembers
<1>2. CASE c.kind = "remove_member"
  <2>1. c.id \in Node
    BY <1>2, CommandAssumption
  <2>2. Covers(MarkDead(e, c.id).members, MarkDead(f, c.id).members)
    BY <2>1, NoMemberAssumption DEF MarkDead, Covers, Member
  <2> QED
    BY <1>2, <2>2 DEF ApplyMembers
<1>3. CASE c.kind = "drop_member"
  <2>1. c.id \in Node
    BY <1>3, CommandAssumption
  <2>2. Covers(Leave(e, c.id).members, Leave(f, c.id).members)
    BY <2>1 DEF Leave, Covers, Disjoint
  <2> QED
    BY <1>3, <2>2 DEF ApplyMembers
<1>4. CASE c.kind \notin {"add_member", "remove_member", "drop_member"}
  BY <1>4 DEF ApplyMembers
<1> QED
  BY <1>1, <1>2, <1>3, <1>4

(* A restored list covers what the snapshot covers, whatever was there.    *)
LEMMA RestoreMembersCovers ==
    ASSUME NEW e \in Engine, NEW entries \in Roster, NEW accepted \in Roster,
           Covers(entries, accepted)
    PROVE  /\ RestoreMembers(e, entries) \in Engine
           /\ Covers(RestoreMembers(e, entries).members, accepted)
<1>1. RestoreMembers(e, entries) \in Engine
  BY NormalizedMember DEF RestoreMembers, Engine, Roster
<1>2. ASSUME NEW id \in Node, accepted[id] # NoMember
      PROVE  RestoreMembers(e, entries).members[id] = accepted[id]
  <2>1. entries[id] = accepted[id] /\ entries[id] \in Member
    BY <1>2 DEF Covers, Roster
  <2>2. RestoreMembers(e, entries).members[id] =
            [role |-> NormalizeRole(entries[id].role), status |-> NormalizeStatus(entries[id].status)]
    BY <1>2, <2>1 DEF RestoreMembers
  <2> QED
    BY <2>1, <2>2, NormalizeIdentity
<1> QED
  BY <1>1, <1>2 DEF Covers

--------------------------------------------------------------------------------

LEMMA InitIInv == Init => IInv
<1> SUFFICES ASSUME Init PROVE IInv
  OBVIOUS
<1> USE DEF Init
<1>0. NoEngine \in Engine /\ Disjoint(NoEngine) /\ NoEngine.members \in Roster
  BY DEF NoEngine, Engine, Disjoint, Roster
<1>1. Shape
  <2>1. log \in Seq(Command) /\ Len(log) = 0
    OBVIOUS
  <2>2. engine \in [Node -> Engine]
    BY NewEngineType
  <2>3. \A n \in Node : snap[n].index \in 0 .. Len(log)
    <3>1. NoSnapshot.index = 0
      BY DEF NoSnapshot
    <3>2. \A n \in Node : snap[n] = NoSnapshot
      OBVIOUS
    <3>3. 0 \in 0 .. Len(log)
      BY <2>1
    <3> QED
      BY <3>1, <3>2, <3>3
  <2>4. DOMAIN hist = 0 .. Len(log) /\ \A i \in 0 .. Len(log) : hist[i] = Initial
    BY <2>1
  <2> QED
    BY <1>0, <2>1, <2>2, <2>3, <2>4 DEF Shape, Initial
<1>2. HistStep
  BY DEF HistStep
<1>3. hist[0] = Initial /\ \A n \in Node : applied[n] = 0 /\ snap[n] = NoSnapshot
  OBVIOUS
<1>4. SnapshotSound
  BY <1>0, <1>3 DEF SnapshotSound, NoSnapshot, SnapshotPayload, Initial, Covers
<1>5. TablesAgree
  BY <1>3 DEF TablesAgree, Initial
<1>6. AcceptedAreListed
  BY <1>3 DEF AcceptedAreListed, Initial, NoEngine
<1> QED
  BY <1>1, <1>2, <1>4, <1>5, <1>6 DEF IInv

LEMMA CommitIInv ==
    ASSUME IInv, NEW c \in Command, Commit(c)
    PROVE  IInv'
<1> USE DEF Commit, fsmVars
<1> DEFINE s == hist[Len(log)]
<1>0. log \in Seq(Command) /\ Len(log) \in Nat /\ s.engine \in Engine /\ Disjoint(s.engine)
  <2>1. log \in Seq(Command)
    BY DEF IInv, Shape
  <2>2. Len(log) \in Nat /\ Len(log) \in 0 .. Len(log)
    BY <2>1
  <2> QED
    BY <2>1, <2>2 DEF IInv, Shape
<1>1. /\ log' \in Seq(Command) /\ Len(log') = Len(log) + 1
      /\ \A i \in 1 .. Len(log) : log'[i] = log[i]
      /\ log'[Len(log) + 1] = c
  BY <1>0
<1>2. /\ DOMAIN hist' = 0 .. Len(log')
      /\ \A i \in 0 .. Len(log) : hist'[i] = hist[i]
      /\ hist'[Len(log) + 1] = [engine |-> ApplyMembers(s.engine, c),
                                locks  |-> ApplyLocks(s.locks, c),
                                leases |-> ApplyLeases(s.leases, c)]
  BY SMTT(60), <1>0, <1>1
<1>u. UNCHANGED <<applied, engine, locks, leases, snap>>
  OBVIOUS
<1> HIDE DEF Commit, fsmVars
<1>3. ApplyMembers(s.engine, c) \in Engine /\ Disjoint(ApplyMembers(s.engine, c))
  BY <1>0, ApplyMembersType, ApplyMembersDisjoint
<1>4. Shape'
  <2>1. ASSUME NEW i \in 0 .. Len(log') PROVE hist'[i].engine \in Engine /\ Disjoint(hist'[i].engine)
    BY SMTT(60), <1>0, <1>1, <1>2, <1>3 DEF IInv, Shape
  <2>2. applied' \in [Node -> 0 .. Len(log')]
    BY SMTT(60), <1>0, <1>1, <1>u DEF IInv, Shape
  <2>3. \A n \in Node : snap'[n].index \in 0 .. Len(log')
    BY SMTT(60), <1>0, <1>1, <1>u DEF IInv, Shape
  <2> QED
    BY <1>1, <1>2, <1>u, <2>1, <2>2, <2>3 DEF IInv, Shape, Disjoint
<1>5. HistStep'
  <2> SUFFICES ASSUME NEW i \in 1 .. Len(log')
               PROVE  /\ hist'[i].engine = ApplyMembers(hist'[i - 1].engine, log'[i])
                      /\ hist'[i].locks  = ApplyLocks(hist'[i - 1].locks, log'[i])
                      /\ hist'[i].leases = ApplyLeases(hist'[i - 1].leases, log'[i])
    BY DEF HistStep, ApplyMembers, ApplyLocks, ApplyLeases
  <2>1. CASE i \in 1 .. Len(log)
    <3>1. hist'[i] = hist[i] /\ hist'[i - 1] = hist[i - 1] /\ log'[i] = log[i]
      BY <1>0, <1>1, <1>2, <2>1
    <3> QED
      BY <2>1, <3>1 DEF IInv, HistStep
  <2>2. CASE i = Len(log) + 1
    <3>1. hist'[i - 1] = s /\ log'[i] = c
      BY SMTT(60), <1>0, <1>1, <1>2, <2>2
    <3> QED
      BY <1>2, <2>2, <3>1
  <2> QED
    BY <1>0, <1>1, <2>1, <2>2
<1>6. \A n \in Node : hist'[applied[n]] = hist[applied[n]] /\ hist'[snap[n].index] = hist[snap[n].index]
  BY <1>2 DEF IInv, Shape
<1>7. SnapshotSound'
  <2>1. ASSUME NEW n \in Node
        PROVE  /\ snap[n].data.members \in Roster
               /\ Covers(snap[n].data.members, hist'[snap[n].index].engine.members)
               /\ snap[n].data.locks = hist'[snap[n].index].locks
               /\ snap[n].data.leases = hist'[snap[n].index].leases
    BY <1>6 DEF IInv, SnapshotSound
  <2> QED
    BY <1>u, <2>1 DEF SnapshotSound
<1>8. TablesAgree' /\ AcceptedAreListed'
  <2>1. UNCHANGED <<applied, engine, locks, leases>>
    BY <1>u
  <2>2. TablesAgree'
    <3>1. TablesAgree
      BY DEF IInv
    <3> QED
      BY <1>6, <2>1, <3>1 DEF TablesAgree
  <2>3. AcceptedAreListed'
    <3> SUFFICES ASSUME NEW n \in Node, NEW id \in Node,
                        hist'[applied'[n]].engine.members[id] # NoMember
                 PROVE  engine'[n].members[id] = hist'[applied'[n]].engine.members[id]
      BY DEF AcceptedAreListed
    <3>1. hist'[applied'[n]] = hist[applied[n]] /\ engine'[n] = engine[n]
      BY <1>6, <2>1
    <3>2. hist[applied[n]].engine.members[id] # NoMember
              => engine[n].members[id] = hist[applied[n]].engine.members[id]
      BY DEF IInv, AcceptedAreListed
    <3> QED
      BY <3>1, <3>2
  <2> QED
    BY <2>2, <2>3
<1> QED
  BY <1>4, <1>5, <1>7, <1>8 DEF IInv

LEMMA HistStepKept == HistStep /\ UNCHANGED <<log, hist>> => HistStep'
  BY SMTT(60) DEF HistStep, ApplyMembers, ApplyLocks, ApplyLeases

LEMMA ApplyEntryIInv ==
    ASSUME IInv, NEW n \in Node, ApplyEntry(n)
    PROVE  IInv'
<1> USE DEF ApplyEntry
<1> DEFINE k == applied[n] + 1
           c == log[k]
<1>0. /\ log \in Seq(Command) /\ k \in 1 .. Len(log) /\ k - 1 = applied[n]
      /\ engine[n] \in Engine
      /\ hist[applied[n]].engine \in Engine /\ Disjoint(hist[applied[n]].engine)
  <2>1. /\ log \in Seq(Command) /\ engine[n] \in Engine
        /\ applied[n] \in 0 .. Len(log) /\ applied[n] < Len(log)
    BY DEF IInv, Shape
  <2>2. hist[applied[n]].engine \in Engine /\ Disjoint(hist[applied[n]].engine)
    BY <2>1 DEF IInv, Shape
  <2> QED
    BY <2>1, <2>2
<1>1. c \in Command
  BY <1>0
<1>2. /\ hist[k].engine = ApplyMembers(hist[applied[n]].engine, c)
      /\ hist[k].locks  = ApplyLocks(hist[applied[n]].locks, c)
      /\ hist[k].leases = ApplyLeases(hist[applied[n]].leases, c)
  BY <1>0 DEF IInv, HistStep
<1>3. Shape'
  <2>1. ApplyMembers(engine[n], c) \in Engine
    BY <1>0, <1>1, ApplyMembersType
  <2>2. applied' \in [Node -> 0 .. Len(log)] /\ engine' \in [Node -> Engine]
    BY SMTT(60), <1>0, <2>1 DEF IInv, Shape
  <2> QED
    BY <2>2 DEF IInv, Shape, Disjoint
<1>4. HistStep' /\ SnapshotSound'
  <2>1. UNCHANGED <<log, hist, snap>>
    OBVIOUS
  <2>2. HistStep'
    <3>1. HistStep
      BY DEF IInv
    <3> QED
      BY <2>1, <3>1, HistStepKept
  <2>3. SnapshotSound'
    <3>1. SnapshotSound
      BY DEF IInv
    <3> QED
      BY <2>1, <3>1 DEF SnapshotSound
  <2> QED
    BY <2>2, <2>3
<1>5. TablesAgree'
  <2>1. ASSUME NEW m \in Node
        PROVE  locks'[m] = hist[applied'[m]].locks /\ leases'[m] = hist[applied'[m]].leases
    <3>1. CASE m = n
      <4>1. locks[n] = hist[applied[n]].locks /\ leases[n] = hist[applied[n]].leases
        BY DEF IInv, TablesAgree
      <4>2. locks'[n] = ApplyLocks(locks[n], c) /\ leases'[n] = ApplyLeases(leases[n], c) /\ applied'[n] = k
        BY DEF IInv, Shape
      <4> QED
        BY <1>2, <3>1, <4>1, <4>2
    <3>2. CASE m # n
      BY <3>2 DEF IInv, Shape, TablesAgree
    <3> QED
      BY <3>1, <3>2
  <2> QED
    BY <2>1 DEF TablesAgree
<1>6. AcceptedAreListed'
  <2>1. ASSUME NEW m \in Node
        PROVE  Covers(engine'[m].members, hist[applied'[m]].engine.members)
    <3>1. CASE m = n
      <4>1. Covers(engine[n].members, hist[applied[n]].engine.members)
        BY DEF IInv, AcceptedAreListed, Covers
      <4>2. engine'[n] = ApplyMembers(engine[n], c) /\ applied'[n] = k
        BY DEF IInv, Shape
      <4> QED
        BY <1>0, <1>1, <1>2, <3>1, <4>1, <4>2, ApplyMembersCovers
    <3>2. CASE m # n
      <4>1. Covers(engine[m].members, hist[applied[m]].engine.members)
        BY DEF IInv, AcceptedAreListed, Covers
      <4>2. engine'[m] = engine[m] /\ applied'[m] = applied[m]
        BY <3>2 DEF IInv, Shape
      <4> QED
        BY <4>1, <4>2
    <3> QED
      BY <3>1, <3>2
  <2>2. hist' = hist
    OBVIOUS
  <2>3. \A m \in Node : Covers(engine'[m].members, hist'[applied'[m]].engine.members)
    BY <2>1, <2>2
  <2> QED
    BY <2>3 DEF AcceptedAreListed, Covers
<1> QED
  BY <1>3, <1>4, <1>5, <1>6 DEF IInv

(* Writing a snapshot makes a sound one of a node that agrees.             *)
LEMMA TakeSnapshotIInv ==
    ASSUME IInv, NEW n \in Node, TakeSnapshot(n)
    PROVE  IInv'
<1> USE DEF TakeSnapshot, fsmVars
<1> DEFINE new == [index |-> applied[n], data |-> SnapshotPayload(engine[n], locks[n], leases[n])]
<1>0. snap' = [snap EXCEPT ![n] = new] /\ snap = [m \in Node |-> snap[m]]
  BY DEF IInv, Shape
<1>1. snap'[n] = new /\ \A m \in Node \ {n} : snap'[m] = snap[m]
  BY <1>0
<1>2. /\ new.index = applied[n] /\ new.data.members = engine[n].members
      /\ new.data.locks = locks[n] /\ new.data.leases = leases[n]
  BY DEF SnapshotPayload
<1>3. Shape'
  <2>1. snap' = [m \in Node |-> snap'[m]]
    BY <1>0
  <2>2. \A m \in Node : snap'[m].index \in 0 .. Len(log)
    BY <1>1, <1>2 DEF IInv, Shape
  <2> QED
    BY <2>1, <2>2 DEF IInv, Shape, Disjoint
<1>4. HistStep' /\ TablesAgree' /\ AcceptedAreListed'
  BY HistStepKept DEF IInv, TablesAgree, AcceptedAreListed
<1>5. SnapshotSound'
  <2>1. ASSUME NEW m \in Node
        PROVE  /\ snap'[m].data.members \in Roster
               /\ Covers(snap'[m].data.members, hist[snap'[m].index].engine.members)
               /\ snap'[m].data.locks = hist[snap'[m].index].locks
               /\ snap'[m].data.leases = hist[snap'[m].index].leases
    <3>1. CASE m = n
      <4>1. engine[n].members \in Roster
        BY DEF IInv, Shape, Engine, Roster
      <4>2. Covers(engine[n].members, hist[applied[n]].engine.members)
        BY DEF IInv, AcceptedAreListed, Covers
      <4>3. locks[n] = hist[applied[n]].locks /\ leases[n] = hist[applied[n]].leases
        BY DEF IInv, TablesAgree
      <4>4. snap'[m] = new
        BY <1>1, <3>1
      <4> HIDE DEF new
      <4> QED
        BY <1>2, <4>1, <4>2, <4>3, <4>4
    <3>2. CASE m # n
      BY <1>1, <3>2 DEF IInv, SnapshotSound
    <3> QED
      BY <3>1, <3>2
  <2>2. hist' = hist
    OBVIOUS
  <2> QED
    BY <2>1, <2>2 DEF SnapshotSound
<1> QED
  BY <1>3, <1>4, <1>5 DEF IInv

(* FSM.Restore, into an engine that may already hold anything, brings a    *)
(* node to the snapshot's position.                                        *)
LEMMA RestoreIInv ==
    ASSUME IInv, NEW n \in Node, NEW m \in Node, NEW e \in Engine,
           applied' = [applied EXCEPT ![n] = snap[m].index],
           engine' = [engine EXCEPT ![n] = RestoreMembers(e, snap[m].data.members)],
           locks' = [locks EXCEPT ![n] = RestoreTable(snap[m].data.locks)],
           leases' = [leases EXCEPT ![n] = RestoreTable(snap[m].data.leases)],
           snap' = [snap EXCEPT ![n] = snap[m]],
           UNCHANGED <<log, hist>>
    PROVE  IInv'
<1> DEFINE k == snap[m].index
<1>0. /\ k \in 0 .. Len(log)
      /\ snap[m].data.members \in Roster
      /\ Covers(snap[m].data.members, hist[k].engine.members)
      /\ snap[m].data.locks = hist[k].locks
      /\ snap[m].data.leases = hist[k].leases
      /\ hist[k].engine.members \in Roster
  BY DEF IInv, Shape, SnapshotSound, Engine, Roster
<1>1. /\ RestoreMembers(e, snap[m].data.members) \in Engine
      /\ Covers(RestoreMembers(e, snap[m].data.members).members, hist[k].engine.members)
  BY <1>0, RestoreMembersCovers
<1>2. /\ applied'[n] = k /\ locks'[n] = hist[k].locks /\ leases'[n] = hist[k].leases
      /\ engine'[n] = RestoreMembers(e, snap[m].data.members)
      /\ snap'[n] = snap[m]
      /\ \A o \in Node \ {n} : /\ applied'[o] = applied[o] /\ engine'[o] = engine[o]
                               /\ locks'[o] = locks[o] /\ leases'[o] = leases[o]
                               /\ snap'[o] = snap[o]
  BY <1>0 DEF IInv, Shape, RestoreTable
<1>3. Shape'
  <2>1. applied' \in [Node -> 0 .. Len(log)] /\ engine' \in [Node -> Engine]
    BY <1>0, <1>1 DEF IInv, Shape
  <2>2. /\ locks' = [o \in Node |-> locks'[o]] /\ leases' = [o \in Node |-> leases'[o]]
        /\ snap' = [o \in Node |-> snap'[o]]
    BY DEF IInv, Shape
  <2>3. \A o \in Node : snap'[o].index \in 0 .. Len(log)
    BY <1>0, <1>2 DEF IInv, Shape
  <2> QED
    BY <2>1, <2>2, <2>3 DEF IInv, Shape, Disjoint
<1>4. HistStep'
  BY HistStepKept DEF IInv
<1>5. TablesAgree'
  BY SMTT(60), <1>2 DEF IInv, TablesAgree
<1>6. AcceptedAreListed'
  <2>1. \A o \in Node \ {n} : Covers(engine[o].members, hist[applied[o]].engine.members)
    BY DEF IInv, AcceptedAreListed, Covers
  <2>2. \A o \in Node \ {n} : Covers(engine'[o].members, hist[applied'[o]].engine.members)
    BY <1>2, <2>1
  <2>3. Covers(engine'[n].members, hist[applied'[n]].engine.members)
    BY <1>1, <1>2
  <2>4. hist' = hist
    OBVIOUS
  <2>5. \A o \in Node : Covers(engine'[o].members, hist'[applied'[o]].engine.members)
    BY <2>2, <2>3, <2>4
  <2> QED
    BY <2>5 DEF AcceptedAreListed, Covers
<1>7. SnapshotSound'
  <2>1. ASSUME NEW o \in Node
        PROVE  /\ snap'[o].data.members \in Roster
               /\ Covers(snap'[o].data.members, hist[snap'[o].index].engine.members)
               /\ snap'[o].data.locks = hist[snap'[o].index].locks
               /\ snap'[o].data.leases = hist[snap'[o].index].leases
    <3>1. CASE o = n
      <4>1. snap'[o] = snap[m]
        BY <1>2, <3>1
      <4> QED
        BY <1>0, <4>1
    <3>2. CASE o # n
      <4>1. snap'[o] = snap[o]
        BY <1>2, <3>2
      <4> QED
        BY <4>1 DEF IInv, SnapshotSound
    <3> QED
      BY <3>1, <3>2
  <2> QED
    BY <2>1 DEF SnapshotSound
<1> QED
  BY <1>3, <1>4, <1>5, <1>6, <1>7 DEF IInv

LEMMA NextIInv == IInv /\ [Next]_vars => IInv'
<1> SUFFICES ASSUME IInv, [Next]_vars PROVE IInv'
  OBVIOUS
<1>1. ASSUME NEW c \in Command, Commit(c) PROVE IInv'
  BY <1>1, CommitIInv
<1>2. ASSUME NEW n \in Node, ApplyEntry(n) PROVE IInv'
  BY <1>2, ApplyEntryIInv
<1>3. ASSUME NEW n \in Node, TakeSnapshot(n) PROVE IInv'
  BY <1>3, TakeSnapshotIInv
<1>4. ASSUME NEW n \in Node, NEW m \in Node, InstallSnapshot(n, m) PROVE IInv'
  <2>1. engine[n] \in Engine
    BY DEF IInv, Shape
  <2>2. engine' = [engine EXCEPT ![n] = RestoreMembers(engine[n], snap[m].data.members)]
    BY <1>4 DEF InstallSnapshot
  <2> QED
    BY <1>4, <2>1, <2>2, RestoreIInv DEF InstallSnapshot
<1>5. ASSUME NEW n \in Node, Restart(n) PROVE IInv'
  <2>1. snap' = [snap EXCEPT ![n] = snap[n]]
    BY <1>5 DEF Restart, IInv, Shape
  <2> QED
    BY <1>5, <2>1, NewEngineType, RestoreIInv DEF Restart
<1>6. ASSUME UNCHANGED <<log, fsmVars, snap, hist>> PROVE IInv'
  <2>1. Shape' /\ HistStep'
    BY SMTT(60), <1>6 DEF fsmVars, IInv, Shape, HistStep, Disjoint, ApplyMembers, ApplyLocks, ApplyLeases
  <2>2. TablesAgree' /\ AcceptedAreListed'
    BY <1>6 DEF fsmVars, IInv, TablesAgree, AcceptedAreListed
  <2>3. SnapshotSound'
    BY <1>6 DEF fsmVars, IInv, SnapshotSound
  <2> QED
    BY <2>1, <2>2, <2>3 DEF IInv
<1>7. ASSUME NEW n \in Node, Crash(n) PROVE IInv'
  BY <1>6, <1>7 DEF Crash
<1>8. CASE UNCHANGED vars
  BY <1>6, <1>8 DEF vars, fsmVars
<1> QED
  BY <1>1, <1>2, <1>3, <1>4, <1>5, <1>7, <1>8 DEF Next

--------------------------------------------------------------------------------
(* The limit on grants.                                                    *)

Within(S) == IsFiniteSet(S) /\ Cardinality(S) <= MaxGrants

LocksFit(t) ==
    "locks" \in DOMAIN t /\ DOMAIN t.locks = Name /\ Within(Locks!Held(t))

LeasesFit(t) ==
    "leases" \in DOMAIN t /\ DOMAIN t.leases = Name /\ Within(Leases!Held(t))

(* What a command may do to the names that are held: nothing new, or one   *)
(* more while there is room.                                               *)
Fits(S, T) ==
    \/ T \subseteq S
    \/ Cardinality(S) < MaxGrants /\ \E x : T \subseteq S \cup {x}

LEMMA FitsKeepsLimit ==
    ASSUME NEW S, NEW T, Within(S), Fits(S, T)
    PROVE  Within(T)
<1>1. IsFiniteSet(S) /\ Cardinality(S) \in Nat /\ Cardinality(S) <= MaxGrants /\ MaxGrants \in Nat
  BY FS_CardinalityType, LimitAssumption DEF Within
<1>2. CASE T \subseteq S
  <2>1. IsFiniteSet(T) /\ Cardinality(T) <= Cardinality(S) /\ Cardinality(T) \in Nat
    BY <1>1, <1>2, FS_Subset, FS_CardinalityType
  <2> QED  BY <1>1, <2>1 DEF Within
<1>3. ASSUME Cardinality(S) < MaxGrants, NEW x, T \subseteq S \cup {x}
      PROVE  Within(T)
  <2>1. /\ IsFiniteSet(S \cup {x})
        /\ Cardinality(S \cup {x}) = Cardinality(S) \/ Cardinality(S \cup {x}) = Cardinality(S) + 1
    BY <1>1, FS_AddElement
  <2>2. Cardinality(S \cup {x}) <= MaxGrants /\ Cardinality(S \cup {x}) \in Nat
    BY <1>1, <1>3, <2>1
  <2>3. IsFiniteSet(T) /\ Cardinality(T) <= Cardinality(S \cup {x}) /\ Cardinality(T) \in Nat
    BY <1>3, <2>1, FS_Subset, FS_CardinalityType
  <2> QED  BY <1>1, <2>2, <2>3 DEF Within
<1> QED  BY <1>2, <1>3 DEF Fits

(* The tables' modules count with the same operator.                       *)
LEMMA SameCount ==
    ASSUME NEW S
    PROVE  Locks!Cardinality(S) = Cardinality(S) /\ Leases!Cardinality(S) = Cardinality(S)
<1>1. Locks!Cardinality(S) = Cardinality(S)
  BY Zenon DEF Locks!Cardinality, Cardinality
<1>2. Leases!Cardinality(S) = Cardinality(S)
  BY Zenon DEF Leases!Cardinality, Cardinality
<1> QED  BY <1>1, <1>2

LEMMA DropFits ==
    ASSUME NEW t, NEW nm, LocksFit(t)
    PROVE  LocksFit(Locks!Drop(t, nm))
<1> DEFINE u == Locks!Drop(t, nm)
<1>1. "locks" \in DOMAIN u /\ DOMAIN u.locks = Name
  BY DEF Locks!Drop, LocksFit
<1>2. Locks!Held(u) \subseteq Locks!Held(t)
  BY DEF Locks!Drop, Locks!Held, LocksFit
<1> QED  BY <1>1, <1>2, FitsKeepsLimit DEF LocksFit, Fits

LEMMA RefreshFits ==
    ASSUME NEW t, NEW nm, NEW dl, NEW ttl, LocksFit(t), t.locks[nm] # NoGrant
    PROVE  LocksFit(Locks!Refresh(t, nm, dl, ttl))
<1> DEFINE u == Locks!Refresh(t, nm, dl, ttl)
<1>1. "locks" \in DOMAIN u /\ DOMAIN u.locks = Name
  BY DEF Locks!Refresh, LocksFit
<1>2. Locks!Held(u) \subseteq Locks!Held(t)
  BY DEF Locks!Refresh, Locks!Held, LocksFit
<1> QED  BY <1>1, <1>2, FitsKeepsLimit DEF LocksFit, Fits

LEMMA NewGrantFits ==
    ASSUME NEW t, NEW nm, NEW h, NEW dl, NEW ttl, LocksFit(t),
           Cardinality(Locks!Held(t)) < MaxGrants
    PROVE  LocksFit(Locks!NewGrant(t, nm, h, dl, ttl))
<1> DEFINE u == Locks!NewGrant(t, nm, h, dl, ttl)
<1>1. "locks" \in DOMAIN u /\ DOMAIN u.locks = Name
  BY DEF Locks!NewGrant, LocksFit
<1>2. Locks!Held(u) \subseteq Locks!Held(t) \cup {nm}
  BY DEF Locks!NewGrant, Locks!Held, LocksFit
<1> QED  BY <1>1, <1>2, FitsKeepsLimit DEF LocksFit, Fits

(* Acquire looks at the limit only for a new grant; no other command adds. *)
LEMMA ApplyLocksFits ==
    ASSUME NEW t, NEW c, LocksFit(t)
    PROVE  LocksFit(ApplyLocks(t, c))
<1>0. Cardinality(Locks!Held(t)) \in Nat /\ MaxGrants \in Nat
  BY FS_CardinalityType, LimitAssumption DEF LocksFit, Within
<1>1. CASE c.kind = "lock_acquire"
  <2>1. CASE t.locks[c.name] # NoGrant
    BY <1>1, <2>1, RefreshFits DEF ApplyLocks, Locks!Acquire
  <2>2. CASE t.locks[c.name] = NoGrant /\ Cardinality(Locks!Held(t)) >= MaxGrants
    BY <1>1, <2>2, SameCount DEF ApplyLocks, Locks!Acquire
  <2>3. CASE t.locks[c.name] = NoGrant /\ ~(Cardinality(Locks!Held(t)) >= MaxGrants)
    <3>1. Cardinality(Locks!Held(t)) < MaxGrants
      BY <1>0, <2>3
    <3>2. ApplyLocks(t, c) = Locks!NewGrant(t, c.name, c.id, c.deadline, c.ttl)
      BY <1>1, <2>3, SameCount DEF ApplyLocks, Locks!Acquire
    <3> QED  BY <3>1, <3>2, NewGrantFits
  <2> QED  BY <2>1, <2>2, <2>3
<1>2. CASE c.kind = "lock_release"
  BY <1>2, DropFits DEF ApplyLocks, Locks!Release
<1>3. CASE c.kind = "lock_renew"
  BY <1>3, RefreshFits DEF ApplyLocks, Locks!Renew, Locks!Matches, Locks!HeldBy
<1>4. CASE c.kind = "lock_expire"
  BY <1>4, DropFits DEF ApplyLocks, Locks!Expire
<1>5. CASE c.kind \notin {"lock_acquire", "lock_release", "lock_renew", "lock_expire"}
  BY <1>5 DEF ApplyLocks
<1> QED  BY <1>1, <1>2, <1>3, <1>4, <1>5

LEMMA LeaseDropFits ==
    ASSUME NEW t, NEW nm, LeasesFit(t)
    PROVE  LeasesFit(Leases!Drop(t, nm))
<1> DEFINE u == Leases!Drop(t, nm)
<1>1. "leases" \in DOMAIN u /\ DOMAIN u.leases = Name
  BY DEF Leases!Drop, LeasesFit
<1>2. Leases!Held(u) \subseteq Leases!Held(t)
  BY DEF Leases!Drop, Leases!Held, LeasesFit
<1> QED  BY <1>1, <1>2, FitsKeepsLimit DEF LeasesFit, Fits

LEMMA LeaseRefreshFits ==
    ASSUME NEW t, NEW nm, NEW dl, NEW ttl, LeasesFit(t), t.leases[nm] # NoGrant
    PROVE  LeasesFit(Leases!Refresh(t, nm, dl, ttl))
<1> DEFINE u == Leases!Refresh(t, nm, dl, ttl)
<1>1. "leases" \in DOMAIN u /\ DOMAIN u.leases = Name
  BY DEF Leases!Refresh, LeasesFit
<1>2. Leases!Held(u) \subseteq Leases!Held(t)
  BY DEF Leases!Refresh, Leases!Held, LeasesFit
<1> QED  BY <1>1, <1>2, FitsKeepsLimit DEF LeasesFit, Fits

LEMMA LeaseGrantFits ==
    ASSUME NEW t, NEW nm, NEW o, NEW dl, NEW ttl, LeasesFit(t)
    PROVE  LeasesFit(Leases!Grant(t, nm, o, dl, ttl))
<1> DEFINE u == Leases!Grant(t, nm, o, dl, ttl)
<1>1. CASE Leases!OwnedBy(t, nm, o)
  <2>1. u = Leases!Refresh(t, nm, dl, ttl) /\ t.leases[nm] # NoGrant
    BY <1>1 DEF Leases!Grant, Leases!OwnedBy, Leases!Grantable
  <2> QED  BY <2>1, LeaseRefreshFits
<1>2. CASE ~Leases!OwnedBy(t, nm, o) /\ Leases!Grantable(t, nm)
  <2>1. u = [leases |-> [t.leases EXCEPT ![nm] = [owner |-> o, token |-> t.next + 1,
                                                  deadline |-> dl, ttl |-> ttl]],
             next   |-> t.next + 1]
    BY <1>2 DEF Leases!Grant
  <2>2. "leases" \in DOMAIN u /\ DOMAIN u.leases = Name
    BY <2>1 DEF LeasesFit
  <2>3. Leases!Held(u) \subseteq Leases!Held(t) \cup {nm}
    BY <2>1 DEF Leases!Held, LeasesFit
  <2>4. Fits(Leases!Held(t), Leases!Held(u))
    BY <1>2, <2>3, SameCount DEF Fits, Leases!Grantable
  <2> QED  BY <2>2, <2>4, FitsKeepsLimit DEF LeasesFit
<1>3. CASE ~Leases!OwnedBy(t, nm, o) /\ ~Leases!Grantable(t, nm)
  BY <1>3 DEF Leases!Grant
<1> QED  BY <1>1, <1>2, <1>3

LEMMA ApplyLeasesFits ==
    ASSUME NEW t, NEW c, LeasesFit(t)
    PROVE  LeasesFit(ApplyLeases(t, c))
<1>1. CASE c.kind = "lease_grant"
  BY <1>1, LeaseGrantFits DEF ApplyLeases
<1>2. CASE c.kind = "lease_revoke"
  BY <1>2, LeaseDropFits DEF ApplyLeases, Leases!Revoke
<1>3. CASE c.kind = "lease_renew"
  BY <1>3, LeaseRefreshFits DEF ApplyLeases, Leases!Renew, Leases!Matches, Leases!OwnedBy
<1>4. CASE c.kind = "lease_expire"
  BY <1>4, LeaseDropFits DEF ApplyLeases, Leases!Expire
<1>5. CASE c.kind \notin {"lease_grant", "lease_revoke", "lease_renew", "lease_expire"}
  BY <1>5 DEF ApplyLeases
<1> QED  BY <1>1, <1>2, <1>3, <1>4, <1>5

--------------------------------------------------------------------------------

THEOREM Invariance == Spec => []IInv
  BY InitIInv, NextIInv, PTL DEF Spec

(* However a replica reached a log position (replay, its own snapshot, a   *)
(* snapshot of another node, any number of restarts), its lock and lease   *)
(* tables are the log's.                                                   *)
THEOREM ReplicaTablesAgree == Spec => []TablesAgree
<1>1. IInv => TablesAgree
  BY DEF IInv
<1> QED
  BY <1>1, Invariance, PTL

(* No restart and no snapshot loses an accepted member, or changes its     *)
(* role or status.                                                         *)
THEOREM NoMemberLost == Spec => []AcceptedAreListed
<1>1. IInv => AcceptedAreListed
  BY DEF IInv
<1> QED
  BY <1>1, Invariance, PTL

(* The tables of the log, and with them those of every replica, stay       *)
(* within the limit.                                                       *)
LimitInv == \A i \in 0 .. Len(log) : LocksFit(hist[i].locks) /\ LeasesFit(hist[i].leases)

LEMMA InitLimit == Init => LimitInv
<1> SUFFICES ASSUME Init PROVE LimitInv
  OBVIOUS
<1>1. Within({})
  BY SMTT(60), FS_EmptySet, LimitAssumption DEF Within
<1>2. LocksFit(Locks!EmptyTable)
  <2>1. Locks!Held(Locks!EmptyTable) = {}
    BY DEF Locks!Held, Locks!EmptyTable
  <2> QED  BY <1>1, <2>1 DEF LocksFit, Locks!EmptyTable
<1>3. LeasesFit(Leases!EmptyTable)
  <2>1. Leases!Held(Leases!EmptyTable) = {}
    BY DEF Leases!Held, Leases!EmptyTable
  <2> QED  BY <1>1, <2>1 DEF LeasesFit, Leases!EmptyTable
<1>4. \A i \in 0 .. Len(log) : hist[i] = Initial
  BY DEF Init
<1> QED  BY <1>2, <1>3, <1>4 DEF LimitInv, Initial

LEMMA NextLimit == IInv /\ LimitInv /\ [Next]_vars => LimitInv'
<1> SUFFICES ASSUME IInv, LimitInv, [Next]_vars PROVE LimitInv'
  OBVIOUS
<1>0. log \in Seq(Command) /\ Len(log) \in Nat
  BY SMTT(60) DEF IInv, Shape
<1>1. ASSUME NEW c \in Command, Commit(c) PROVE LimitInv'
  <2> DEFINE s == hist[Len(log)]
  <2>1. Len(log') = Len(log) + 1 /\ \A i \in 0 .. Len(log) : hist'[i] = hist[i]
    BY <1>0, <1>1 DEF Commit
  <2>2. /\ hist'[Len(log) + 1].locks = ApplyLocks(s.locks, c)
        /\ hist'[Len(log) + 1].leases = ApplyLeases(s.leases, c)
    BY <1>0, <1>1 DEF Commit
  <2>3. LocksFit(s.locks) /\ LeasesFit(s.leases)
    BY <1>0 DEF LimitInv
  <2>4. LocksFit(hist'[Len(log) + 1].locks) /\ LeasesFit(hist'[Len(log) + 1].leases)
    BY <2>2, <2>3, ApplyLocksFits, ApplyLeasesFits
  <2>5. \A i \in 0 .. Len(log) + 1 : LocksFit(hist'[i].locks) /\ LeasesFit(hist'[i].leases)
    BY <1>0, <2>1, <2>4 DEF LimitInv
  <2> QED  BY <2>1, <2>5 DEF LimitInv, LocksFit, LeasesFit
<1>2. ASSUME UNCHANGED <<log, hist>> PROVE LimitInv'
  BY <1>2 DEF LimitInv, LocksFit, LeasesFit
<1>3. (\E c \in Command : Commit(c)) \/ UNCHANGED <<log, hist>>
  BY DEF Next, vars, ApplyEntry, TakeSnapshot, InstallSnapshot, Crash, Restart
<1> QED  BY <1>1, <1>2, <1>3

(* However replicas came to their tables (replay, snapshots, restarts), no *)
(* node holds more locks or leases than the limit: Table.Acquire and       *)
(* Table.Grant look at it where they are applied, and nothing else adds.   *)
THEOREM LimitHolds == Spec => []GrantsWithinLimit
<1>1. IInv /\ LimitInv => GrantsWithinLimit
  <2> SUFFICES ASSUME IInv, LimitInv, NEW n \in Node
               PROVE  /\ Cardinality(Locks!Held(locks[n])) <= MaxGrants
                      /\ Cardinality(Leases!Held(leases[n])) <= MaxGrants
    BY DEF GrantsWithinLimit
  <2>1. applied[n] \in 0 .. Len(log)
    BY DEF IInv, Shape
  <2>2. locks[n] = hist[applied[n]].locks /\ leases[n] = hist[applied[n]].leases
    BY DEF IInv, TablesAgree
  <2> QED  BY <2>1, <2>2 DEF LimitInv, LocksFit, LeasesFit, Within
<1>2. Spec => []LimitInv
  BY InitLimit, NextLimit, Invariance, PTL DEF Spec
<1> QED
  BY <1>1, <1>2, Invariance, PTL

(* From position to position the counter never falls, every token is from  *)
(* the counter, and no two grants share one.                               *)
Fenced(k, next, given) ==
    /\ \A i \in 0 .. k : next[i] \in Nat /\ \A g \in given[i] : g[3] \in 1 .. next[i]
    /\ \A i, j \in 0 .. k : i <= j => next[i] <= next[j]
    /\ \A i, j \in 0 .. k : \A g \in given[i], h \in given[j] : g[3] = h[3] => g = h

(* What a command may do: take grants away, or give one with a new token.  *)
Gives(next, given, next2, given2) ==
    \/ next2 = next /\ given2 \subseteq given
    \/ next2 = next + 1 /\ \E new : new[3] = next + 1 /\ given2 \subseteq given \cup {new}

LEMMA FencedStep ==
    ASSUME NEW k \in Nat, NEW next, NEW given, Fenced(k, next, given),
           Gives(next[k], given[k], next[k + 1], given[k + 1])
    PROVE  Fenced(k + 1, next, given)
<1>1. /\ k \in 0 .. k /\ next[k] \in Nat /\ next[k + 1] \in Nat /\ next[k] <= next[k + 1]
      /\ \A i \in 0 .. k : next[i] \in Nat /\ next[i] <= next[k]
  BY SMTT(60) DEF Fenced, Gives
<1>2. \A i \in 0 .. k + 1 : i \in 0 .. k \/ i = k + 1
  BY SMTT(60)
<1>3. \A h \in given[k + 1] : h \in given[k] \/ (h[3] = next[k] + 1 /\ next[k + 1] = next[k] + 1)
  BY DEF Gives
<1>4. \A g, h \in given[k + 1] : ~(g \in given[k]) /\ ~(h \in given[k]) => g = h
  BY DEF Gives
<1>5. \A i \in 0 .. k : \A g \in given[i] : g[3] \in 1 .. next[i] /\ g[3] # next[k] + 1
  BY <1>1, SMTT(60) DEF Fenced
<1>6. \A i \in 0 .. k + 1 : next[i] \in Nat /\ \A g \in given[i] : g[3] \in 1 .. next[i]
  <2>1. \A g \in given[k + 1] : g[3] \in 1 .. next[k + 1]
    <3> SUFFICES ASSUME NEW g \in given[k + 1] PROVE g[3] \in 1 .. next[k + 1]
      OBVIOUS
    <3>1. CASE g \in given[k]
      BY SMTT(60), <1>1, <1>5, <3>1
    <3>2. CASE g[3] = next[k] + 1 /\ next[k + 1] = next[k] + 1
      BY SMTT(60), <1>1, <3>2
    <3> QED  BY <1>3, <3>1, <3>2
  <2> QED  BY <1>1, <1>2, <1>5, <2>1
<1>7. \A i, j \in 0 .. k + 1 : i <= j => next[i] <= next[j]
  <2> SUFFICES ASSUME NEW i \in 0 .. k + 1, NEW j \in 0 .. k + 1, i <= j
               PROVE  next[i] <= next[j]
    OBVIOUS
  <2>1. CASE j \in 0 .. k
    <3>1. i \in 0 .. k
      BY SMTT(60), <2>1
    <3> QED  BY <2>1, <3>1 DEF Fenced
  <2>2. CASE j = k + 1
    BY SMTT(60), <1>1, <1>2, <2>2
  <2> QED  BY <1>2, <2>1, <2>2
<1>8. \A i \in 0 .. k : \A g \in given[i], h \in given[k + 1] : g[3] = h[3] => g = h
  BY <1>1, <1>3, <1>5 DEF Fenced
<1>9. \A g, h \in given[k + 1] : g[3] = h[3] => g = h
  BY <1>1, <1>3, <1>4, <1>5 DEF Fenced
<1>10. \A i, j \in 0 .. k + 1 : \A g \in given[i], h \in given[j] : g[3] = h[3] => g = h
  <2> SUFFICES ASSUME NEW i \in 0 .. k + 1, NEW j \in 0 .. k + 1,
                      NEW g \in given[i], NEW h \in given[j], g[3] = h[3]
               PROVE  g = h
    OBVIOUS
  <2>1. CASE i \in 0 .. k /\ j \in 0 .. k
    BY <2>1 DEF Fenced
  <2>2. CASE i \in 0 .. k /\ j = k + 1
    BY <1>8, <2>2
  <2>3. CASE i = k + 1 /\ j \in 0 .. k
    BY <1>8, <2>3
  <2>4. CASE i = k + 1 /\ j = k + 1
    BY <1>9, <2>4
  <2> QED  BY <1>2, <2>1, <2>2, <2>3, <2>4
<1> QED  BY <1>6, <1>7, <1>10 DEF Fenced

(* The shape of a table: a map on the names and a counter.                 *)
LockRecords(t) ==
    /\ t = [locks |-> t.locks, next |-> t.next]
    /\ t.next \in Nat
    /\ t.locks = [nm \in Name |-> t.locks[nm]]

LeaseRecords(t) ==
    /\ t = [leases |-> t.leases, next |-> t.next]
    /\ t.next \in Nat
    /\ t.leases = [nm \in Name |-> t.leases[nm]]

(* A table u after t: shaped like it, and no grant but t's or a new one.   *)
LocksFollow(t, u) == LockRecords(u) /\ Gives(t.next, LocksGiven(t), u.next, LocksGiven(u))
LeasesFollow(t, u) == LeaseRecords(u) /\ Gives(t.next, LeasesGiven(t), u.next, LeasesGiven(u))

LEMMA LocksSame ==
    ASSUME NEW t, LockRecords(t) PROVE LocksFollow(t, t)
  BY DEF LocksFollow, Gives

LEMMA LocksDrop ==
    ASSUME NEW t, NEW nm, LockRecords(t) PROVE LocksFollow(t, Locks!Drop(t, nm))
<1> DEFINE u == Locks!Drop(t, nm)
<1>1. /\ u = [locks |-> u.locks, next |-> u.next] /\ u.next = t.next
      /\ u.locks = [b \in Name |-> IF b = nm THEN NoGrant ELSE t.locks[b]]
  BY SMTT(60) DEF LockRecords, Locks!Drop
<1>2. LockRecords(u)
  BY <1>1 DEF LockRecords
<1>3. \A b \in Locks!Held(u) : b \in Locks!Held(t) /\ u.locks[b] = t.locks[b]
  BY <1>1 DEF Locks!Held
<1>4. LocksGiven(u) \subseteq LocksGiven(t)
  BY <1>3 DEF LocksGiven
<1> QED  BY <1>1, <1>2, <1>4 DEF LocksFollow, Gives

LEMMA LocksRefresh ==
    ASSUME NEW t, NEW nm, NEW dl, NEW ttl, LockRecords(t), t.locks[nm] # NoGrant
    PROVE  LocksFollow(t, Locks!Refresh(t, nm, dl, ttl))
<1> DEFINE u == Locks!Refresh(t, nm, dl, ttl)
<1> DEFINE r == [holder |-> t.locks[nm].holder, token |-> t.locks[nm].token, deadline |-> dl, ttl |-> ttl]
<1>1. /\ u = [locks |-> u.locks, next |-> u.next] /\ u.next = t.next
      /\ u.locks = [b \in Name |-> IF b = nm THEN r ELSE t.locks[b]]
  BY SMTT(60) DEF LockRecords, Locks!Refresh
<1>2. LockRecords(u)
  BY <1>1 DEF LockRecords
<1>3. \A b \in Locks!Held(u) : /\ b \in Locks!Held(t)
                               /\ u.locks[b].holder = t.locks[b].holder
                               /\ u.locks[b].token = t.locks[b].token
  BY SMTT(60), <1>1 DEF Locks!Held
<1>4. LocksGiven(u) \subseteq LocksGiven(t)
  BY <1>3 DEF LocksGiven
<1> QED  BY <1>1, <1>2, <1>4 DEF LocksFollow, Gives

LEMMA LocksNew ==
    ASSUME NEW t, NEW nm, NEW h, NEW dl, NEW ttl, LockRecords(t)
    PROVE  LocksFollow(t, Locks!NewGrant(t, nm, h, dl, ttl))
<1> DEFINE u == Locks!NewGrant(t, nm, h, dl, ttl)
<1> DEFINE r == [holder |-> h, token |-> t.next + 1, deadline |-> dl, ttl |-> ttl]
<1>1. /\ u = [locks |-> u.locks, next |-> u.next] /\ u.next = t.next + 1
      /\ u.locks = [b \in Name |-> IF b = nm THEN r ELSE t.locks[b]]
  BY SMTT(60) DEF LockRecords, Locks!NewGrant
<1>2. LockRecords(u)
  BY SMTT(60), <1>1 DEF LockRecords
<1>3. r.holder = h /\ r.token = t.next + 1 /\ <<nm, h, t.next + 1>>[3] = t.next + 1
  OBVIOUS
<1>4. \A b \in Locks!Held(u) : \/ b \in Locks!Held(t) /\ u.locks[b] = t.locks[b]
                               \/ b = nm /\ u.locks[b] = r
  BY <1>1 DEF Locks!Held
<1>5. LocksGiven(u) \subseteq LocksGiven(t) \cup {<<nm, h, t.next + 1>>}
  BY <1>3, <1>4 DEF LocksGiven
<1> QED  BY <1>1, <1>2, <1>3, <1>5 DEF LocksFollow, Gives

LEMMA ApplyLocksFollows ==
    ASSUME NEW t, NEW c, LockRecords(t) PROVE LocksFollow(t, ApplyLocks(t, c))
<1>1. CASE c.kind = "lock_acquire"
  <2>1. \/ ApplyLocks(t, c) \in {t, Locks!NewGrant(t, c.name, c.id, c.deadline, c.ttl)}
        \/ t.locks[c.name] # NoGrant /\ ApplyLocks(t, c) = Locks!Refresh(t, c.name, c.deadline, c.ttl)
    BY <1>1 DEF ApplyLocks, Locks!Acquire
  <2> QED  BY <2>1, LocksSame, LocksNew, LocksRefresh
<1>2. CASE c.kind = "lock_release"
  <2>1. ApplyLocks(t, c) \in {t, Locks!Drop(t, c.name)}
    BY <1>2 DEF ApplyLocks, Locks!Release
  <2> QED  BY <2>1, LocksSame, LocksDrop
<1>3. CASE c.kind = "lock_renew"
  <2>1. \/ ApplyLocks(t, c) = t
        \/ t.locks[c.name] # NoGrant /\ ApplyLocks(t, c) = Locks!Refresh(t, c.name, c.deadline, c.ttl)
    BY <1>3 DEF ApplyLocks, Locks!Renew, Locks!Matches, Locks!HeldBy
  <2> QED  BY <2>1, LocksSame, LocksRefresh
<1>4. CASE c.kind = "lock_expire"
  <2>1. ApplyLocks(t, c) \in {t, Locks!Drop(t, c.name)}
    BY <1>4 DEF ApplyLocks, Locks!Expire
  <2> QED  BY <2>1, LocksSame, LocksDrop
<1>5. CASE c.kind \notin {"lock_acquire", "lock_release", "lock_renew", "lock_expire"}
  <2>1. ApplyLocks(t, c) = t
    BY <1>5 DEF ApplyLocks
  <2> QED  BY <2>1, LocksSame
<1> QED  BY <1>1, <1>2, <1>3, <1>4, <1>5

LEMMA LeasesSame ==
    ASSUME NEW t, LeaseRecords(t) PROVE LeasesFollow(t, t)
  BY DEF LeasesFollow, Gives

LEMMA LeasesDrop ==
    ASSUME NEW t, NEW nm, LeaseRecords(t) PROVE LeasesFollow(t, Leases!Drop(t, nm))
<1> DEFINE u == Leases!Drop(t, nm)
<1>1. /\ u = [leases |-> u.leases, next |-> u.next] /\ u.next = t.next
      /\ u.leases = [b \in Name |-> IF b = nm THEN NoGrant ELSE t.leases[b]]
  BY SMTT(60) DEF LeaseRecords, Leases!Drop
<1>2. LeaseRecords(u)
  BY <1>1 DEF LeaseRecords
<1>3. \A b \in Leases!Held(u) : b \in Leases!Held(t) /\ u.leases[b] = t.leases[b]
  BY <1>1 DEF Leases!Held
<1>4. LeasesGiven(u) \subseteq LeasesGiven(t)
  BY <1>3 DEF LeasesGiven
<1> QED  BY <1>1, <1>2, <1>4 DEF LeasesFollow, Gives

LEMMA LeasesRefresh ==
    ASSUME NEW t, NEW nm, NEW dl, NEW ttl, LeaseRecords(t), t.leases[nm] # NoGrant
    PROVE  LeasesFollow(t, Leases!Refresh(t, nm, dl, ttl))
<1> DEFINE u == Leases!Refresh(t, nm, dl, ttl)
<1> DEFINE r == [owner |-> t.leases[nm].owner, token |-> t.leases[nm].token, deadline |-> dl, ttl |-> ttl]
<1>1. /\ u = [leases |-> u.leases, next |-> u.next] /\ u.next = t.next
      /\ u.leases = [b \in Name |-> IF b = nm THEN r ELSE t.leases[b]]
  BY SMTT(60) DEF LeaseRecords, Leases!Refresh
<1>2. LeaseRecords(u)
  BY <1>1 DEF LeaseRecords
<1>3. \A b \in Leases!Held(u) : /\ b \in Leases!Held(t)
                               /\ u.leases[b].owner = t.leases[b].owner
                               /\ u.leases[b].token = t.leases[b].token
  BY SMTT(60), <1>1 DEF Leases!Held
<1>4. LeasesGiven(u) \subseteq LeasesGiven(t)
  BY <1>3 DEF LeasesGiven
<1> QED  BY <1>1, <1>2, <1>4 DEF LeasesFollow, Gives

LEMMA LeasesNew ==
    ASSUME NEW t, NEW nm, NEW o, NEW dl, NEW ttl, LeaseRecords(t)
    PROVE  LeasesFollow(t, [leases |-> [t.leases EXCEPT ![nm] = [owner |-> o, token |-> t.next + 1,
                                                                 deadline |-> dl, ttl |-> ttl]],
                            next   |-> t.next + 1])
<1> DEFINE r == [owner |-> o, token |-> t.next + 1, deadline |-> dl, ttl |-> ttl]
<1> DEFINE u == [leases |-> [t.leases EXCEPT ![nm] = r], next |-> t.next + 1]
<1>1. /\ u = [leases |-> u.leases, next |-> u.next] /\ u.next = t.next + 1
      /\ u.leases = [b \in Name |-> IF b = nm THEN r ELSE t.leases[b]]
  BY SMTT(60) DEF LeaseRecords
<1>2. r.owner = o /\ r.token = t.next + 1 /\ <<nm, o, t.next + 1>>[3] = t.next + 1
  OBVIOUS
<1>3. \A b \in Leases!Held(u) : \/ b \in Leases!Held(t) /\ u.leases[b] = t.leases[b]
                                \/ b = nm /\ u.leases[b] = r
  BY <1>1 DEF Leases!Held
<1>4. LeaseRecords(u)
  <2>1. u.next \in Nat
    BY SMTT(60), <1>1 DEF LeaseRecords
  <2> HIDE DEF u, r
  <2> QED  BY <1>1, <2>1 DEF LeaseRecords
<1>5. LeasesGiven(u) \subseteq LeasesGiven(t) \cup {<<nm, o, t.next + 1>>}
  <2> HIDE DEF u, r
  <2> QED  BY <1>2, <1>3 DEF LeasesGiven
<1>6. Gives(t.next, LeasesGiven(t), u.next, LeasesGiven(u))
  BY <1>1, <1>2, <1>5 DEF Gives
<1> QED  BY <1>4, <1>6 DEF LeasesFollow

LEMMA ApplyLeasesFollows ==
    ASSUME NEW t, NEW c, LeaseRecords(t) PROVE LeasesFollow(t, ApplyLeases(t, c))
<1>1. CASE c.kind = "lease_grant"
  <2> DEFINE u == Leases!Grant(t, c.name, c.id, c.deadline, c.ttl)
  <2>1. ApplyLeases(t, c) = u
    BY <1>1 DEF ApplyLeases
  <2>2. CASE Leases!OwnedBy(t, c.name, c.id)
    <3>1. u = Leases!Refresh(t, c.name, c.deadline, c.ttl) /\ t.leases[c.name] # NoGrant
      BY <2>2 DEF Leases!Grant, Leases!OwnedBy, Leases!Grantable
    <3> QED  BY <2>1, <3>1, LeasesRefresh
  <2>3. CASE ~Leases!OwnedBy(t, c.name, c.id) /\ Leases!Grantable(t, c.name)
    <3>1. u = [leases |-> [t.leases EXCEPT ![c.name] = [owner |-> c.id, token |-> t.next + 1,
                                                        deadline |-> c.deadline, ttl |-> c.ttl]],
               next   |-> t.next + 1]
      BY <2>3 DEF Leases!Grant
    <3> QED  BY SMTT(60), <2>1, <3>1, LeasesNew
  <2>4. CASE ~Leases!OwnedBy(t, c.name, c.id) /\ ~Leases!Grantable(t, c.name)
    <3>1. u = t
      BY <2>4 DEF Leases!Grant
    <3> QED  BY <2>1, <3>1, LeasesSame
  <2> QED  BY <2>2, <2>3, <2>4
<1>2. CASE c.kind = "lease_renew"
  <2>1. \/ ApplyLeases(t, c) = t
        \/ t.leases[c.name] # NoGrant /\ ApplyLeases(t, c) = Leases!Refresh(t, c.name, c.deadline, c.ttl)
    BY <1>2 DEF ApplyLeases, Leases!Renew, Leases!Matches, Leases!OwnedBy
  <2> QED  BY <2>1, LeasesSame, LeasesRefresh
<1>3. CASE c.kind = "lease_revoke"
  <2>1. ApplyLeases(t, c) \in {t, Leases!Drop(t, c.name)}
    BY <1>3 DEF ApplyLeases, Leases!Revoke
  <2> QED  BY <2>1, LeasesSame, LeasesDrop
<1>4. CASE c.kind = "lease_expire"
  <2>1. ApplyLeases(t, c) \in {t, Leases!Drop(t, c.name)}
    BY <1>4 DEF ApplyLeases, Leases!Expire
  <2> QED  BY <2>1, LeasesSame, LeasesDrop
<1>5. CASE c.kind \notin {"lease_grant", "lease_renew", "lease_revoke", "lease_expire"}
  <2>1. ApplyLeases(t, c) = t
    BY <1>5 DEF ApplyLeases
  <2> QED  BY <2>1, LeasesSame
<1> QED  BY <1>1, <1>2, <1>3, <1>4, <1>5

LockCounter == [i \in 0 .. Len(log) |-> hist[i].locks.next]
LockHistory == [i \in 0 .. Len(log) |-> LocksGiven(hist[i].locks)]
LeaseCounter == [i \in 0 .. Len(log) |-> hist[i].leases.next]
LeaseHistory == [i \in 0 .. Len(log) |-> LeasesGiven(hist[i].leases)]

(* The tables of the log give each token once.                             *)
TokenInv ==
    /\ \A i \in 0 .. Len(log) : LockRecords(hist[i].locks) /\ LeaseRecords(hist[i].leases)
    /\ Fenced(Len(log), LockCounter, LockHistory)
    /\ Fenced(Len(log), LeaseCounter, LeaseHistory)

LEMMA InitTokens == Init => TokenInv
<1> SUFFICES ASSUME Init PROVE TokenInv
  OBVIOUS
<1>1. Len(log) = 0 /\ 0 .. Len(log) = {0} /\ hist[0] = Initial
  BY SMTT(60) DEF Init
<1>2. /\ LockRecords(Locks!EmptyTable) /\ Locks!EmptyTable.next = 0
      /\ Locks!Held(Locks!EmptyTable) = {} /\ LocksGiven(Locks!EmptyTable) = {}
  BY SMTT(60) DEF LockRecords, LocksGiven, Locks!EmptyTable, Locks!Held
<1>3. /\ LeaseRecords(Leases!EmptyTable) /\ Leases!EmptyTable.next = 0
      /\ Leases!Held(Leases!EmptyTable) = {} /\ LeasesGiven(Leases!EmptyTable) = {}
  BY SMTT(60) DEF LeaseRecords, LeasesGiven, Leases!EmptyTable, Leases!Held
<1>4. Initial.locks = Locks!EmptyTable /\ Initial.leases = Leases!EmptyTable
  BY DEF Initial
<1>5. LockCounter[0] = 0 /\ LockHistory[0] = {} /\ LeaseCounter[0] = 0 /\ LeaseHistory[0] = {}
  BY <1>1, <1>2, <1>3, <1>4 DEF LockCounter, LockHistory, LeaseCounter, LeaseHistory
<1>6. Fenced(0, LockCounter, LockHistory) /\ Fenced(0, LeaseCounter, LeaseHistory)
  BY SMTT(60), <1>5 DEF Fenced
<1> QED  BY <1>1, <1>2, <1>3, <1>4, <1>6 DEF TokenInv

(* Two histories that agree up to k are fenced up to k together.           *)
LEMMA FencedSame ==
    ASSUME NEW k \in Nat, NEW next, NEW given, NEW next2, NEW given2, Fenced(k, next, given),
           \A i \in 0 .. k : next2[i] = next[i] /\ given2[i] = given[i]
    PROVE  Fenced(k, next2, given2)
  BY DEF Fenced

LEMMA NextTokens == IInv /\ TokenInv /\ [Next]_vars => TokenInv'
<1> SUFFICES ASSUME IInv, TokenInv, [Next]_vars PROVE TokenInv'
  OBVIOUS
<1>0. log \in Seq(Command) /\ Len(log) \in Nat
  BY SMTT(60) DEF IInv, Shape
<1>1. ASSUME NEW c \in Command, Commit(c) PROVE TokenInv'
  <2> DEFINE k == Len(log)
  <2>1. Len(log') = k + 1 /\ \A i \in 0 .. k : hist'[i] = hist[i]
    BY SMTT(60), <1>0, <1>1 DEF Commit
  <2>2. /\ hist'[k + 1].locks = ApplyLocks(hist[k].locks, c)
        /\ hist'[k + 1].leases = ApplyLeases(hist[k].leases, c)
    BY SMTT(60), <1>0, <1>1 DEF Commit
  <2>3. k \in 0 .. k /\ k + 1 \in 0 .. k + 1 /\ \A i \in 0 .. k + 1 : i \in 0 .. k \/ i = k + 1
    BY SMTT(60), <1>0
  <2>4. /\ LocksFollow(hist[k].locks, hist'[k + 1].locks)
        /\ LeasesFollow(hist[k].leases, hist'[k + 1].leases)
    BY <2>2, <2>3, ApplyLocksFollows, ApplyLeasesFollows DEF TokenInv
  <2>5. \A i \in 0 .. k + 1 : LockRecords(hist'[i].locks) /\ LeaseRecords(hist'[i].leases)
    BY <2>1, <2>3, <2>4 DEF TokenInv, LocksFollow, LeasesFollow
  <2>6. \A i \in 0 .. k :
           /\ LockCounter'[i] = LockCounter[i] /\ LockHistory'[i] = LockHistory[i]
           /\ LeaseCounter'[i] = LeaseCounter[i] /\ LeaseHistory'[i] = LeaseHistory[i]
    <3> SUFFICES ASSUME NEW i \in 0 .. k
                 PROVE  /\ LockCounter'[i] = LockCounter[i] /\ LockHistory'[i] = LockHistory[i]
                        /\ LeaseCounter'[i] = LeaseCounter[i] /\ LeaseHistory'[i] = LeaseHistory[i]
      OBVIOUS
    <3>1. i \in 0 .. k + 1
      BY SMTT(60), <1>0
    <3> QED  BY <2>1, <3>1 DEF LockCounter, LockHistory, LeaseCounter, LeaseHistory, LocksGiven,
                LeasesGiven, Locks!Held, Leases!Held
  <2>7. /\ Gives(LockCounter[k], LockHistory[k], LockCounter'[k + 1], LockHistory'[k + 1])
        /\ Gives(LeaseCounter[k], LeaseHistory[k], LeaseCounter'[k + 1], LeaseHistory'[k + 1])
    <3>1. /\ LockCounter[k] = hist[k].locks.next /\ LockHistory[k] = LocksGiven(hist[k].locks)
          /\ LeaseCounter[k] = hist[k].leases.next /\ LeaseHistory[k] = LeasesGiven(hist[k].leases)
      BY <2>3 DEF LockCounter, LockHistory, LeaseCounter, LeaseHistory
    <3>2. /\ LockCounter'[k + 1] = hist'[k + 1].locks.next
          /\ LockHistory'[k + 1] = LocksGiven(hist'[k + 1].locks)
          /\ LeaseCounter'[k + 1] = hist'[k + 1].leases.next
          /\ LeaseHistory'[k + 1] = LeasesGiven(hist'[k + 1].leases)
      BY <2>1, <2>3 DEF LockCounter, LockHistory, LeaseCounter, LeaseHistory, LocksGiven,
         LeasesGiven, Locks!Held, Leases!Held
    <3> QED  BY <2>4, <3>1, <3>2 DEF LocksFollow, LeasesFollow
  <2>8. Fenced(k, LockCounter', LockHistory') /\ Fenced(k, LeaseCounter', LeaseHistory')
    BY <1>0, <2>6, FencedSame DEF TokenInv
  <2>9. Fenced(k + 1, LockCounter', LockHistory') /\ Fenced(k + 1, LeaseCounter', LeaseHistory')
    <3>1. /\ LockCounter'[k] = LockCounter[k] /\ LockHistory'[k] = LockHistory[k]
          /\ LeaseCounter'[k] = LeaseCounter[k] /\ LeaseHistory'[k] = LeaseHistory[k]
      BY <2>3, <2>6
    <3>2. /\ Gives(LockCounter'[k], LockHistory'[k], LockCounter'[k + 1], LockHistory'[k + 1])
          /\ Gives(LeaseCounter'[k], LeaseHistory'[k], LeaseCounter'[k + 1], LeaseHistory'[k + 1])
      BY <2>7, <3>1
    <3> HIDE DEF k
    <3>3. k \in Nat
      BY <1>0 DEF k
    <3> QED  BY <2>8, <3>2, <3>3, FencedStep
  <2>10. (\A i \in 0 .. Len(log) : LockRecords(hist[i].locks) /\ LeaseRecords(hist[i].leases))'
    BY <2>1, <2>5 DEF LockRecords, LeaseRecords, Leases!Held
  <2>11. Fenced(Len(log), LockCounter, LockHistory)' /\ Fenced(Len(log), LeaseCounter, LeaseHistory)'
    BY <2>1, <2>9 DEF Fenced
  <2> QED  BY <2>10, <2>11 DEF TokenInv
<1>2. ASSUME UNCHANGED <<log, hist>> PROVE TokenInv'
  <2>1. /\ LockCounter' = LockCounter /\ LockHistory' = LockHistory
        /\ LeaseCounter' = LeaseCounter /\ LeaseHistory' = LeaseHistory
    BY <1>2 DEF LockCounter, LockHistory, LeaseCounter, LeaseHistory, LocksGiven, LeasesGiven,
       Locks!Held, Leases!Held
  <2>2. (\A i \in 0 .. Len(log) : LockRecords(hist[i].locks) /\ LeaseRecords(hist[i].leases))'
    BY <1>2 DEF TokenInv, LockRecords, LeaseRecords, Leases!Held
  <2>3. Fenced(Len(log), LockCounter, LockHistory)' /\ Fenced(Len(log), LeaseCounter, LeaseHistory)'
    BY SMTT(60), <1>2, <2>1 DEF TokenInv, Fenced
  <2> QED  BY <2>2, <2>3 DEF TokenInv
<1>3. (\E c \in Command : Commit(c)) \/ UNCHANGED <<log, hist>>
  BY DEF Next, vars, ApplyEntry, TakeSnapshot, InstallSnapshot, Crash, Restart
<1> QED  BY <1>1, <1>2, <1>3

(* Table.Restore brings back the counter with the grants, and Table.Grant  *)
(* and Table.Acquire advance it: on no two nodes, at no two times and      *)
(* through no snapshot does one token stand for two grants.                *)
THEOREM TokensNeverReused == Spec => []TokensNameOneGrant
<1>1. IInv /\ TokenInv => TokensNameOneGrant
  <2> SUFFICES ASSUME IInv, TokenInv, NEW n \in Node, NEW m \in Node
               PROVE  /\ \A g \in LocksGiven(locks[n]), h \in LocksGiven(locks[m]) :
                            g[3] = h[3] => g = h
                      /\ \A g \in LeasesGiven(leases[n]), h \in LeasesGiven(leases[m]) :
                            g[3] = h[3] => g = h
    BY DEF TokensNameOneGrant
  <2>1. applied[n] \in 0 .. Len(log) /\ applied[m] \in 0 .. Len(log)
    BY DEF IInv, Shape
  <2>2. /\ LocksGiven(locks[n]) = LockHistory[applied[n]]
        /\ LocksGiven(locks[m]) = LockHistory[applied[m]]
        /\ LeasesGiven(leases[n]) = LeaseHistory[applied[n]]
        /\ LeasesGiven(leases[m]) = LeaseHistory[applied[m]]
    BY <2>1 DEF IInv, TablesAgree, LockHistory, LeaseHistory
  <2> QED  BY SMTT(60), <2>1, <2>2 DEF TokenInv, Fenced
<1>2. Spec => []TokenInv
  BY InitTokens, NextTokens, Invariance, PTL DEF Spec
<1> QED
  BY <1>1, <1>2, Invariance, PTL

================================================================================
