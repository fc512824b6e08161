---------------------------------- MODULE FSM ----------------------------------
(***************************************************************************)
(* What one committed command does to a node (internal/consensus/fsm.go):  *)
(* to its member list (internal/membership/engine.go) and to its lock and  *)
(* lease tables.  The engine is a per-process object: it starts with the   *)
(* node itself as a member, and Restore writes into whatever is there.     *)
(*                                                                         *)
(* Abstractions: an address is determined by the id; JoinedAt, which is    *)
(* only displayed, and the leader flag, which SetLeader derives from Raft, *)
(* are left out; commands always decode.                                   *)
(***************************************************************************)
EXTENDS Naturals

CONSTANTS
    Node,                              \* ids of members
    NoMember,                          \* the id is absent from the list
    Name, Holder, NoGrant, MaxGrants,  \* shared by locks and leases
    MinTTL, DefaultTTL, MaxTTL

Locks == INSTANCE LockTable WITH NoLock <- NoGrant, MaxLocks <- MaxGrants

Leases == INSTANCE LeaseTable WITH Owner <- Holder, NoLease <- NoGrant, MaxLeases <- MaxGrants

--------------------------------------------------------------------------------
(* The member list.                                                        *)

Role == {"voter", "observer"}

Status == {"alive", "dead"}

Member == [role : Role, status : Status]

NormalizeRole(role) == IF role = "observer" THEN "observer" ELSE "voter"

NormalizeStatus(status) == IF status \in {"alive", ""} THEN "alive" ELSE "dead"

(* members: the list; dropped: ids removed by an operator's leave.         *)
Engine == [members : [Node -> Member \cup {NoMember}], dropped : SUBSET Node]

NoEngine == [members |-> [id \in Node |-> NoMember], dropped |-> {}]

NewEngine(self) ==
    [members |-> [id \in Node |-> IF id = self THEN [role |-> "voter", status |-> "alive"]
                                               ELSE NoMember],
     dropped |-> {}]

JoinAs(e, id, role) ==
    [members |-> [e.members EXCEPT ![id] = [role |-> NormalizeRole(role), status |-> "alive"]],
     dropped |-> e.dropped \ {id}]

MarkDead(e, id) ==
    IF e.members[id] = NoMember \/ NormalizeStatus(e.members[id].status) = "dead" THEN e
    ELSE [e EXCEPT !.members = [@ EXCEPT ![id] = [role   |-> e.members[id].role,
                                                  status |-> "dead"]]]

Leave(e, id) ==
    IF id \in e.dropped \/ e.members[id] = NoMember THEN e
    ELSE [members |-> [e.members EXCEPT ![id] = NoMember],
          dropped |-> e.dropped \cup {id}]

(* Slip: a snapshot's members are joined again instead of restored.        *)
RestoreMembersAlive(e, entries) ==
    [members |-> [id \in Node |-> IF entries[id] = NoMember THEN e.members[id]
                                  ELSE [role   |-> NormalizeRole(entries[id].role),
                                        status |-> "alive"]],
     dropped |-> {id \in e.dropped : entries[id] = NoMember}]

(* RestoreMember for each entry of a snapshot: the entries are written over *)
(* the list, and what the snapshot does not mention stays.                 *)
RestoreMembers(e, entries) ==
    [members |-> [id \in Node |-> IF entries[id] = NoMember THEN e.members[id]
                                  ELSE [role   |-> NormalizeRole(entries[id].role),
                                        status |-> NormalizeStatus(entries[id].status)]],
     dropped |-> {id \in e.dropped : entries[id] = NoMember}]

--------------------------------------------------------------------------------
(* FSM.Apply.                                                              *)

ApplyMembers(e, c) ==
    CASE c.kind = "add_member"    -> JoinAs(e, c.id, c.role)
      [] c.kind = "remove_member" -> MarkDead(e, c.id)
      [] c.kind = "drop_member"   -> Leave(e, c.id)
      [] OTHER -> e

ApplyLocks(t, c) ==
    CASE c.kind = "lock_acquire" -> Locks!Acquire(t, c.name, c.id, c.deadline, c.ttl)
      [] c.kind = "lock_release" -> Locks!Release(t, c.name, c.id, c.token)
      [] c.kind = "lock_renew"   -> Locks!Renew(t, c.name, c.id, c.token, c.deadline, c.ttl)
      [] c.kind = "lock_expire"  -> Locks!Expire(t, c.name, c.token)
      [] OTHER -> t

ApplyLeases(t, c) ==
    CASE c.kind = "lease_grant"  -> Leases!Grant(t, c.name, c.id, c.deadline, c.ttl)
      [] c.kind = "lease_renew"  -> Leases!Renew(t, c.name, c.id, c.token, c.deadline, c.ttl)
      [] c.kind = "lease_revoke" -> Leases!Revoke(t, c.name, c.id, c.token)
      [] c.kind = "lease_expire" -> Leases!Expire(t, c.name, c.token)
      [] OTHER -> t

(* Snapshot: the member list without the dropped ids, and both tables with *)
(* their counters.                                                         *)
SnapshotPayload(e, lk, ls) == [members |-> e.members, locks |-> lk, leases |-> ls]

(* Slip: the token counter is not part of the restored state.              *)
RestoreTableNoNext(payload) == [payload EXCEPT !.next = 0]

(* Table.Restore replaces the table.                                       *)
RestoreTable(payload) == payload

================================================================================
