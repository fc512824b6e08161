------------------------------- MODULE LeaseTable ------------------------------
(***************************************************************************)
(* The lease table of internal/leases/table.go as operators on one table:  *)
(* named TTL grants with one owner each.  Unlike the lock table it emits   *)
(* an event when a grant appears or ends, and nothing waits on it.         *)
(*                                                                         *)
(* Abstractions as in LockTable: valid names, non-empty owners, no         *)
(* GrantedAt, deadline 0 for Go's zero time.                               *)
(***************************************************************************)
EXTENDS Naturals, FiniteSets

CONSTANTS
    Name,          \* lease names
    Owner,         \* owner ids
    NoLease,       \* the name is absent from the map
    MaxLeases,     \* table size limit
    MinTTL, DefaultTTL, MaxTTL

Record == [owner : Owner, token : Nat, deadline : Nat, ttl : 0 .. MaxTTL]

Table == [leases : [Name -> Record \cup {NoLease}], next : Nat]

EmptyTable == [leases |-> [nm \in Name |-> NoLease], next |-> 0]

Held(t) == {nm \in Name : t.leases[nm] # NoLease}

OwnedBy(t, nm, o) == t.leases[nm] # NoLease /\ t.leases[nm].owner = o

Matches(t, nm, o, tok) == OwnedBy(t, nm, o) /\ t.leases[nm].token = tok

ClampTTL(requested, fallback) ==
    LET r == IF requested > 0 THEN requested
             ELSE IF fallback > 0 THEN fallback ELSE DefaultTTL
    IN  IF r < MinTTL THEN MinTTL ELSE IF r > MaxTTL THEN MaxTTL ELSE r

--------------------------------------------------------------------------------

Refresh(t, nm, dl, ttl) ==
    [t EXCEPT !.leases = [@ EXCEPT ![nm] = [owner    |-> t.leases[nm].owner,
                                            token    |-> t.leases[nm].token,
                                            deadline |-> dl,
                                            ttl      |-> ttl]]]

Drop(t, nm) == [t EXCEPT !.leases = [@ EXCEPT ![nm] = NoLease]]

(* A name nobody holds can be granted while the table has room.            *)
Grantable(t, nm) == t.leases[nm] = NoLease /\ Cardinality(Held(t)) < MaxLeases

Grant(t, nm, o, dl, ttl) ==
    CASE OwnedBy(t, nm, o) -> Refresh(t, nm, dl, ttl)
      [] Grantable(t, nm)  ->
            [leases |-> [t.leases EXCEPT ![nm] = [owner    |-> o,
                                                  token    |-> t.next + 1,
                                                  deadline |-> dl,
                                                  ttl      |-> ttl]],
             next   |-> t.next + 1]
      [] OTHER -> t

Renew(t, nm, o, tok, dl, ttl) ==
    IF Matches(t, nm, o, tok) THEN Refresh(t, nm, dl, ttl) ELSE t

Revoke(t, nm, o, tok) ==
    IF Matches(t, nm, o, tok) THEN Drop(t, nm) ELSE t

(* Only the token is compared.                                             *)
Expirable(t, nm, tok) == t.leases[nm] # NoLease /\ t.leases[nm].token = tok

Expire(t, nm, tok) == IF Expirable(t, nm, tok) THEN Drop(t, nm) ELSE t

Due(t, now) ==
    {nm \in Held(t) : t.leases[nm].deadline # 0 /\ t.leases[nm].deadline <= now}

================================================================================
