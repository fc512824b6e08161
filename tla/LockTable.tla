------------------------------- MODULE LockTable -------------------------------
(***************************************************************************)
(* The lock table of internal/locks/table.go as operators on one table.    *)
(* A table is mutated only by the Raft FSM; every operator below is the    *)
(* body of one method, run under the table's mutex.                        *)
(*                                                                         *)
(* Abstractions: a name is always valid (ValidName is a syntactic filter   *)
(* the services run first) and a holder is never empty; AcquiredAt, which  *)
(* no operation reads, is left out; time is a natural number and deadline  *)
(* 0 is Go's zero time ("no expiry").                                      *)
(*                                                                         *)
(* A definition introduced as a slip is its successor with a mistake a     *)
(* maintainer could make; nothing uses it but the sensitivity runs.        *)
(***************************************************************************)
EXTENDS Naturals, FiniteSets

CONSTANTS
    Name,          \* lock names
    Holder,        \* holder ids
    NoLock,        \* the name is absent from the map
    MaxLocks,      \* table size limit
    MinTTL, DefaultTTL, MaxTTL

ASSUME TTLAssumption ==
    /\ MinTTL \in Nat \ {0}
    /\ DefaultTTL \in Nat
    /\ MaxTTL \in Nat
    /\ MinTTL <= DefaultTTL
    /\ DefaultTTL <= MaxTTL

Record == [holder : Holder, token : Nat, deadline : Nat, ttl : 0 .. MaxTTL]

ASSUME NoLockAssumption == NoLock \notin Record

Table == [locks : [Name -> Record \cup {NoLock}], next : Nat]

EmptyTable == [locks |-> [nm \in Name |-> NoLock], next |-> 0]

Held(t) == {nm \in Name : t.locks[nm] # NoLock}

HeldBy(t, nm, h) == t.locks[nm] # NoLock /\ t.locks[nm].holder = h

(* Release and Renew act only on the grant the caller names.               *)
Matches(t, nm, h, tok) == HeldBy(t, nm, h) /\ t.locks[nm].token = tok

--------------------------------------------------------------------------------

(* A requested TTL of 0 (the client sent none) becomes the fallback, then  *)
(* the default; the result is within [MinTTL, MaxTTL].                     *)
ClampTTL(requested, fallback) ==
    LET r == IF requested > 0 THEN requested
             ELSE IF fallback > 0 THEN fallback ELSE DefaultTTL
    IN  IF r < MinTTL THEN MinTTL ELSE IF r > MaxTTL THEN MaxTTL ELSE r

(* Refreshing keeps the token: the same holder asking again is idempotent. *)
Refresh(t, nm, dl, ttl) ==
    [t EXCEPT !.locks = [@ EXCEPT ![nm] = [holder   |-> t.locks[nm].holder,
                                           token    |-> t.locks[nm].token,
                                           deadline |-> dl,
                                           ttl      |-> ttl]]]

Drop(t, nm) == [t EXCEPT !.locks = [@ EXCEPT ![nm] = NoLock]]

(* Slip: the counter is read but not advanced.                             *)
NewGrantNoIncrement(t, nm, h, dl, ttl) ==
    [t EXCEPT !.locks = [@ EXCEPT ![nm] = [holder   |-> h,
                                           token    |-> t.next,
                                           deadline |-> dl,
                                           ttl      |-> ttl]]]

NewGrant(t, nm, h, dl, ttl) ==
    [locks |-> [t.locks EXCEPT ![nm] = [holder   |-> h,
                                        token    |-> t.next + 1,
                                        deadline |-> dl,
                                        ttl      |-> ttl]],
     next  |-> t.next + 1]

(* Slip: one grant too many.                                               *)
AcquireOverLimit(t, nm, h, dl, ttl) ==
    IF t.locks[nm] # NoLock
    THEN IF t.locks[nm].holder = h THEN Refresh(t, nm, dl, ttl) ELSE t
    ELSE IF Cardinality(Held(t)) > MaxLocks THEN t
    ELSE NewGrant(t, nm, h, dl, ttl)

(* Slip: an overdue grant is replaced without waiting for its expire.      *)
AcquireTakesOver(t, nm, h, dl, ttl) ==
    IF t.locks[nm] # NoLock /\ t.locks[nm].deadline > dl - ttl
    THEN IF t.locks[nm].holder = h THEN Refresh(t, nm, dl, ttl) ELSE t
    ELSE IF Cardinality(Held(t)) > MaxLocks THEN t
    ELSE NewGrant(t, nm, h, dl, ttl)

(* The call reports success exactly when HeldBy holds of the result.       *)
Acquire(t, nm, h, dl, ttl) ==
    IF t.locks[nm] # NoLock
    THEN IF t.locks[nm].holder = h THEN Refresh(t, nm, dl, ttl) ELSE t
    ELSE IF Cardinality(Held(t)) >= MaxLocks THEN t
    ELSE NewGrant(t, nm, h, dl, ttl)

Release(t, nm, h, tok) ==
    IF Matches(t, nm, h, tok) THEN Drop(t, nm) ELSE t

Renew(t, nm, h, tok, dl, ttl) ==
    IF Matches(t, nm, h, tok) THEN Refresh(t, nm, dl, ttl) ELSE t

(* Slip: whatever grant the name has now is dropped.                       *)
ExpireAnyToken(t, nm, tok) ==
    IF t.locks[nm] # NoLock THEN Drop(t, nm) ELSE t

(* Only the token is compared: the deadline is not looked at again.        *)
Expire(t, nm, tok) ==
    IF t.locks[nm] # NoLock /\ t.locks[nm].token = tok THEN Drop(t, nm) ELSE t

(* Slip: due one unit of time too early.                                   *)
DueEarly(t, now) ==
    {nm \in Held(t) : t.locks[nm].deadline # 0 /\ t.locks[nm].deadline <= now + 1}

(* Held locks whose deadline is set and not after now.                     *)
Due(t, now) ==
    {nm \in Held(t) : t.locks[nm].deadline # 0 /\ t.locks[nm].deadline <= now}

================================================================================
