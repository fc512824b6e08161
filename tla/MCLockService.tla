----------------------------- MODULE MCLockService -----------------------------
(* Small instances of LockService for TLC.                                 *)
EXTENDS LockService, TLC

CONSTANTS n1, n2, o1, c1, c2, a, b

(* c2 talks to an observer.                                                *)
ObserverHome == c1 :> n1 @@ c2 :> o1
(* Both send a holder of their own.                                        *)
OwnHolders == c1 :> a @@ c2 :> b
(* Only TryLock asks for a TTL.                                            *)
OneAsks == [Lock |-> {0}, TryLock |-> {2}, Unlock |-> {0}, Renew |-> {0}]
(* Neither sends one.                                                      *)
NoHolders == c1 :> NoHolder @@ c2 :> NoHolder

================================================================================
