----------------------------- MODULE MCLockGrants ------------------------------
(* Small instances of LockGrants for TLC.                                  *)
EXTENDS LockGrants, TLC

CONSTANTS n1, n2

(* n2's clock is one tick ahead.                                           *)
OneAhead == n1 :> 0 @@ n2 :> 1

================================================================================
