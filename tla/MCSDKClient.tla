------------------------------- MODULE MCSDKClient -----------------------------
(* Small instances of SDKClient for TLC.                                   *)
EXTENDS SDKClient, TLC

CONSTANTS c1, c2, t1, t2, t3

(* Two goroutines share c1, or each connection has its own.                *)
SharedConn == t1 :> c1 @@ t2 :> c1 @@ t3 :> c2
OwnConn == t1 :> c1 @@ t2 :> c2

OneTimeoutEach == [lock |-> 1, unlock |-> 1, close |-> 1]

================================================================================
