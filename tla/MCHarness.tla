-------------------------------- MODULE MCHarness ------------------------------
(* Three core nodes: the smallest group both tools accept.                 *)
EXTENDS Harness

CONSTANTS n1, n2, n3

MCCore == <<n1, n2, n3>>

================================================================================
