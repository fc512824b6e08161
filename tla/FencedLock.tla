-------------------------------- MODULE FencedLock -----------------------------
(***************************************************************************)
(* What the locks promise their clients, without nodes, logs and clocks: a *)
(* name has one grant at a time, every grant gets the next token, and a    *)
(* grant ends only when its holder asked for that or let a deadline pass.  *)
(***************************************************************************)
EXTENDS Naturals

CONSTANTS Name, Holder, NoLock

VARIABLES
    grant,   \* each name: its grant or NoLock
    next,    \* the newest token
    asked,   \* grants whose own holder has released them
    late     \* tokens for which a deadline has passed

vars == <<grant, next, asked, late>>

Init ==
    /\ grant = [nm \in Name |-> NoLock]
    /\ next = 0
    /\ asked = {}
    /\ late = {}

(* Releases are sent and time passes whatever else happens.                *)
Grows == asked \subseteq asked' /\ late \subseteq late'

Grant(nm, h) ==
    /\ grant[nm] = NoLock
    /\ next' = next + 1
    /\ grant' = [grant EXCEPT ![nm] = [name |-> nm, holder |-> h, token |-> next']]

End(nm) ==
    /\ grant[nm] # NoLock
    /\ grant[nm] \in asked' \/ grant[nm].token \in late
    /\ grant' = [grant EXCEPT ![nm] = NoLock]
    /\ UNCHANGED next

Next ==
    /\ Grows
    /\ \/ \E nm \in Name, h \in Holder : Grant(nm, h)
       \/ \E nm \in Name : End(nm)
       \/ UNCHANGED <<grant, next>>

Spec == Init /\ [][Next]_vars

================================================================================
