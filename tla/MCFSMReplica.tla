----------------------------- MODULE MCFSMReplica ------------------------------
(* Small instances of FSMReplica for TLC.                                  *)
EXTENDS FSMReplica

CONSTANTS n1, n2, a, b, h1, h2

(* Both kinds of grant on one name, the other name competing for the last  *)
(* place in the table, and every use of the first token there is.          *)
GrantCommands(take, give, renew, expire) ==
    {[kind |-> take, name |-> g[1], id |-> g[2], deadline |-> 1, ttl |-> 1] :
        g \in {<<a, h1>>, <<b, h2>>}}
        \cup {[kind |-> give, name |-> a, id |-> h1, token |-> 1],
              [kind |-> renew, name |-> a, id |-> h1, token |-> 1, deadline |-> 2, ttl |-> 2],
              [kind |-> expire, name |-> a, token |-> 1]}

(* One member comes, goes and dies; the nodes see it as itself and as the  *)
(* other.                                                                  *)
MemberCommands ==
    [kind : {"add_member"}, id : {n2}, role : {"observer", ""}]
        \cup [kind : {"remove_member", "drop_member"}, id : {n2}]

AllCommands ==
    GrantCommands("lock_acquire", "lock_release", "lock_renew", "lock_expire")
        \cup GrantCommands("lease_grant", "lease_revoke", "lease_renew", "lease_expire")
        \cup MemberCommands

================================================================================
