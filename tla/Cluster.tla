--------------------------------- MODULE Cluster -------------------------------
(***************************************************************************)
(* Changing who is in the cluster: the Join, Leave, Promote and Rejoin     *)
(* handlers (internal/grpcserver/join.go), a node's announcement of itself *)
(* at start and on winning an election (internal/app/units.go), and the    *)
(* leader's liveness commits.                                              *)
(*                                                                         *)
(* Each handler is a sequence of Raft operations on two things that should *)
(* tell the same story: the Raft configuration and the member list the FSM *)
(* keeps.  Handlers of several requests interleave, and any Raft operation *)
(* may fail, with or without having taken effect.                          *)
(*                                                                         *)
(* The list is the committed one; replicas' lag is FSMReplica's subject.   *)
(* Tokens, certificates and input validation are left out.                 *)
(***************************************************************************)
EXTENDS Naturals, FiniteSets

CONSTANTS
    Node,          \* node ids
    Seed,          \* the node started with --bootstrap
    NoNode,
    NoMember,      \* the id is not on the list
    Request,       \* slots for requests in progress
    Op,            \* the requests operators and daemons make
    MaxRequests,   \* bounds: requests, leader changes, failed Raft
    MaxElections,  \*   operations, liveness commits
    MaxFailures,
    MaxDeaths

VARIABLES
    config,     \* config[n]: n's suffrage in the Raft configuration, or "none"
    members,    \* members[n]: n's row of the member list, or NoMember
    dropped,    \* ids that left
    leader,     \* the Raft leader, or NoNode
    announcing, \* nodes that won an election and have not yet added themselves
    req,        \* req[r]: the request in slot r
    accepted,   \* history: ids that have ever been in the configuration
    guests,     \* history: ids listed by a join that named no Raft address
    last,       \* history: the request that returned last
    used        \* how much of each bound is used up

vars == <<config, members, dropped, leader, announcing, req, accepted, guests, last, used>>

ASSUME SeedAssumption == Seed \in Node
ASSUME NoMemberAssumption == NoMember \notin [status : {"alive", "dead"}, role : {"voter", "observer"},
                                               addr : {"node", "grpc"}]
ASSUME OpAssumption == Op \subseteq {"Join", "JoinObserver", "Guest", "Promote", "Leave", "Rejoin"}

Free == [pc |-> "free"]

Voters(c) == {n \in Node : c[n] = "voter"}

Listed == {n \in Node : members[n] # NoMember}

(* The seed has bootstrapped the configuration; the log is empty.          *)
Init ==
    /\ config = [n \in Node |-> IF n = Seed THEN "voter" ELSE "none"]
    /\ members = [n \in Node |-> NoMember]
    /\ dropped = {}
    /\ leader = NoNode
    /\ announcing = {}
    /\ req = [r \in Request |-> Free]
    /\ accepted = {Seed}
    /\ guests = {}
    /\ last = Free
    /\ used = [requests |-> 0, elections |-> 0, failures |-> 0, deaths |-> 0]

Use(what) == used' = [used EXCEPT ![what] = @ + 1]

--------------------------------------------------------------------------------
(* The FSM's commands.                                                     *)

AddMember(id, addr, role) ==
    /\ members' = [members EXCEPT ![id] = [status |-> "alive", role |-> role, addr |-> addr]]
    /\ dropped' = dropped \ {id}

(* The row a request asks for.                                             *)
AddRequested(q) ==
    /\ AddMember(q.id, q.addr, q.role)
    /\ guests' = IF q.op = "Guest" THEN guests \cup {q.id} ELSE guests

DropMember(id) ==
    /\ members' = [members EXCEPT ![id] = NoMember]
    /\ dropped' = IF members[id] # NoMember THEN dropped \cup {id} ELSE dropped
    /\ guests' = guests \ {id}

(* Raft's own rules: adding a non-voter never demotes a voter, and the     *)
(* last voter cannot be removed.                                           *)
AddServer(id, suffrage) ==
    /\ config' = [config EXCEPT ![id] = IF @ = "voter" THEN @ ELSE suffrage]
    /\ accepted' = accepted \cup {id}

RemoveServer(id) == config' = [config EXCEPT ![id] = "none"]

Removable(id) == Voters(config) # {id}

--------------------------------------------------------------------------------
(* Requests.                                                               *)

Return(r, ok) ==
    /\ req' = [req EXCEPT ![r] = Free]
    /\ last' = IF ok THEN [pc |-> "ok", op |-> req[r].op, id |-> req[r].id, alone |-> req[r].alone]
               ELSE [pc |-> "error"]

Goto(r, pc) ==
    /\ req' = [req EXCEPT ![r].pc = pc]
    /\ UNCHANGED last

(* A request reaches a daemon of the cluster.  A starting node announces   *)
(* itself to the node it takes for the leader, with the relay mark set; it *)
(* may not have replayed the log and then calls itself a voter.  A Guest   *)
(* is a join whose raft_addr is empty, of a voter or an observer.          *)
Begin(r, op, id, at, role) ==
    /\ req[r] = Free
    /\ used.requests < MaxRequests
    /\ config[at] # "none"
    /\ op = "Rejoin" => config[id] # "none"
    /\ role = "observer" => op = "Guest" \/ (op = "Rejoin" /\ config[id] = "nonvoter")
    /\ LET others == {s \in Request : req[s] # Free} IN
       req' = [s \in Request |->
                 IF s = r THEN [pc |-> "route", op |-> op, id |-> id, at |-> at, relay |-> op = "Rejoin",
                                role |-> IF op = "JoinObserver" THEN "observer" ELSE role,
                                addr |-> "node", inRaft |-> FALSE, alone |-> others = {} /\ announcing = {}]
                 ELSE IF s \in others THEN [req[s] EXCEPT !.alone = FALSE] ELSE Free]
    /\ Use("requests")
    /\ UNCHANGED <<config, members, dropped, leader, announcing, accepted, guests, last>>

Handler(op) ==
    CASE op \in {"Join", "JoinObserver", "Guest"} -> "join"
      [] op = "Promote" -> "promote"
      [] op = "Leave" -> "leave"
      [] op = "Rejoin" -> "rejoin"

(* The leader handles the request.  Another node refuses a relayed one and *)
(* passes any other on, once, to the listed node it believes to lead.      *)
Route(r) ==
    /\ req[r].pc = "route"
    /\ \/ req[r].at = leader /\ Goto(r, Handler(req[r].op))
       \/ req[r].at # leader /\ Return(r, FALSE)
       \/ /\ req[r].at # leader /\ ~req[r].relay
          /\ \E m \in Listed \ {req[r].at} :
                req' = [req EXCEPT ![r].at = m, ![r].relay = TRUE]
          /\ UNCHANGED last
    /\ UNCHANGED <<config, members, dropped, leader, announcing, accepted, guests, used>>

(* Slip: the member is added first and the server second.                  *)
JoinServerLast(r) ==
    /\ req[r].pc = "join"
    /\ req[r].at = leader
    /\ AddRequested(req[r])
    /\ Goto(r, "add")
    /\ UNCHANGED <<config, accepted, leader, announcing, used>>

(* Join, first half: into the Raft configuration, when the request names a *)
(* Raft address.                                                           *)
JoinServer(r) ==
    /\ req[r].pc = "join"
    /\ \/ req[r].op = "Guest" /\ UNCHANGED <<config, accepted>>
       \/ /\ req[r].op # "Guest" /\ req[r].at = leader
          /\ AddServer(req[r].id, IF req[r].op = "JoinObserver" THEN "nonvoter" ELSE "voter")
    /\ Goto(r, "add")
    /\ UNCHANGED <<members, dropped, leader, announcing, guests, used>>

(* The last step of Join, Promote and Rejoin: add_member.                  *)
ApplyAddMemberAs(r) ==
    /\ req[r].pc = "add"
    /\ req[r].at = leader
    /\ AddRequested(req[r])
    /\ Return(r, TRUE)
    /\ UNCHANGED <<config, leader, announcing, accepted, used>>

(* promoteMember looks the id up and keeps the address it finds.           *)
PromoteMember(r) ==
    LET m == members[req[r].id] IN
    /\ req[r].pc = "promote"
    /\ \/ m = NoMember /\ Return(r, FALSE)
       \/ m # NoMember /\ m.status # "alive" /\ Return(r, FALSE)
       \/ m # NoMember /\ m.status = "alive" /\ m.role = "voter" /\ Return(r, TRUE)
       \/ /\ m # NoMember /\ m.status = "alive" /\ m.role = "observer"
          /\ req' = [req EXCEPT ![r].pc = "promoteServer", ![r].addr = m.addr, ![r].role = "voter"]
          /\ UNCHANGED last
    /\ UNCHANGED <<config, members, dropped, leader, announcing, accepted, guests, used>>

PromoteToVoter(r) ==
    /\ req[r].pc = "promoteServer"
    /\ req[r].at = leader
    /\ IF config[req[r].id] = "none"
       THEN Return(r, FALSE) /\ UNCHANGED <<config, accepted>>
       ELSE AddServer(req[r].id, "voter") /\ Goto(r, "add")
    /\ UNCHANGED <<members, dropped, leader, announcing, guests, used>>

(* Slip: an id that has left is taken to be out of Raft as well.           *)
LeaveMemberNoRetry(r) ==
    LET id == req[r].id IN
    /\ req[r].pc = "leave"
    /\ \/ id \notin Listed /\ config[id] = "none" /\ id \notin dropped /\ Return(r, FALSE)
       \/ id \in dropped /\ Return(r, TRUE)
       \/ /\ id \notin dropped /\ (id \in Listed \/ config[id] # "none")
          /\ req' = [req EXCEPT ![r].pc = "drop", ![r].inRaft = config[id] # "none"]
          /\ UNCHANGED last
    /\ UNCHANGED <<config, members, dropped, leader, announcing, accepted, guests, used>>

(* leaveMember looks at the list, the configuration and the left ids, then *)
(* commits.                                                                *)
LeaveMember(r) ==
    LET id == req[r].id
        inRaft == config[id] # "none"
    IN
    /\ req[r].pc = "leave"
    /\ \/ id \notin Listed /\ ~inRaft /\ id \notin dropped /\ Return(r, FALSE)
       \/ id \in dropped /\ ~inRaft /\ Return(r, TRUE)
       \/ /\ inRaft \/ (id \in Listed /\ id \notin dropped)
          /\ req' = [req EXCEPT ![r].pc = "drop", ![r].inRaft = inRaft]
          /\ UNCHANGED last
    /\ UNCHANGED <<config, members, dropped, leader, announcing, accepted, guests, used>>

ApplyDropMember(r) ==
    /\ req[r].pc = "drop"
    /\ req[r].at = leader
    /\ DropMember(req[r].id)
    /\ IF req[r].inRaft THEN Goto(r, "remove") ELSE Return(r, TRUE)
    /\ UNCHANGED <<config, leader, announcing, accepted, used>>

(* A leader that removes itself steps down.                                *)
RemoveVoter(r) ==
    LET id == req[r].id IN
    /\ req[r].pc = "remove"
    /\ req[r].at = leader
    /\ IF Removable(id)
       THEN /\ RemoveServer(id)
            /\ leader' = IF leader = id THEN NoNode ELSE leader
            /\ Return(r, TRUE)
       ELSE Return(r, FALSE) /\ UNCHANGED <<config, leader>>
    /\ UNCHANGED <<members, dropped, announcing, accepted, guests, used>>

(* rejoinMember: only for a Raft server; the list's role wins.             *)
RejoinMember(r) ==
    LET id == req[r].id IN
    /\ req[r].pc = "rejoin"
    /\ \/ config[id] = "none" /\ Return(r, FALSE)
       \/ /\ config[id] # "none"
          /\ req' = [req EXCEPT ![r].pc = "add",
                                ![r].role = IF id \in Listed THEN members[id].role ELSE @]
          /\ UNCHANGED last
    /\ UNCHANGED <<config, members, dropped, leader, announcing, accepted, guests, used>>

(* A Raft operation fails: this node no longer leads, or the operation     *)
(* timed out.  One that timed out may have been committed.                 *)
RaftFails(r) ==
    LET q == req[r] IN
    /\ q.pc \in {"join", "add", "promoteServer", "drop", "remove"}
    /\ ~(q.pc = "join" /\ q.op = "Guest")
    /\ Return(r, FALSE)
    /\ \/ /\ q.at # leader
          /\ UNCHANGED <<config, members, dropped, accepted, guests, used, leader>>
       \/ /\ q.at = leader
          /\ used.failures < MaxFailures
          /\ Use("failures")
          /\ UNCHANGED leader
          /\ \/ UNCHANGED <<config, members, dropped, accepted, guests>>
             \/ /\ q.pc \in {"join", "promoteServer"} /\ (q.pc = "promoteServer" => config[q.id] # "none")
                /\ AddServer(q.id, IF q.op = "JoinObserver" THEN "nonvoter" ELSE "voter")
                /\ UNCHANGED <<members, dropped, guests>>
             \/ /\ q.pc = "add"
                /\ AddRequested(q)
                /\ UNCHANGED <<config, accepted>>
             \/ /\ q.pc = "drop"
                /\ DropMember(q.id)
                /\ UNCHANGED <<config, accepted>>
             \/ /\ q.pc = "remove" /\ Removable(q.id) /\ q.id # leader
                /\ RemoveServer(q.id)
                /\ UNCHANGED <<members, dropped, accepted, guests>>
    /\ UNCHANGED announcing

--------------------------------------------------------------------------------
(* Elections and liveness.                                                 *)

LoseLeader ==
    /\ leader # NoNode
    /\ used.elections < MaxElections
    /\ leader' = NoNode
    /\ UNCHANGED <<config, members, dropped, announcing, req, accepted, guests, last, used>>

Elect(n) ==
    /\ leader = NoNode
    /\ config[n] = "voter"
    /\ used.elections < MaxElections
    /\ Use("elections")
    /\ leader' = n
    /\ announcing' = announcing \cup {n}
    /\ req' = [r \in Request |-> IF req[r] = Free THEN Free ELSE [req[r] EXCEPT !.alone = FALSE]]
    /\ UNCHANGED <<config, members, dropped, accepted, guests, last>>

(* The leader-change callback of the node that won: it adds itself as a    *)
(* voter, under its bind address.  If it no longer leads, it only logs.    *)
AddSelf(n) ==
    /\ n \in announcing
    /\ announcing' = announcing \ {n}
    /\ IF leader = n THEN AddMember(n, "grpc", "voter") ELSE UNCHANGED <<members, dropped>>
    /\ UNCHANGED <<config, leader, req, accepted, guests, last, used>>

(* Heartbeat misses or an expired presence lease, committed by the leader  *)
(* for anyone but itself.                                                  *)
RemoveDeadMember(id) ==
    /\ leader # NoNode
    /\ id # leader
    /\ id \in Listed
    /\ members[id].status = "alive"
    /\ used.deaths < MaxDeaths
    /\ Use("deaths")
    /\ members' = [members EXCEPT ![id].status = "dead"]
    /\ UNCHANGED <<config, dropped, leader, announcing, req, accepted, guests, last>>

Next ==
    \/ \E r \in Request :
        \/ \E op \in Op, id, at \in Node, role \in {"voter", "observer"} : Begin(r, op, id, at, role)
        \/ Route(r) \/ JoinServer(r) \/ ApplyAddMemberAs(r)
        \/ PromoteMember(r) \/ PromoteToVoter(r)
        \/ LeaveMember(r) \/ ApplyDropMember(r) \/ RemoveVoter(r)
        \/ RejoinMember(r) \/ RaftFails(r)
    \/ LoseLeader
    \/ \E n \in Node : Elect(n) \/ AddSelf(n) \/ RemoveDeadMember(n)

Spec == Init /\ [][Next]_vars

--------------------------------------------------------------------------------
(* Properties.                                                             *)

(* "A partition cannot invent a member that the quorum never accepted":    *)
(* every listed id has been in the Raft configuration, because Join adds   *)
(* the server before the member and Rejoin asks HasServer first, or its    *)
(* row comes from a committed join that named no Raft address.             *)
ListedWereAccepted == Listed \subseteq accepted \cup guests

(* The step with which a request that was alone returns ok.                *)
ReturnsDone ==
    \A r \in Request :
        req[r] # Free /\ req'[r] = Free /\ last'.pc = "ok" /\ last'.alone =>
            LET id == last'.id IN
            CASE last'.op = "Leave" -> config'[id] = "none" /\ members'[id] = NoMember
              [] last'.op \in {"Join", "JoinObserver", "Rejoin"} ->
                    config'[id] # "none" /\ members'[id] # NoMember
              [] last'.op \in {"Guest", "Promote"} -> members'[id] # NoMember

(* What a successful request promises, when neither another request nor a  *)
(* new leader's own announcement overlapped it, even if it repeats one     *)
(* that had failed half-way: after leave the id is out of both the list    *)
(* and the configuration, after join and rejoin it is in both; a join      *)
(* without a Raft address promises the list only.                          *)
OkMeansDone == [][ReturnsDone]_vars

(* A promotion that succeeds, with nothing else going on, leaves a node    *)
(* that has a Raft address a Raft voter (promoteMember's early return goes *)
(* by the list alone).                                                     *)
PromotedIsVoter ==
    [][\A r \in Request :
        /\ req[r] # Free /\ req'[r] = Free
        /\ last'.pc = "ok" /\ last'.alone /\ last'.op = "Promote"
        /\ last'.id \notin guests
        => config'[last'.id] = "voter"]_vars

(* Between requests, a listed id that never joined without a Raft address  *)
(* is a Raft server: leaveMember takes the id out of both, and             *)
(* rejoinMember only marks an existing server alive.                       *)
ListedAreServers ==
    (\A r \in Request : req[r] = Free) => \A id \in Listed \ guests : config[id] # "none"

(* There is no demotion: a Raft voter is never listed as an observer once  *)
(* requests are done.                                                      *)
VotersAreListedAsVoters ==
    (\A r \in Request : req[r] = Free) =>
        \A id \in Listed : config[id] = "voter" => members[id].role = "voter"

(* The list stores each node's advertised address.                         *)
AddressIsAdvertised == \A id \in Listed : members[id].addr = "node"

================================================================================
