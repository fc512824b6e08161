------------------------------- MODULE DaemonProofs ----------------------------
(***************************************************************************)
(* A daemon among its peers and by itself.                                 *)
(*                                                                         *)
(* Cluster: for any nodes, request slots, elections and failures, a listed *)
(* id has been a Raft server or joined without a Raft address, and a       *)
(* request that succeeds with nothing else going on has done what it       *)
(* promises.                                                               *)
(*                                                                         *)
(* App: for any calls, streams, serve failures and timings, units outlive  *)
(* what uses them, a failed serve goroutine is reported, and no mixture of *)
(* file and environment makes Raft refuse a positive lease.                *)
(***************************************************************************)
EXTENDS Cluster, App, TLAPS

(* Most steps are first-order: Zenon first, SMT for what it does not find. *)
USE ZenonT(30), SMTT(60)

Member == [status : {"alive", "dead"}, role : {"voter", "observer"}, addr : {"node", "grpc"}]

(* The places of a request, by what it asks for.                           *)
Places(op) ==
    {"route"} \cup
    CASE op \in {"Join", "JoinObserver", "Guest"} -> {"join", "add"}
      [] op = "Promote" -> {"promote", "promoteServer", "add"}
      [] op = "Leave" -> {"leave", "drop", "remove"}
      [] op = "Rejoin" -> {"rejoin", "add"}

Pending ==
    [pc : {"route", "join", "add", "promote", "promoteServer", "leave", "drop", "remove", "rejoin"},
     op : {"Join", "JoinObserver", "Guest", "Promote", "Leave", "Rejoin"}, id : Node, at : Node,
     relay : BOOLEAN, role : {"voter", "observer"}, addr : {"node", "grpc"},
     inRaft : BOOLEAN, alone : BOOLEAN]

TypeInv ==
    /\ config \in [Node -> {"voter", "nonvoter", "none"}]
    /\ members \in [Node -> Member \cup {NoMember}]
    /\ dropped \subseteq Node
    /\ announcing \subseteq Node
    /\ accepted \subseteq Node
    /\ guests \subseteq Node
    /\ req \in [Request -> Pending \cup {Free}]

(* A request is where its handler can have taken it.                       *)
PlaceInv == \A r \in Request : req[r] # Free => req[r].pc \in Places(req[r].op)

(* Whoever is about to be listed has been accepted, or joins without a     *)
(* Raft address.                                                           *)
AcceptedInv ==
    /\ \A n \in Node : config[n] # "none" => n \in accepted
    /\ \A n \in Node : members[n] # NoMember => n \in accepted \cup guests
    /\ announcing \subseteq accepted
    /\ \A r \in Request : req[r].pc = "add" => req[r].op = "Guest" \/ req[r].id \in accepted

(* An id that has left is not listed.                                      *)
DroppedInv == \A n \in dropped : members[n] = NoMember

(* What a request that has been alone so far has seen or done still holds. *)
AloneInv ==
    \A r \in Request : req[r] # Free /\ req[r].alone =>
        LET q == req[r] IN
        /\ announcing = {}
        /\ \A s \in Request \ {r} : req[s] = Free
        /\ q.pc = "add" /\ q.op \notin {"Guest", "Promote"} => config[q.id] # "none"
        /\ q.pc = "drop" => q.inRaft = (config[q.id] # "none")
        /\ q.pc = "remove" => members[q.id] = NoMember

IInv == TypeInv /\ PlaceInv /\ AcceptedInv /\ DroppedInv /\ AloneInv

--------------------------------------------------------------------------------
LEMMA InitIInv == Init => IInv
  BY SeedAssumption, SMT DEF Init, IInv, TypeInv, PlaceInv, AcceptedInv, DroppedInv, AloneInv, Free

(* A request that is no longer alone is a request still.                   *)
LEMMA NotAlone ==
  ASSUME NEW q \in Pending
  PROVE  /\ [q EXCEPT !.alone = FALSE] \in Pending
         /\ [q EXCEPT !.alone = FALSE].pc = q.pc
         /\ [q EXCEPT !.alone = FALSE].op = q.op
         /\ [q EXCEPT !.alone = FALSE].id = q.id
         /\ [q EXCEPT !.alone = FALSE].alone = FALSE
  BY DEF Pending

LEMMA BeginKeeps ==
  ASSUME IInv, NEW r \in Request, NEW op \in Op, NEW id \in Node, NEW at \in Node,
         NEW role \in {"voter", "observer"}, Begin(r, op, id, at, role)
  PROVE  IInv'
<1> DEFINE others == {s \in Request : req[s] # Free}
           relay == op = "Rejoin"
           alone == others = {} /\ announcing = {}
           q == [pc |-> "route", op |-> op, id |-> id, at |-> at, relay |-> relay,
                 role |-> IF op = "JoinObserver" THEN "observer" ELSE role,
                 addr |-> "node", inRaft |-> FALSE, alone |-> alone]
<1>1. /\ req' = [s \in Request |-> IF s = r THEN q
                                   ELSE IF s \in others THEN [req[s] EXCEPT !.alone = FALSE] ELSE Free]
      /\ req[r] = Free
      /\ UNCHANGED <<config, members, dropped, leader, announcing, accepted, guests, last>>
  BY DEF Begin
<1>2. relay \in BOOLEAN /\ alone \in BOOLEAN
  OBVIOUS
<1> HIDE DEF relay, alone
<1>3. q \in Pending /\ q.pc = "route" /\ q.op = op /\ q.id = id /\ q.alone = alone
  BY <1>2, OpAssumption DEF Pending
<1> HIDE DEF q
<1>4. ASSUME NEW s \in Request
      PROVE  \/ s = r /\ req'[s] = q
             \/ s # r /\ req[s] = Free /\ req'[s] = Free
             \/ /\ s # r /\ req[s] \in Pending /\ req[s] # Free /\ s \in others
                /\ req'[s] = [req[s] EXCEPT !.alone = FALSE]
  BY <1>1 DEF IInv, TypeInv
<1>5. \A s \in Request : req'[s] \in Pending \cup {Free}
  BY ZenonT(60), <1>3, <1>4, NotAlone
<1>6. TypeInv'
  <2>1. req' = [s \in Request |-> req'[s]]
    BY <1>1
  <2>2. req' \in [Request -> Pending \cup {Free}]
    BY <1>5, <2>1
  <2> QED  BY <2>2 DEF IInv, TypeInv, Begin
<1>7. PlaceInv'
  <2>1. "route" \in Places(op)
    BY DEF Places
  <2>2. ASSUME NEW s \in Request, req'[s] # Free
        PROVE  req'[s].pc \in Places(req'[s].op)
    <3>1. CASE s = r
      BY <1>3, <1>4, <2>1, <3>1
    <3>2. CASE s # r
      <4>1. /\ req[s] \in Pending /\ req[s] # Free
            /\ req'[s].pc = req[s].pc /\ req'[s].op = req[s].op
        BY <1>4, <2>2, <3>2, NotAlone
      <4> QED  BY <4>1 DEF IInv, PlaceInv
    <3> QED  BY <3>1, <3>2
  <2> QED  BY <2>2 DEF PlaceInv
<1>8. AcceptedInv'
  BY SMTT(60), <1>1, <1>3, <1>4, NotAlone DEF IInv, AcceptedInv, Free
<1>9. DroppedInv'
  BY <1>1 DEF IInv, DroppedInv
<1>10. AloneInv'
  <2> SUFFICES ASSUME NEW s \in Request, req'[s] # Free, req'[s].alone
               PROVE  /\ s = r /\ others = {} /\ announcing = {}
    BY <1>1, <1>3, <1>4, NotAlone DEF AloneInv
  <2> QED  BY ZenonT(60), <1>3, <1>4, NotAlone DEF alone
<1> QED  BY <1>6, <1>7, <1>8, <1>9, <1>10 DEF IInv

(* Where a handler starts.                                                 *)
LEMMA HandlerPlace ==
  ASSUME NEW op \in {"Join", "JoinObserver", "Guest", "Promote", "Leave", "Rejoin"}
  PROVE  /\ Handler(op) \in Places(op)
         /\ Handler(op) \in {"join", "promote", "leave", "rejoin"}
  BY DEF Handler, Places

LEMMA RouteKeeps ==
  ASSUME IInv, NEW r \in Request, Route(r)
  PROVE  IInv'
<1> DEFINE q == req[r]
<1>1. q \in Pending /\ q # Free /\ UNCHANGED <<config, members, dropped, leader, announcing, accepted, guests, used>>
  BY SMTT(60) DEF Route, IInv, TypeInv, Free
<1>2. \/ req' = [req EXCEPT ![r].pc = Handler(q.op)]
      \/ req' = [req EXCEPT ![r] = Free]
      \/ \E m \in Node : req' = [req EXCEPT ![r].at = m, ![r].relay = TRUE]
  BY DEF Route, Return, Goto, Listed
<1>3. /\ \A s \in Request \ {r} : req'[s] = req[s]
      /\ \/ req'[r] = Free
         \/ /\ req'[r] \in Pending
            /\ req'[r].pc \in Places(q.op) \cap {"route", "join", "promote", "leave", "rejoin"}
            /\ req'[r].op = q.op /\ req'[r].alone = q.alone
  <2>1. CASE req' = [req EXCEPT ![r].pc = Handler(q.op)]
    <3>1. q.op \in {"Join", "JoinObserver", "Guest", "Promote", "Leave", "Rejoin"}
      BY <1>1 DEF Pending
    <3>2. /\ Handler(q.op) \in Places(q.op)
          /\ Handler(q.op) \in {"join", "promote", "leave", "rejoin"}
      BY <3>1, HandlerPlace
    <3> QED  BY <1>1, <2>1, <3>2 DEF IInv, TypeInv, Pending
  <2>2. CASE req' = [req EXCEPT ![r] = Free]
    BY <2>2 DEF IInv, TypeInv
  <2>3. ASSUME NEW m \in Node, req' = [req EXCEPT ![r].at = m, ![r].relay = TRUE]
        PROVE  /\ \A s \in Request \ {r} : req'[s] = req[s]
               /\ req'[r] \in Pending
               /\ req'[r].pc \in Places(q.op) \cap {"route"}
               /\ req'[r].op = q.op /\ req'[r].alone = q.alone
    BY <1>1, <2>3 DEF Route, IInv, TypeInv, PlaceInv, Pending
  <2> QED  BY <1>2, <2>1, <2>2, <2>3, ZenonT(30)
<1>4. TypeInv'
  BY <1>1, <1>2, <1>3 DEF IInv, TypeInv
<1>5. PlaceInv'
  BY <1>3 DEF IInv, PlaceInv
<1>6. AcceptedInv'
  BY SMTT(60), <1>1, <1>3 DEF IInv, AcceptedInv, Free
<1>7. DroppedInv'
  BY <1>1 DEF IInv, DroppedInv
<1>8. AloneInv'
  BY SMTT(60), <1>1, <1>3 DEF IInv, AloneInv
<1> QED  BY <1>4, <1>5, <1>6, <1>7, <1>8 DEF IInv

(* What the list and the configuration say on their own.                   *)
Tables ==
    /\ config \in [Node -> {"voter", "nonvoter", "none"}]
    /\ members \in [Node -> Member \cup {NoMember}]
    /\ dropped \subseteq Node
    /\ accepted \subseteq Node
    /\ guests \subseteq Node
    /\ \A n \in Node : config[n] # "none" => n \in accepted
    /\ \A n \in Node : members[n] # NoMember => n \in accepted \cup guests
    /\ DroppedInv

LEMMA TablesHold == IInv => Tables
  BY DEF IInv, TypeInv, AcceptedInv, Tables

LEMMA TablesUnchanged == Tables /\ UNCHANGED <<config, members, dropped, accepted, guests>> => Tables'
  BY DEF Tables, DroppedInv

LEMMA AddServerTables ==
  ASSUME Tables, NEW id \in Node, NEW suffrage \in {"voter", "nonvoter"},
         AddServer(id, suffrage), UNCHANGED <<members, dropped, guests>>
  PROVE  Tables' /\ accepted \subseteq accepted' /\ id \in accepted' /\ config'[id] # "none"
  BY DEF Tables, DroppedInv, AddServer

LEMMA RemoveServerTables ==
  ASSUME Tables, NEW id \in Node, RemoveServer(id), UNCHANGED <<members, dropped, accepted, guests>>
  PROVE  Tables' /\ config'[id] = "none"
  BY DEF Tables, DroppedInv, RemoveServer

LEMMA AddMemberTables ==
  ASSUME Tables, NEW id \in Node, NEW addr \in {"node", "grpc"}, NEW role \in {"voter", "observer"},
         AddMember(id, addr, role), UNCHANGED <<config, accepted>>,
         guests \subseteq guests', guests' \subseteq Node, id \in accepted \cup guests'
  PROVE  Tables' /\ members'[id] # NoMember
<1>1. [status |-> "alive", role |-> role, addr |-> addr] \in Member
  BY DEF Member
<1>2. [status |-> "alive", role |-> role, addr |-> addr] # NoMember
  BY <1>1, NoMemberAssumption DEF Member
<1> QED  BY <1>1, <1>2 DEF Tables, DroppedInv, AddMember

LEMMA AddRequestedTables ==
  ASSUME Tables, NEW q \in Pending, q.op = "Guest" \/ q.id \in accepted,
         AddRequested(q), UNCHANGED <<config, accepted>>
  PROVE  Tables' /\ members'[q.id] # NoMember
<1>1. /\ q.id \in Node /\ q.addr \in {"node", "grpc"} /\ q.role \in {"voter", "observer"}
      /\ AddMember(q.id, q.addr, q.role)
  BY DEF Pending, AddRequested
<1>2. guests \subseteq guests' /\ guests' \subseteq Node /\ q.id \in accepted \cup guests'
  BY <1>1 DEF Tables, AddRequested
<1> QED  BY <1>1, <1>2, AddMemberTables

LEMMA DropMemberTables ==
  ASSUME Tables, NEW id \in Node, DropMember(id), UNCHANGED <<config, accepted>>
  PROVE  Tables' /\ members'[id] = NoMember
  BY DEF Tables, DroppedInv, DropMember

(* A request that returns: no other one was alone while it was there.      *)
LEMMA ReturnKeeps ==
  ASSUME IInv, NEW r \in Request, req[r] # Free, req' = [req EXCEPT ![r] = Free],
         Tables', accepted \subseteq accepted', UNCHANGED announcing
  PROVE  IInv'
<1>1. req'[r] = Free /\ \A s \in Request \ {r} : req'[s] = req[s]
  BY DEF IInv, TypeInv
<1>2. TypeInv'
  BY DEF IInv, TypeInv, Tables
<1>3. PlaceInv'
  BY <1>1 DEF IInv, PlaceInv
<1>4. AcceptedInv'
  BY SMTT(60), <1>1 DEF IInv, AcceptedInv, Tables, Free
<1>5. AloneInv'
  BY <1>1 DEF IInv, AloneInv
<1> QED  BY <1>2, <1>3, <1>4, <1>5 DEF IInv, Tables

(* A request that goes on.                                                 *)
LEMMA MoveKeeps ==
  ASSUME IInv, NEW r \in Request, NEW q \in Pending, req[r] # Free, req' = [req EXCEPT ![r] = q],
         q.op = req[r].op, q.alone = req[r].alone, q.pc \in Places(q.op),
         Tables', accepted \subseteq accepted', UNCHANGED announcing,
         q.pc = "add" => q.op = "Guest" \/ q.id \in accepted',
         q.alone => /\ q.pc = "add" /\ q.op \notin {"Guest", "Promote"} => config'[q.id] # "none"
                    /\ q.pc = "drop" => q.inRaft = (config'[q.id] # "none")
                    /\ q.pc = "remove" => members'[q.id] = NoMember
  PROVE  IInv'
<1>1. req'[r] = q /\ \A s \in Request \ {r} : req'[s] = req[s]
  BY DEF IInv, TypeInv
<1>2. TypeInv'
  BY DEF IInv, TypeInv, Tables
<1>3. PlaceInv'
  BY <1>1 DEF IInv, PlaceInv
<1>4. AcceptedInv'
  BY <1>1 DEF IInv, AcceptedInv, Tables
<1>5. AloneInv'
  BY SMTT(60), <1>1 DEF IInv, AloneInv
<1> QED  BY <1>2, <1>3, <1>4, <1>5 DEF IInv, Tables

(* The request a step is about.                                            *)
LEMMA AtPlace ==
  ASSUME IInv, NEW r \in Request, req[r].pc # "free"
  PROVE  /\ req[r] # Free /\ req[r] \in Pending
         /\ req[r].op \in {"Join", "JoinObserver", "Guest", "Promote", "Leave", "Rejoin"}
         /\ req[r].id \in Node /\ req[r].alone \in BOOLEAN
         /\ req[r].addr \in {"node", "grpc"} /\ req[r].role \in {"voter", "observer"}
         /\ req[r].pc \in Places(req[r].op)
         /\ Tables
<1>1. req[r] # Free /\ req[r] \in Pending
  BY SMTT(60) DEF IInv, TypeInv, Free
<1> QED  BY <1>1, TablesHold DEF IInv, PlaceInv, Pending

(* A request whose place is all that changes.                              *)
LEMMA Goes ==
  ASSUME NEW r \in Request, req \in [Request -> Pending \cup {Free}], req[r] \in Pending,
         NEW pc \in {"join", "add", "promote", "promoteServer", "leave", "drop", "remove", "rejoin"},
         Goto(r, pc)
  PROVE  \E q \in Pending :
            /\ req' = [req EXCEPT ![r] = q] /\ q.pc = pc
            /\ q.op = req[r].op /\ q.id = req[r].id /\ q.alone = req[r].alone
            /\ q.inRaft = req[r].inRaft
<1> DEFINE q == [req[r] EXCEPT !.pc = pc]
<1>1. /\ q \in Pending /\ q.pc = pc /\ q.op = req[r].op /\ q.id = req[r].id
      /\ q.alone = req[r].alone /\ q.inRaft = req[r].inRaft
  BY DEF Pending
<1>2. req' = [req EXCEPT ![r] = q]
  BY DEF Goto
<1> HIDE DEF q
<1> QED  BY <1>1, <1>2, Zenon

LEMMA JoinServerKeeps ==
  ASSUME IInv, NEW r \in Request, JoinServer(r)
  PROVE  IInv'
<1>1. req[r].pc = "join" /\ Goto(r, "add") /\ UNCHANGED announcing
  BY DEF JoinServer
<1>p. /\ req[r] # Free /\ req[r] \in Pending /\ req[r].id \in Node
      /\ req \in [Request -> Pending \cup {Free}] /\ Tables
  BY <1>1, AtPlace DEF IInv, TypeInv
<1>2. /\ Tables' /\ accepted \subseteq accepted'
      /\ req[r].op # "Guest" => req[r].id \in accepted' /\ config'[req[r].id] # "none"
  <2>1. CASE req[r].op = "Guest"
    <3>1. UNCHANGED <<config, members, dropped, accepted, guests>>
      BY <2>1 DEF JoinServer
    <3> QED  BY <2>1, <3>1, <1>p, TablesUnchanged
  <2>2. CASE req[r].op # "Guest"
    BY <1>1, <2>2, <1>p, AddServerTables DEF JoinServer
  <2> QED  BY <2>1, <2>2
<1>3. "add" \in Places(req[r].op)
  BY <1>1, AtPlace DEF Places
<1>4. PICK q \in Pending : /\ req' = [req EXCEPT ![r] = q] /\ q.pc = "add"
                           /\ q.op = req[r].op /\ q.id = req[r].id /\ q.alone = req[r].alone
  BY SMTT(60), <1>1, <1>p, Goes
<1> QED  BY <1>1, <1>2, <1>3, <1>4, <1>p, MoveKeeps, ZenonT(60)

LEMMA ApplyAddMemberAsKeeps ==
  ASSUME IInv, NEW r \in Request, ApplyAddMemberAs(r)
  PROVE  IInv'
<1>1. /\ req[r].pc = "add" /\ req' = [req EXCEPT ![r] = Free]
      /\ UNCHANGED <<config, announcing, accepted>>
  BY DEF ApplyAddMemberAs, Return
<1>p. /\ req[r] # Free /\ req[r] \in Pending /\ req[r].id \in Node
      /\ req \in [Request -> Pending \cup {Free}] /\ Tables
  BY <1>1, AtPlace DEF IInv, TypeInv
<1>2. req[r].op = "Guest" \/ req[r].id \in accepted
  BY <1>1 DEF IInv, AcceptedInv
<1>3. Tables'
  BY <1>1, <1>2, <1>p, AddRequestedTables DEF ApplyAddMemberAs
<1> QED  BY <1>1, <1>3, <1>p, ReturnKeeps, ZenonT(60)

LEMMA PromoteMemberKeeps ==
  ASSUME IInv, NEW r \in Request, PromoteMember(r)
  PROVE  IInv'
<1> DEFINE m == members[req[r].id]
           q == [req[r] EXCEPT !.pc = "promoteServer", !.addr = m.addr, !.role = "voter"]
<1>1. /\ req[r].pc = "promote"
      /\ UNCHANGED <<config, members, dropped, announcing, accepted, guests>>
      /\ \/ req' = [req EXCEPT ![r] = Free]
         \/ /\ m # NoMember
            /\ req' = [req EXCEPT ![r].pc = "promoteServer", ![r].addr = m.addr, ![r].role = "voter"]
  BY DEF PromoteMember, Return
<1>p. /\ req[r] # Free /\ req[r] \in Pending /\ req[r].id \in Node
      /\ req \in [Request -> Pending \cup {Free}] /\ Tables
  BY <1>1, AtPlace DEF IInv, TypeInv
<1>2. Tables'
  BY <1>1, <1>p, TablesUnchanged
<1>3. CASE req' = [req EXCEPT ![r] = Free]
  BY <1>1, <1>2, <1>3, <1>p, ReturnKeeps, ZenonT(60)
<1>4. CASE /\ m # NoMember
           /\ req' = [req EXCEPT ![r].pc = "promoteServer", ![r].addr = m.addr, ![r].role = "voter"]
  <2>1. m.addr \in {"node", "grpc"}
    BY <1>1, <1>4, <1>p DEF Tables, Member
  <2>2. /\ q \in Pending /\ q.pc = "promoteServer"
        /\ q.op = req[r].op /\ q.alone = req[r].alone
    BY <1>1, <2>1, <1>p DEF Pending
  <2>3. req' = [req EXCEPT ![r] = q]
    BY <1>4, <1>p
  <2>4. "promoteServer" \in Places(req[r].op)
    BY <1>1, AtPlace DEF Places
  <2> HIDE DEF q
  <2> QED  BY <1>1, <1>2, <2>2, <2>3, <2>4, <1>p, MoveKeeps, ZenonT(60)
<1> QED  BY <1>1, <1>3, <1>4

LEMMA PromoteToVoterKeeps ==
  ASSUME IInv, NEW r \in Request, PromoteToVoter(r)
  PROVE  IInv'
<1>1. req[r].pc = "promoteServer" /\ UNCHANGED <<members, dropped, announcing, guests>>
  BY DEF PromoteToVoter
<1>p. /\ req[r] # Free /\ req[r] \in Pending /\ req[r].id \in Node
      /\ req \in [Request -> Pending \cup {Free}] /\ Tables
  BY <1>1, AtPlace DEF IInv, TypeInv
<1>2. CASE Return(r, FALSE) /\ UNCHANGED <<config, accepted>>
  <2>1. Tables'
    BY <1>1, <1>2, <1>p, TablesUnchanged
  <2> QED  BY <1>1, <1>2, <2>1, <1>p, ReturnKeeps, ZenonT(60) DEF Return
<1>3. CASE AddServer(req[r].id, "voter") /\ Goto(r, "add")
  <2>1. Tables' /\ accepted \subseteq accepted' /\ req[r].id \in accepted' /\ config'[req[r].id] # "none"
    BY <1>1, <1>3, <1>p, AddServerTables DEF PromoteToVoter
  <2>2. "add" \in Places(req[r].op)
    BY <1>1, AtPlace DEF Places
  <2>3. PICK q \in Pending : /\ req' = [req EXCEPT ![r] = q] /\ q.pc = "add"
                             /\ q.op = req[r].op /\ q.id = req[r].id /\ q.alone = req[r].alone
    BY SMTT(60), <1>1, <1>3, <1>p, Goes
  <2> QED  BY <1>1, <2>1, <2>2, <2>3, <1>p, MoveKeeps, ZenonT(60)
<1> QED  BY <1>2, <1>3 DEF PromoteToVoter

LEMMA LeaveMemberKeeps ==
  ASSUME IInv, NEW r \in Request, LeaveMember(r)
  PROVE  IInv'
<1> DEFINE inRaft == config[req[r].id] # "none"
           q == [req[r] EXCEPT !.pc = "drop", !.inRaft = inRaft]
<1>1. /\ req[r].pc = "leave"
      /\ UNCHANGED <<config, members, dropped, announcing, accepted, guests>>
      /\ \/ req' = [req EXCEPT ![r] = Free]
         \/ req' = [req EXCEPT ![r].pc = "drop", ![r].inRaft = inRaft]
  BY DEF LeaveMember, Return
<1>p. /\ req[r] # Free /\ req[r] \in Pending /\ req[r].id \in Node
      /\ req \in [Request -> Pending \cup {Free}] /\ Tables
  BY <1>1, AtPlace DEF IInv, TypeInv
<1>2. Tables'
  BY <1>1, <1>p, TablesUnchanged
<1>3. CASE req' = [req EXCEPT ![r] = Free]
  BY <1>1, <1>2, <1>3, <1>p, ReturnKeeps, ZenonT(60)
<1>4. CASE req' = [req EXCEPT ![r].pc = "drop", ![r].inRaft = inRaft]
  <2>1. inRaft \in BOOLEAN
    OBVIOUS
  <2> HIDE DEF inRaft
  <2>2. /\ q \in Pending /\ q.pc = "drop" /\ q.inRaft = inRaft
        /\ q.op = req[r].op /\ q.id = req[r].id /\ q.alone = req[r].alone
    BY <1>1, <2>1, <1>p DEF Pending
  <2>3. req' = [req EXCEPT ![r] = q]
    BY <1>4, <1>p
  <2>4. "drop" \in Places(req[r].op)
    BY <1>1, AtPlace DEF Places
  <2> HIDE DEF q
  <2>5. q.inRaft = (config'[q.id] # "none")
    BY <1>1, <2>2 DEF inRaft
  <2> QED  BY <1>1, <1>2, <2>2, <2>3, <2>4, <2>5, <1>p, MoveKeeps, ZenonT(60)
<1> QED  BY <1>1, <1>3, <1>4

LEMMA ApplyDropMemberKeeps ==
  ASSUME IInv, NEW r \in Request, ApplyDropMember(r)
  PROVE  IInv'
<1>1. req[r].pc = "drop" /\ UNCHANGED <<config, announcing, accepted>>
  BY DEF ApplyDropMember
<1>p. /\ req[r] # Free /\ req[r] \in Pending /\ req[r].id \in Node
      /\ req \in [Request -> Pending \cup {Free}] /\ Tables
  BY <1>1, AtPlace DEF IInv, TypeInv
<1>2. Tables' /\ members'[req[r].id] = NoMember
  BY <1>1, <1>p, DropMemberTables DEF ApplyDropMember
<1>3. CASE Return(r, TRUE)
  BY <1>1, <1>2, <1>3, <1>p, ReturnKeeps, ZenonT(60) DEF Return
<1>4. CASE Goto(r, "remove")
  <2>1. "remove" \in Places(req[r].op)
    BY <1>1, AtPlace DEF Places
  <2>2. PICK q \in Pending : /\ req' = [req EXCEPT ![r] = q] /\ q.pc = "remove"
                             /\ q.op = req[r].op /\ q.id = req[r].id /\ q.alone = req[r].alone
    BY SMTT(60), <1>1, <1>4, <1>p, Goes
  <2> QED  BY <1>1, <1>2, <2>1, <2>2, <1>p, MoveKeeps, ZenonT(60)
<1> QED  BY <1>3, <1>4 DEF ApplyDropMember

LEMMA RemoveVoterKeeps ==
  ASSUME IInv, NEW r \in Request, RemoveVoter(r)
  PROVE  IInv'
<1>1. /\ req[r].pc = "remove" /\ UNCHANGED <<members, dropped, announcing, accepted, guests>>
      /\ req' = [req EXCEPT ![r] = Free]
      /\ RemoveServer(req[r].id) \/ UNCHANGED config
  BY DEF RemoveVoter, Return
<1>p. /\ req[r] # Free /\ req[r] \in Pending /\ req[r].id \in Node
      /\ req \in [Request -> Pending \cup {Free}] /\ Tables
  BY <1>1, AtPlace DEF IInv, TypeInv
<1>2. Tables'
  BY <1>1, <1>p, RemoveServerTables, TablesUnchanged
<1> QED  BY <1>1, <1>2, <1>p, ReturnKeeps, ZenonT(60)

LEMMA RejoinMemberKeeps ==
  ASSUME IInv, NEW r \in Request, RejoinMember(r)
  PROVE  IInv'
<1> DEFINE id == req[r].id
           role == IF id \in Listed THEN members[id].role ELSE req[r].role
           q == [req[r] EXCEPT !.pc = "add", !.role = role]
<1>1. /\ req[r].pc = "rejoin"
      /\ UNCHANGED <<config, members, dropped, announcing, accepted, guests>>
      /\ \/ req' = [req EXCEPT ![r] = Free]
         \/ /\ config[id] # "none"
            /\ req' = [req EXCEPT ![r].pc = "add", ![r].role = IF id \in Listed THEN members[id].role ELSE @]
  BY DEF RejoinMember, Return
<1>p. /\ req[r] # Free /\ req[r] \in Pending /\ req[r].id \in Node
      /\ req \in [Request -> Pending \cup {Free}] /\ Tables
  BY <1>1, AtPlace DEF IInv, TypeInv
<1>2. Tables'
  BY <1>1, <1>p, TablesUnchanged
<1>3. CASE req' = [req EXCEPT ![r] = Free]
  BY <1>1, <1>2, <1>3, <1>p, ReturnKeeps, ZenonT(60)
<1>4. CASE /\ config[id] # "none"
           /\ req' = [req EXCEPT ![r].pc = "add", ![r].role = IF id \in Listed THEN members[id].role ELSE @]
  <2>1. role \in {"voter", "observer"}
    BY <1>p DEF Tables, Member, Listed, Pending
  <2>2. req' = [req EXCEPT ![r] = q]
    BY <1>1, <1>4, <1>p DEF Pending
  <2> HIDE DEF role
  <2>3. /\ q \in Pending /\ q.pc = "add"
        /\ q.op = req[r].op /\ q.id = req[r].id /\ q.alone = req[r].alone
    BY <1>1, <2>1, <1>p DEF Pending
  <2>4. "add" \in Places(req[r].op)
    BY <1>1, AtPlace DEF Places
  <2>5. q.id \in accepted' /\ config'[q.id] # "none"
    BY <1>1, <1>4, <2>3, <1>p DEF Tables
  <2> HIDE DEF q
  <2> QED  BY <1>1, <1>2, <2>2, <2>3, <2>4, <2>5, <1>p, MoveKeeps, ZenonT(60)
<1> QED  BY <1>1, <1>3, <1>4

LEMMA RaftFailsKeeps ==
  ASSUME IInv, NEW r \in Request, RaftFails(r)
  PROVE  IInv'
<1> DEFINE q == req[r]
           suffrage == IF q.op = "JoinObserver" THEN "nonvoter" ELSE "voter"
<1>1. q.pc # "free" /\ req' = [req EXCEPT ![r] = Free] /\ UNCHANGED announcing
  BY DEF RaftFails, Return
<1>p. /\ req[r] # Free /\ req[r] \in Pending /\ req[r].id \in Node
      /\ req \in [Request -> Pending \cup {Free}] /\ Tables
  BY <1>1, AtPlace DEF IInv, TypeInv
<1>2. \/ UNCHANGED <<config, members, dropped, accepted, guests>>
      \/ AddServer(q.id, suffrage) /\ UNCHANGED <<members, dropped, guests>>
      \/ q.pc = "add" /\ AddRequested(q) /\ UNCHANGED <<config, accepted>>
      \/ DropMember(q.id) /\ UNCHANGED <<config, accepted>>
      \/ RemoveServer(q.id) /\ UNCHANGED <<members, dropped, accepted, guests>>
  BY DEF RaftFails
<1>3. q.pc = "add" => q.op = "Guest" \/ q.id \in accepted
  BY DEF IInv, AcceptedInv
<1>4. suffrage \in {"voter", "nonvoter"}
  OBVIOUS
<1> HIDE DEF suffrage
<1>5. Tables' /\ accepted \subseteq accepted'
  <2>1. CASE UNCHANGED <<config, members, dropped, accepted, guests>>
    BY <1>1, <2>1, <1>p, TablesUnchanged
  <2>2. CASE AddServer(q.id, suffrage) /\ UNCHANGED <<members, dropped, guests>>
    BY <1>1, <1>4, <2>2, <1>p, AddServerTables
  <2>3. CASE q.pc = "add" /\ AddRequested(q) /\ UNCHANGED <<config, accepted>>
    BY <1>1, <1>3, <2>3, <1>p, AddRequestedTables
  <2>4. CASE DropMember(q.id) /\ UNCHANGED <<config, accepted>>
    BY <1>1, <2>4, <1>p, DropMemberTables
  <2>5. CASE RemoveServer(q.id) /\ UNCHANGED <<members, dropped, accepted, guests>>
    BY <1>1, <2>5, <1>p, RemoveServerTables
  <2> QED  BY <1>2, <2>1, <2>2, <2>3, <2>4, <2>5
<1> QED  BY <1>1, <1>5, <1>p, ReturnKeeps, ZenonT(60)

LEMMA LoseLeaderKeeps ==
  ASSUME IInv, LoseLeader
  PROVE  IInv'
<1>1. TypeInv'
  BY DEF IInv, TypeInv, LoseLeader
<1>2. PlaceInv'
  BY DEF IInv, PlaceInv, LoseLeader
<1>3. AcceptedInv'
  BY DEF IInv, AcceptedInv, LoseLeader
<1>4. DroppedInv'
  BY DEF IInv, DroppedInv, LoseLeader
<1>5. AloneInv'
  BY DEF IInv, AloneInv, LoseLeader
<1> QED  BY <1>1, <1>2, <1>3, <1>4, <1>5 DEF IInv

LEMMA ElectKeeps ==
  ASSUME IInv, NEW n \in Node, Elect(n)
  PROVE  IInv'
<1>1. TypeInv'
  <2>1. \A r \in Request : req'[r] \in Pending \cup {Free}
    BY NotAlone DEF IInv, TypeInv, Elect
  <2>2. req' = [r \in Request |-> req'[r]]
    BY DEF Elect
  <2>3. req' \in [Request -> Pending \cup {Free}]
    BY <2>1, <2>2
  <2> QED  BY <2>3 DEF IInv, TypeInv, Elect
<1>2. PlaceInv'
  BY SMTT(20) DEF IInv, PlaceInv, TypeInv, Pending, Free, Places, Elect
<1>3. AcceptedInv'
  BY SMTT(20) DEF IInv, AcceptedInv, TypeInv, Pending, Free, Member, Elect
<1>4. DroppedInv'
  BY DEF IInv, DroppedInv, Elect
<1>5. AloneInv'
  BY SMTT(20) DEF IInv, AloneInv, TypeInv, PlaceInv, Places, Pending, Free, Member, Elect
<1> QED  BY <1>1, <1>2, <1>3, <1>4, <1>5 DEF IInv

LEMMA AddSelfKeeps ==
  ASSUME IInv, NEW n \in Node, AddSelf(n)
  PROVE  IInv'
<1>1. /\ n \in announcing /\ announcing' = announcing \ {n}
      /\ UNCHANGED <<config, req, accepted, guests>>
      /\ AddMember(n, "grpc", "voter") \/ UNCHANGED <<members, dropped>>
  BY DEF AddSelf
<1>2. n \in accepted
  BY <1>1 DEF IInv, AcceptedInv
<1>3. Tables'
  <2>1. CASE AddMember(n, "grpc", "voter")
    <3>1. Tables /\ n \in Node /\ guests' = guests
      BY <1>1, TablesHold
    <3> QED  BY <1>1, <1>2, <2>1, <3>1, AddMemberTables DEF Tables
  <2>2. CASE UNCHANGED <<members, dropped>>
    BY <1>1, <2>2, TablesHold, TablesUnchanged
  <2> QED  BY <1>1, <2>1, <2>2
<1>4. TypeInv'
  BY <1>1, <1>3 DEF IInv, TypeInv, Tables
<1>5. PlaceInv'
  BY <1>1 DEF IInv, PlaceInv
<1>6. AcceptedInv'
  BY <1>1, <1>3 DEF IInv, AcceptedInv, Tables
<1>7. AloneInv'
  BY <1>1 DEF IInv, AloneInv
<1> QED  BY <1>3, <1>4, <1>5, <1>6, <1>7 DEF IInv, Tables

LEMMA RemoveDeadMemberKeeps ==
  ASSUME IInv, NEW n \in Node, RemoveDeadMember(n)
  PROVE  IInv'
<1>1. /\ UNCHANGED <<config, dropped, announcing, req, accepted, guests>>
      /\ members[n] # NoMember /\ members' = [members EXCEPT ![n].status = "dead"]
  BY DEF RemoveDeadMember, Listed
<1>2. members'[n] \in Member /\ \A m \in Node \ {n} : members'[m] = members[m]
  BY <1>1 DEF IInv, TypeInv, Member
<1>3. \A m \in Node : members'[m] = NoMember <=> members[m] = NoMember
  BY <1>1, <1>2, NoMemberAssumption DEF Member
<1>4. TypeInv'
  BY <1>1, <1>2 DEF IInv, TypeInv
<1>5. PlaceInv'
  BY <1>1 DEF IInv, PlaceInv
<1>6. AcceptedInv'
  BY <1>1, <1>3 DEF IInv, AcceptedInv
<1>7. DroppedInv'
  BY <1>1, <1>3 DEF IInv, TypeInv, DroppedInv
<1>8. ASSUME NEW r \in Request, req'[r] # Free
      PROVE  req'[r].id \in Node
  BY <1>1, <1>8 DEF IInv, TypeInv, Pending
<1>9. AloneInv'
  BY <1>1, <1>3, <1>8 DEF IInv, AloneInv
<1> QED  BY <1>4, <1>5, <1>6, <1>7, <1>9 DEF IInv

LEMMA NextKeeps == IInv /\ [Next]_vars => IInv'
<1> SUFFICES ASSUME IInv, [Next]_vars PROVE IInv'
  OBVIOUS
<1>1. ASSUME NEW r \in Request, NEW op \in Op, NEW id \in Node, NEW at \in Node,
             NEW role \in {"voter", "observer"}, Begin(r, op, id, at, role)
      PROVE  IInv'
  BY <1>1, BeginKeeps
<1>2. ASSUME NEW r \in Request, Route(r) PROVE IInv'
  BY <1>2, RouteKeeps
<1>3. ASSUME NEW r \in Request, JoinServer(r) PROVE IInv'
  BY <1>3, JoinServerKeeps
<1>4. ASSUME NEW r \in Request, ApplyAddMemberAs(r) PROVE IInv'
  BY <1>4, ApplyAddMemberAsKeeps
<1>5. ASSUME NEW r \in Request, PromoteMember(r) PROVE IInv'
  BY <1>5, PromoteMemberKeeps
<1>6. ASSUME NEW r \in Request, PromoteToVoter(r) PROVE IInv'
  BY <1>6, PromoteToVoterKeeps
<1>7. ASSUME NEW r \in Request, LeaveMember(r) PROVE IInv'
  BY <1>7, LeaveMemberKeeps
<1>8. ASSUME NEW r \in Request, ApplyDropMember(r) PROVE IInv'
  BY <1>8, ApplyDropMemberKeeps
<1>9. ASSUME NEW r \in Request, RemoveVoter(r) PROVE IInv'
  BY <1>9, RemoveVoterKeeps
<1>10. ASSUME NEW r \in Request, RejoinMember(r) PROVE IInv'
  BY <1>10, RejoinMemberKeeps
<1>11. ASSUME NEW r \in Request, RaftFails(r) PROVE IInv'
  BY <1>11, RaftFailsKeeps
<1>12. CASE LoseLeader
  BY <1>12, LoseLeaderKeeps
<1>13. ASSUME NEW n \in Node, Elect(n) PROVE IInv'
  BY <1>13, ElectKeeps
<1>14. ASSUME NEW n \in Node, AddSelf(n) PROVE IInv'
  BY <1>14, AddSelfKeeps
<1>15. ASSUME NEW n \in Node, RemoveDeadMember(n) PROVE IInv'
  BY <1>15, RemoveDeadMemberKeeps
<1>16. CASE UNCHANGED vars
  BY <1>16 DEF IInv, TypeInv, PlaceInv, AcceptedInv, DroppedInv, AloneInv, vars
<1> QED
  BY <1>1, <1>2, <1>3, <1>4, <1>5, <1>6, <1>7, <1>8, <1>9, <1>10, <1>11, <1>12, <1>13, <1>14, <1>15, <1>16 DEF Next

LEMMA Invariance == Spec => []IInv
  BY InitIInv, NextKeeps, PTL DEF Spec

(* Join, Rejoin and the announcements of join.go and units.go: for any     *)
(* nodes, requests, elections and failures, an id on the list has been in  *)
(* the Raft configuration, or a join that named no Raft address put it     *)
(* there.                                                                  *)
THEOREM AcceptedBeforeListed == Spec => []ListedWereAccepted
<1>1. IInv => ListedWereAccepted
  BY DEF IInv, AcceptedInv, ListedWereAccepted, Listed
<1> QED  BY <1>1, Invariance, PTL

--------------------------------------------------------------------------------
(* Only the request that returns ok leaves its slot with "ok" in last.     *)
LEMMA Returned ==
  ASSUME NEW r \in Request, NEW s \in Request, req \in [Request -> Pending \cup {Free}],
         req[r] # Free, req'[r] = Free, NEW ok \in BOOLEAN, Return(s, ok), last'.pc = "ok"
  PROVE  /\ s = r /\ ok
         /\ last'.op = req[r].op /\ last'.id = req[r].id /\ last'.alone = req[r].alone
<1>1. s = r
  BY DEF Return
<1>2. ok
  BY DEF Return
<1> QED  BY <1>1, <1>2 DEF Return

LEMMA NotReturned ==
  ASSUME NEW r \in Request, NEW s \in Request, req \in [Request -> Pending \cup {Free}],
         req[r] # Free, NEW q \in Pending, req' = [req EXCEPT ![s] = q]
  PROVE  req'[r] # Free
<1>1. q # Free
  BY SMTT(60) DEF Pending, Free
<1> QED  BY <1>1

(* A request frees its slot only by returning.  The handler that returns   *)
(* ok keeps what the request promises, given what holds of a request that  *)
(* was alone.                                                              *)
LEMMA ReturnKeepsPromise ==
  ASSUME IInv, Next, NEW r \in Request, req[r] # Free, req'[r] = Free,
         last'.pc = "ok", last'.alone
  PROVE  /\ last'.op = req[r].op /\ last'.id = req[r].id
         /\ last'.op = "Leave" => config'[last'.id] = "none" /\ members'[last'.id] = NoMember
         /\ last'.op \in {"Join", "JoinObserver", "Rejoin"} =>
                config'[last'.id] # "none" /\ members'[last'.id] # NoMember
         /\ last'.op \in {"Guest", "Promote"} => members'[last'.id] # NoMember
<1> DEFINE goal == /\ last'.op = req[r].op /\ last'.id = req[r].id
                   /\ last'.op = "Leave" => config'[last'.id] = "none" /\ members'[last'.id] = NoMember
                   /\ last'.op \in {"Join", "JoinObserver", "Rejoin"} =>
                          config'[last'.id] # "none" /\ members'[last'.id] # NoMember
                   /\ last'.op \in {"Guest", "Promote"} => members'[last'.id] # NoMember
<1>0. req[r] \in Pending /\ req[r].pc \in Places(req[r].op) /\ req \in [Request -> Pending \cup {Free}]
  BY DEF IInv, TypeInv, PlaceInv
<1>1. ASSUME NEW s \in Request, NEW op \in Op, NEW id \in Node, NEW at \in Node,
             NEW role \in {"voter", "observer"}, Begin(s, op, id, at, role)
      PROVE  goal
  BY <1>0, <1>1 DEF Begin, Free, Pending
<1>2. ASSUME NEW s \in Request, Route(s) PROVE goal
  <2>1. req[s].pc = "route" /\ req[s] \in Pending
    BY <1>0, <1>2 DEF Route, Free
  <2>2. Handler(req[s].op) # "free"
    BY <2>1, HandlerPlace DEF Pending
  <2>3. \/ req' = [req EXCEPT ![s].pc = Handler(req[s].op)]
        \/ last'.pc = "error"
        \/ \E m \in Node : req' = [req EXCEPT ![s].at = m, ![s].relay = TRUE]
    BY SMTT(60), <1>2 DEF Route, Return, Goto, Listed
  <2>4. ASSUME req' = [req EXCEPT ![s].pc = Handler(req[s].op)]
        PROVE  req'[r].pc # "free"
    BY <1>0, <2>1, <2>2, <2>4 DEF Pending
  <2>5. ASSUME NEW m \in Node, req' = [req EXCEPT ![s].at = m, ![s].relay = TRUE]
        PROVE  req'[r].pc # "free"
    BY <1>0, <2>1, <2>5 DEF Pending
  <2>6. req'[r].pc = "free"
    BY DEF Free
  <2> HIDE DEF goal
  <2> QED  BY <2>3, <2>4, <2>5, <2>6
<1>3. ASSUME NEW s \in Request, JoinServer(s) PROVE goal
  <2>1. req[s].pc = "join" /\ Goto(s, "add")
    BY <1>3 DEF JoinServer
  <2>2. PICK q \in Pending : req' = [req EXCEPT ![s] = q]
    BY SMTT(60), <1>0, <2>1, AtPlace, Goes
  <2> QED  BY <1>0, <2>2, NotReturned, ZenonT(30)
<1>4. ASSUME NEW s \in Request, ApplyAddMemberAs(s) PROVE goal
  <2>1. req[s].pc = "add" /\ Return(s, TRUE) /\ UNCHANGED <<config, accepted>>
    BY <1>4 DEF ApplyAddMemberAs
  <2>2. s = r /\ last'.op = req[r].op /\ last'.id = req[r].id /\ last'.alone = req[r].alone
    BY <1>0, <2>1, Returned, ZenonT(30)
  <2>3. req[r].op = "Guest" \/ req[r].id \in accepted
    BY <2>1, <2>2 DEF IInv, AcceptedInv
  <2>4. members'[req[r].id] # NoMember
    BY <1>0, <1>4, <2>1, <2>2, <2>3, TablesHold, AddRequestedTables DEF ApplyAddMemberAs
  <2>5. req[r].op \notin {"Guest", "Promote"} => config[req[r].id] # "none"
    BY <2>1, <2>2 DEF IInv, AloneInv
  <2>6. req[r].op # "Leave"
    BY <1>0, <2>1, <2>2 DEF Places
  <2> QED  BY <2>1, <2>2, <2>4, <2>5, <2>6
<1>5. ASSUME NEW s \in Request, PromoteMember(s) PROVE goal
  <2>1. req[s].pc = "promote" /\ UNCHANGED members
    BY <1>5 DEF PromoteMember
  <2>2. \/ Return(s, FALSE)
        \/ members[req[s].id] # NoMember /\ Return(s, TRUE)
        \/ req' = [req EXCEPT ![s].pc = "promoteServer", ![s].addr = members[req[s].id].addr,
                              ![s].role = "voter"]
    BY <1>5 DEF PromoteMember
  <2>3. CASE Return(s, FALSE)
    BY <1>0, <2>3, Returned
  <2>4. CASE members[req[s].id] # NoMember /\ Return(s, TRUE)
    <3>1. s = r /\ last'.op = req[r].op /\ last'.id = req[r].id
      BY <1>0, <2>4, Returned
    <3>2. req[r].op = "Promote"
      BY <1>0, <2>1, <3>1 DEF Places, Pending
    <3> QED  BY <2>1, <2>4, <3>1, <3>2
  <2>5. CASE req' = [req EXCEPT ![s].pc = "promoteServer", ![s].addr = members[req[s].id].addr,
                                ![s].role = "voter"]
    <3>1. req[s] \in Pending
      BY <2>1, AtPlace
    <3>2. req'[r] = req[r] \/ req'[r].pc = "promoteServer"
      BY <1>0, <2>5, <3>1 DEF Pending
    <3> QED  BY SMTT(60), <3>2 DEF Free
  <2> QED  BY <2>2, <2>3, <2>4, <2>5
<1>6. ASSUME NEW s \in Request, PromoteToVoter(s) PROVE goal
  <2>1. req[s].pc = "promoteServer" /\ (Return(s, FALSE) \/ Goto(s, "add"))
    BY <1>6, ZenonT(30) DEF PromoteToVoter
  <2>2. CASE Return(s, FALSE)
    BY <1>0, <2>2, Returned
  <2>3. CASE Goto(s, "add")
    <3>1. PICK q \in Pending : req' = [req EXCEPT ![s] = q]
      BY SMTT(60), <1>0, <2>1, <2>3, AtPlace, Goes
    <3> QED  BY <1>0, <3>1, NotReturned
  <2> QED  BY <2>1, <2>2, <2>3
<1>7. ASSUME NEW s \in Request, LeaveMember(s) PROVE goal
  <2>1. req[s].pc = "leave" /\ UNCHANGED <<config, members>>
    BY <1>7 DEF LeaveMember
  <2>2. \/ Return(s, FALSE)
        \/ req[s].id \in dropped /\ config[req[s].id] = "none" /\ Return(s, TRUE)
        \/ req' = [req EXCEPT ![s].pc = "drop", ![s].inRaft = config[req[s].id] # "none"]
    BY <1>7, ZenonT(30) DEF LeaveMember
  <2>3. CASE Return(s, FALSE)
    BY <1>0, <2>3, Returned
  <2>4. CASE req[s].id \in dropped /\ config[req[s].id] = "none" /\ Return(s, TRUE)
    <3>1. s = r /\ last'.op = req[r].op /\ last'.id = req[r].id
      BY <1>0, <2>4, Returned
    <3>2. req[r].op = "Leave"
      BY <1>0, <2>1, <3>1 DEF Places, Pending
    <3>3. members[req[r].id] = NoMember
      BY <2>4, <3>1 DEF IInv, DroppedInv
    <3> QED  BY <2>1, <2>4, <3>1, <3>2, <3>3
  <2>5. CASE req' = [req EXCEPT ![s].pc = "drop", ![s].inRaft = config[req[s].id] # "none"]
    <3>1. req[s] \in Pending
      BY <2>1, AtPlace
    <3>2. req'[r] = req[r] \/ req'[r].pc = "drop"
      BY <1>0, <2>5, <3>1 DEF Pending
    <3> QED  BY <3>2 DEF Free
  <2> QED  BY <2>2, <2>3, <2>4, <2>5
<1>8. ASSUME NEW s \in Request, ApplyDropMember(s) PROVE goal
  <2>1. req[s].pc = "drop" /\ UNCHANGED <<config, accepted>>
    BY <1>8 DEF ApplyDropMember
  <2>2. \/ ~req[s].inRaft /\ Return(s, TRUE)
        \/ Goto(s, "remove")
    BY <1>8 DEF ApplyDropMember
  <2>3. CASE ~req[s].inRaft /\ Return(s, TRUE)
    <3>1. s = r /\ last'.op = req[r].op /\ last'.id = req[r].id /\ last'.alone = req[r].alone
      BY <1>0, <2>3, Returned
    <3>2. req[r].op = "Leave"
      BY <1>0, <2>1, <3>1 DEF Places, Pending
    <3>3. members'[req[r].id] = NoMember
      BY <1>8, <2>1, <3>1, AtPlace, DropMemberTables DEF ApplyDropMember
    <3>4. config[req[r].id] = "none"
      BY <2>1, <2>3, <3>1, ZenonT(30) DEF IInv, AloneInv
    <3> QED  BY <2>1, <3>1, <3>2, <3>3, <3>4
  <2>4. CASE Goto(s, "remove")
    <3>1. PICK q \in Pending : req' = [req EXCEPT ![s] = q]
      BY SMTT(60), <1>0, <2>1, <2>4, AtPlace, Goes
    <3> QED  BY <1>0, <3>1, NotReturned
  <2> QED  BY <2>2, <2>3, <2>4
<1>9. ASSUME NEW s \in Request, RemoveVoter(s) PROVE goal
  <2>1. req[s].pc = "remove" /\ UNCHANGED <<members, dropped, accepted, guests>>
    BY <1>9 DEF RemoveVoter
  <2>2. \/ RemoveServer(req[s].id) /\ Return(s, TRUE)
        \/ Return(s, FALSE)
    BY <1>9 DEF RemoveVoter
  <2>3. CASE Return(s, FALSE)
    BY <1>0, <2>3, Returned
  <2>4. CASE RemoveServer(req[s].id) /\ Return(s, TRUE)
    <3>1. s = r /\ last'.op = req[r].op /\ last'.id = req[r].id /\ last'.alone = req[r].alone
      BY <1>0, <2>4, Returned, ZenonT(30)
    <3>2. req[r].op = "Leave"
      BY <1>0, <2>1, <3>1 DEF Places, Pending
    <3>3. members[req[r].id] = NoMember
      BY <2>1, <3>1 DEF IInv, AloneInv
    <3>4. config'[req[r].id] = "none"
      BY <2>1, <2>4, <3>1, AtPlace, RemoveServerTables
    <3> QED  BY <2>1, <3>1, <3>2, <3>3, <3>4
  <2> QED  BY <2>2, <2>3, <2>4
<1>10. ASSUME NEW s \in Request, RejoinMember(s) PROVE goal
  <2>1. req[s].pc = "rejoin"
    BY <1>10 DEF RejoinMember
  <2>2. \/ Return(s, FALSE)
        \/ \E role : req' = [req EXCEPT ![s].pc = "add", ![s].role = role]
    BY <1>10 DEF RejoinMember
  <2>3. CASE Return(s, FALSE)
    BY <1>0, <2>3, Returned
  <2>4. ASSUME NEW role, req' = [req EXCEPT ![s].pc = "add", ![s].role = role] PROVE goal
    <3>1. req[s] \in Pending
      BY <2>1, AtPlace
    <3>2. req'[r] = req[r] \/ req'[r].pc = "add"
      BY <1>0, <2>4, <3>1 DEF Pending
    <3> QED  BY SMTT(60), <3>2 DEF Free
  <2> QED  BY <2>2, <2>3, <2>4
<1>11. ASSUME NEW s \in Request, RaftFails(s) PROVE goal
  <2>1. Return(s, FALSE)
    BY <1>11 DEF RaftFails
  <2> QED  BY <1>0, <2>1, Returned
<1>12. CASE LoseLeader \/ \E n \in Node : Elect(n) \/ AddSelf(n) \/ RemoveDeadMember(n)
  BY SMTT(60), <1>0, <1>12 DEF LoseLeader, Elect, AddSelf, RemoveDeadMember, Pending, Free
<1> QED
  BY <1>1, <1>2, <1>3, <1>4, <1>5, <1>6, <1>7, <1>8, <1>9, <1>10, <1>11, <1>12 DEF Next

(* leaveMember, promoteMember, rejoinMember and Join: for any instance, a  *)
(* request that returns ok and was alone has left the list and the Raft    *)
(* configuration as it promises, also when it repeats a failed one.        *)
THEOREM SuccessMeansDone == Spec => OkMeansDone
<1>1. IInv /\ [Next]_vars => [ReturnsDone]_vars
  <2> SUFFICES ASSUME IInv, Next PROVE ReturnsDone
    OBVIOUS
  <2> SUFFICES ASSUME NEW r \in Request, req[r] # Free, req'[r] = Free, last'.pc = "ok", last'.alone
               PROVE  LET id == last'.id IN
                      CASE last'.op = "Leave" -> config'[id] = "none" /\ members'[id] = NoMember
                        [] last'.op \in {"Join", "JoinObserver", "Rejoin"} ->
                              config'[id] # "none" /\ members'[id] # NoMember
                        [] last'.op \in {"Guest", "Promote"} -> members'[id] # NoMember
    BY ZenonT(30) DEF ReturnsDone
  <2>1. req[r].op \in {"Join", "JoinObserver", "Guest", "Promote", "Leave", "Rejoin"}
    BY DEF IInv, TypeInv, Pending
  <2> QED  BY <2>1, ReturnKeepsPromise
<1> QED  BY <1>1, Invariance, PTL DEF Spec, OkMeansDone

--------------------------------------------------------------------------------
(* The daemon's lifecycle and its configuration.                           *)

(* A configuration the load may return.                                    *)
Clamped(c) ==
    /\ c \in [Key -> Nat]
    /\ c.heartbeat > 0 => c.lease <= c.heartbeat

LEMMA SourcesTyped ==
  ASSUME NEW keys \in SUBSET Key, NEW f \in Sources(keys)
  PROVE  \A k \in DOMAIN f : f[k] \in Nat
<1>1. PICK K \in SUBSET keys :
        /\ f \in [K -> UNION {Given[k] : k \in K}]
        /\ \A k \in K : f[k] \in Given[k]
  <2> DEFINE From(K) == {g \in [K -> UNION {Given[k] : k \in K}] : \A k \in K : g[k] \in Given[k]}
  <2>1. f \in UNION {From(K) : K \in SUBSET keys}
    BY DEF Sources
  <2> HIDE DEF From
  <2>2. PICK K \in SUBSET keys : f \in From(K)
    BY <2>1
  <2> QED  BY <2>2 DEF From
<1>2. \A k \in Key : Given[k] \subseteq Nat
  <2>1. /\ Given["heartbeat"] \subseteq Nat /\ Given["election"] \subseteq Nat
        /\ Given["lease"] \subseteq Nat /\ Given["interval"] \subseteq Nat
    BY TimingAssumption DEF Given
  <2> QED  BY <2>1 DEF Key, RaftKey
<1> QED  BY <1>1, <1>2

LEMMA ClampRaftClamps ==
  ASSUME NEW c \in [Key -> Nat]
  PROVE  Clamped(clampRaft(c))
<1> DEFINE half == c.heartbeat \div 2
           lease == IF half = 0 THEN c.heartbeat ELSE half
<1>1. c.heartbeat \in Nat /\ c.lease \in Nat
  BY DEF Key, RaftKey
<1>2. half \in Nat /\ half <= c.heartbeat
  BY <1>1
<1> HIDE DEF half
<1>3. lease \in Nat /\ lease <= c.heartbeat
  BY <1>1, <1>2
<1>4. clampRaft(c) = IF c.heartbeat > 0 /\ c.lease > c.heartbeat THEN [c EXCEPT !.lease = lease] ELSE c
  BY DEF clampRaft, half
<1> HIDE DEF lease
<1> QED  BY <1>1, <1>3, <1>4 DEF Clamped, Key, RaftKey

LEMMA LoadClampsLease ==
  ASSUME NEW file \in Files, NEW env \in Environments
  PROVE  Clamped(LoadFrom(file, env)) /\ Validate(LoadFrom(file, env))
<1>1. /\ \A k \in DOMAIN file : file[k] \in Nat
      /\ \A k \in DOMAIN env : env[k] \in Nat
  <2>1. Files = Sources(Key) /\ Environments = Sources(RaftKey) /\ RaftKey \in SUBSET Key
    BY DEF Files, Environments, Key
  <2> QED  BY <2>1, SourcesTyped
<1>2. Defaults \in [Key -> Nat]
  BY SMTT(60) DEF Defaults, Key, RaftKey
<1>3. Merge(Merge(Defaults, file), env) \in [Key -> Nat]
  BY <1>1, <1>2 DEF Merge
<1>4. Clamped(LoadFrom(file, env))
  BY <1>3, ClampRaftClamps DEF LoadFrom
<1> QED  BY <1>4 DEF Validate, Clamped, Key, RaftKey

--------------------------------------------------------------------------------
(* The lease                                                               *)

LEMMA UnitFacts ==
  /\ Len(Units) = 7 /\ DOMAIN Units = 1 .. 7
  /\ Units[1] = "config" /\ Units[2] = "store" /\ Units[3] = "consensus" /\ Units[4] = "grpc"
  /\ Units[5] = "heartbeat" /\ Units[6] = "presence" /\ Units[7] = "announce"
  BY DEF Units

LEMMA ClosingFact == Closing = 2 .. 6
  BY UnitFacts DEF Closing

(* Raft's own default lease is longer than a short heartbeat, so a zero    *)
(* may be refused; nothing else is.                                        *)
LEMMA RefusesZeroOnly ==
  ASSUME NEW c, Clamped(c)
  PROVE  /\ Refusal(c) # "invalid"
         /\ Refusal(c) = "lease" => c.heartbeat = 0 \/ c.lease = 0
  BY SMTT(60) DEF Clamped, Refusal, RaftConfig, RaftKey, Key

LEMMA RefusalsSound ==
  ASSUME NEW unit \in {"config", "store", "consensus", "grpc", "heartbeat", "presence", "announce"},
         NEW why \in Refusals(unit)
  PROVE  why = "none" \/ (unit = "consensus" /\ why = Refusal(cfg))
<1>1. CASE unit = "config"
  <2>1. \A s \in Files \X Environments : Validate(LoadFrom(s[1], s[2]))
    BY LoadClampsLease
  <2>2. {s \in Files \X Environments : ~Validate(LoadFrom(s[1], s[2]))} = {}
    BY <2>1
  <2> QED  BY <1>1, <2>2 DEF Refusals
<1>2. CASE unit # "config"
  BY <1>2 DEF Refusals
<1> QED  BY <1>1, <1>2

Why == {"none", "short", "lease", "election", "invalid"}

Results == Seq(BOOLEAN)

Serving == [count : Int, running : Nat, results : Results]

AppTypeInv ==
    /\ main \in {"init", "close", "drain", "exit", "panicked"}
    /\ next \in 1 .. 8
    /\ serve \in Serving
    /\ wait \in [taken : BOOLEAN, err : BOOLEAN, why : Why]
    /\ fails \in Nat

(* The configuration is clamped from the moment it is loaded.              *)
CfgInv ==
    /\ main = "init" => wait.why = "none"
    /\ next > 1 => Clamped(cfg)
    /\ LeaseFits

LEMMA HeadTail ==
  ASSUME NEW q \in Results, q # <<>>
  PROVE  /\ Head(q) \in BOOLEAN
         /\ Tail(q) \in Results
         /\ Len(Tail(q)) = Len(q) - 1
         /\ Len(q) \in Nat \ {0}
  BY DEF Results

LEMMA Appended ==
  ASSUME NEW q \in Results, NEW b \in BOOLEAN
  PROVE  /\ Append(q, b) \in Results
         /\ Len(Append(q, b)) = Len(q) + 1
         /\ Len(q) \in Nat
  BY DEF Results

LEMMA ServingFields ==
  ASSUME NEW s \in Serving
  PROVE  s.count \in Int /\ s.running \in Nat /\ s.results \in Results
  BY DEF Serving

LEMMA ServingStarts ==
  ASSUME NEW s \in Serving, NEW c \in Int, NEW n \in Nat
  PROVE  [s EXCEPT !.count = c, !.running = n] \in Serving
  BY DEF Serving

LEMMA ServingTakes ==
  ASSUME NEW s \in Serving, NEW q \in Results
  PROVE  [s EXCEPT !.results = q] \in Serving
  BY DEF Serving

LEMMA ServingDrains ==
  ASSUME NEW s \in Serving, NEW c \in Int, NEW q \in Results
  PROVE  [s EXCEPT !.results = q, !.count = c] \in Serving
  BY DEF Serving

LEMMA ServingEnds ==
  ASSUME NEW s \in Serving, NEW n \in Nat, NEW q \in Results
  PROVE  [s EXCEPT !.running = n, !.results = q] \in Serving
  BY ZenonT(30) DEF Serving

LEMMA InitAppInv == AppInit => AppTypeInv /\ CfgInv
<1> SUFFICES ASSUME AppInit PROVE AppTypeInv /\ CfgInv
  OBVIOUS
<1>1. serve \in Serving
  BY DEF AppInit, Serving, Results
<1>2. wait \in [taken : BOOLEAN, err : BOOLEAN, why : Why]
  BY DEF AppInit, Why
<1> QED  BY <1>1, <1>2 DEF AppInit, AppTypeInv, CfgInv, LeaseFits

LEMMA AppTypeInvKept == AppTypeInv /\ [AppNext]_appVars => AppTypeInv'
<1> SUFFICES ASSUME AppTypeInv, [AppNext]_appVars PROVE AppTypeInv'
  OBVIOUS
<1>1. CASE InitUnit
  <2>1. serve' \in Serving
    <3>1. serve' = serve \/ \E n \in 1 .. 2 : serve' = [serve EXCEPT !.count = n, !.running = n]
      BY <1>1 DEF InitUnit
    <3>2. ASSUME NEW n \in 1 .. 2, serve' = [serve EXCEPT !.count = n, !.running = n]
          PROVE  serve' \in Serving
      <4>1. n \in Int /\ n \in Nat
        OBVIOUS
      <4>2. [serve EXCEPT !.count = n, !.running = n] \in Serving
        BY <4>1, ServingStarts DEF AppTypeInv
      <4> QED  BY <3>2, <4>2
    <3> QED  BY <3>1, <3>2 DEF AppTypeInv
  <2> QED  BY SMTT(60), <1>1, <2>1, UnitFacts DEF InitUnit, AppTypeInv
<1>2. CASE InitFails
  <2>1. PICK why \in Refusals(Units[next]) : wait' = [wait EXCEPT !.err = TRUE, !.why = why]
    BY <1>2 DEF InitFails
  <2>2. Units[next] \in {"config", "store", "consensus", "grpc", "heartbeat", "presence", "announce"}
    BY SMTT(60), <1>2, UnitFacts DEF InitFails, AppTypeInv
  <2>3. why = "none" \/ why = Refusal(cfg)
    BY <2>2, RefusalsSound
  <2>4. why \in Why
    BY <2>3 DEF Why, Refusal
  <2> QED  BY <1>2, <2>1, <2>4 DEF InitFails, AppTypeInv
<1>3. CASE Wait
  <2>1. CASE serve.results # <<>> /\ wait' = [wait EXCEPT !.taken = TRUE, !.err = Head(serve.results)] /\ serve' = [serve EXCEPT !.results = Tail(@)]
    <3>1. Head(serve.results) \in BOOLEAN /\ Tail(serve.results) \in Results
      BY <2>1, HeadTail, ServingFields DEF AppTypeInv
    <3>2. wait' \in [taken : BOOLEAN, err : BOOLEAN, why : Why]
      BY <2>1, <3>1 DEF AppTypeInv
    <3>3. serve' \in Serving
      BY <2>1, <3>1, ServingTakes DEF AppTypeInv
    <3> QED  BY <1>3, <3>2, <3>3 DEF Wait, AppTypeInv
  <2>2. CASE UNCHANGED <<wait, serve>>
    BY <1>3, <2>2 DEF Wait, AppTypeInv
  <2> QED  BY <1>3, <2>1, <2>2 DEF Wait
<1>4. CASE Drain
  <2>1. Head(serve.results) \in BOOLEAN /\ Tail(serve.results) \in Results
    BY <1>4, HeadTail, ServingFields DEF Drain, AppTypeInv
  <2> DEFINE e == wait.err \/ Head(serve.results)
  <2>2. e \in BOOLEAN /\ wait' = [wait EXCEPT !.err = e]
    BY <1>4 DEF Drain
  <2> HIDE DEF e
  <2>3. wait' \in [taken : BOOLEAN, err : BOOLEAN, why : Why]
    BY <2>2 DEF AppTypeInv
  <2>4. serve' \in Serving
    <3>1. serve' = [serve EXCEPT !.results = Tail(serve.results), !.count = serve.count - 1]
      BY <1>4 DEF Drain
    <3>2. serve.count - 1 \in Int
      BY SMTT(60), ServingFields DEF AppTypeInv
    <3> QED  BY <2>1, <3>1, <3>2, ServingDrains DEF AppTypeInv
  <2> QED  BY <1>4, <2>3, <2>4 DEF Drain, AppTypeInv
<1>5. CASE CloseUnit \/ CloseGRPC \/ CloseConsensus \/ Closed \/ Exit
  BY <1>5 DEF CloseUnit, CloseGRPC, CloseConsensus, Closed, Exit, AppTypeInv
<1>6. CASE GraceOver \/ ServeFails \/ ServeReturns \/ Signal \/ MonitorPanics
  <2>1. CASE ServeFails \/ ServeReturns
    <3>1. PICK b \in BOOLEAN :
            serve' = [serve EXCEPT !.running = serve.running - 1, !.results = Append(serve.results, b)]
      BY <2>1, Zenon DEF ServeFails, ServeReturns
    <3>2. Append(serve.results, b) \in Results
      BY Appended, ServingFields DEF AppTypeInv
    <3>3. serve.running - 1 \in Nat
      BY SMTT(60), <2>1, ServingFields DEF ServeFails, ServeReturns, AppTypeInv
    <3>4. serve' \in Serving
      BY <3>1, <3>2, <3>3, ServingEnds DEF AppTypeInv
    <3> QED  BY SMTT(60), <2>1, <3>4 DEF ServeFails, ServeReturns, AppTypeInv
  <2> QED  BY <1>6, <2>1 DEF GraceOver, Signal, MonitorPanics, AppTypeInv
<1>7. CASE Announce
  BY <1>7 DEF Announce, Load, Quiet, AppTypeInv
<1>8. CASE \E c \in Call \cup Stream : Arrives(c) \/ Ends(c)
  BY <1>8 DEF Arrives, Ends, AppTypeInv
<1>9. CASE UNCHANGED appVars
  BY <1>9 DEF appVars, AppTypeInv
<1> QED  BY <1>1, <1>2, <1>3, <1>4, <1>5, <1>6, <1>7, <1>8, <1>9 DEF AppNext, MainStep

LEMMA AppTyped == AppSpec => []AppTypeInv
  BY InitAppInv, AppTypeInvKept, PTL DEF AppSpec

LEMMA CfgInvKept == AppTypeInv /\ CfgInv /\ [AppNext]_appVars => CfgInv'
<1> SUFFICES ASSUME AppTypeInv, CfgInv, [AppNext]_appVars PROVE CfgInv'
  OBVIOUS
<1>1. CASE InitUnit
  <2>1. CASE next = 1
    <3>1. PICK file \in Files, env \in Environments : cfg' = LoadFrom(file, env)
      BY <1>1, <2>1, UnitFacts DEF InitUnit, InitConfig
    <3>2. Clamped(cfg')
      BY <3>1, LoadClampsLease
    <3> QED  BY <1>1, <2>1, <3>2, UnitFacts DEF InitUnit, AppTypeInv, CfgInv, LeaseFits
  <2>2. CASE next # 1
    BY SMTT(60), <1>1, <2>2, UnitFacts DEF InitUnit, AppTypeInv, CfgInv, LeaseFits
  <2> QED  BY <2>1, <2>2
<1>2. CASE InitFails
  <2>1. PICK why \in Refusals(Units[next]) : wait' = [wait EXCEPT !.err = TRUE, !.why = why]
    BY <1>2 DEF InitFails
  <2>2. Units[next] \in {"config", "store", "consensus", "grpc", "heartbeat", "presence", "announce"}
    BY SMTT(60), <1>2, UnitFacts DEF InitFails, AppTypeInv
  <2>3. why = "none" \/ (Units[next] = "consensus" /\ why = Refusal(cfg))
    BY <2>2, RefusalsSound
  <2>4. Units[next] = "consensus" => next > 1
    BY SMTT(60), UnitFacts DEF AppTypeInv
  <2>5. why # "invalid" /\ (why = "lease" => cfg.heartbeat = 0 \/ cfg.lease = 0)
    BY <2>3, <2>4, RefusesZeroOnly DEF CfgInv
  <2> QED  BY <1>2, <2>1, <2>5 DEF InitFails, AppTypeInv, CfgInv, LeaseFits
<1>3. CASE Wait \/ Drain
  BY <1>3 DEF Wait, Drain, AppTypeInv, CfgInv, LeaseFits
<1>4. CASE CloseUnit \/ CloseGRPC \/ CloseConsensus \/ Closed \/ Exit
  BY <1>4 DEF CloseUnit, CloseGRPC, CloseConsensus, Closed, Exit, CfgInv, LeaseFits
<1>5. CASE GraceOver \/ ServeFails \/ ServeReturns \/ Signal \/ MonitorPanics
  BY <1>5 DEF GraceOver, ServeFails, ServeReturns, Signal, MonitorPanics, CfgInv, LeaseFits
<1>6. CASE Announce
  BY <1>6 DEF Announce, Load, Quiet, CfgInv, LeaseFits
<1>7. CASE \E c \in Call \cup Stream : Arrives(c) \/ Ends(c)
  BY SMTT(60), <1>7 DEF Arrives, Ends, CfgInv, LeaseFits
<1>8. CASE UNCHANGED appVars
  BY <1>8 DEF appVars, CfgInv, LeaseFits
<1> QED  BY <1>1, <1>2, <1>3, <1>4, <1>5, <1>6, <1>7, <1>8 DEF AppNext, MainStep

(* LoadFrom, clampRaft and InitConsensus: whatever timings file and        *)
(* environment give, the load is never refused, and Raft refuses the lease *)
(* only when a zero stands for its own default.                            *)
THEOREM LeaseAlwaysFits == AppSpec => []LeaseFits
<1>1. CfgInv => LeaseFits
  BY DEF CfgInv
<1> QED  BY <1>1, InitAppInv, AppTyped, CfgInvKept, PTL DEF AppSpec

--------------------------------------------------------------------------------
(* The order of closing                                                    *)

(* CloseFns run in reverse: what is open is always an initial part of what *)
(* was started, and the server's unit is open while the server runs.       *)
UnitInv ==
    /\ up \subseteq 2 .. 6
    /\ main = "init" => up = {k \in 2 .. 6 : k < next}
    /\ \A k \in up : \A j \in 2 .. 6 : j < k => j \in up
    /\ server \in {"up", "graceful"} => 4 \in up
    /\ 4 \in up => raft = "live"
    /\ main = "init" /\ next > 3 => raft = "live"

LEMMA LastIsGreatest ==
  ASSUME up \subseteq 2 .. 6, up # {}
  PROVE  Last \in up /\ \A k \in up : k <= Last
<1>1. \E m \in up : \A k \in up : m >= k
  <2>1. \A k \in up : k = 2 \/ k = 3 \/ k = 4 \/ k = 5 \/ k = 6
    OBVIOUS
  <2>3. CASE 6 \in up
    BY SMTT(60), <2>1, <2>3
  <2>4. CASE 6 \notin up /\ 5 \in up
    BY SMTT(60), <2>1, <2>4
  <2>5. CASE 6 \notin up /\ 5 \notin up /\ 4 \in up
    BY SMTT(60), <2>1, <2>5
  <2>6. CASE 6 \notin up /\ 5 \notin up /\ 4 \notin up /\ 3 \in up
    BY SMTT(60), <2>1, <2>6
  <2>7. CASE 6 \notin up /\ 5 \notin up /\ 4 \notin up /\ 3 \notin up
    <3>1. PICK m \in up : TRUE
      OBVIOUS
    <3> QED  BY SMTT(60), <2>1, <2>7, <3>1
  <2> QED  BY <2>3, <2>4, <2>5, <2>6, <2>7
<1> DEFINE P(m) == \A k \in up : m >= k
<1>2. Last = CHOOSE m \in up : P(m)
  BY DEF Last, Max
<1>3. Last \in up /\ P(Last)
  BY <1>1, <1>2, ZenonT(30)
<1> QED  BY <1>3

LEMMA InitUnitInv == AppInit => UnitInv
  BY DEF AppInit, UnitInv

LEMMA UnitInvKept == AppTypeInv /\ UnitInv /\ [AppNext]_appVars => UnitInv'
<1> SUFFICES ASSUME AppTypeInv, UnitInv, [AppNext]_appVars PROVE UnitInv'
  OBVIOUS
<1>1. CASE InitUnit
  <2>1. /\ main = "init" /\ main' = "init" /\ next \in 1 .. 7 /\ next' = next + 1
        /\ up = {k \in 2 .. 6 : k < next} /\ up' = up \cup ({next} \cap (2 .. 6))
    BY SMTT(60), <1>1, UnitFacts, ClosingFact DEF InitUnit, AppTypeInv, UnitInv
  <2>2. up' = {k \in 2 .. 6 : k < next'}
    <3>1. ASSUME NEW k PROVE k \in up' <=> k \in 2 .. 6 /\ k < next'
      <4>1. k \in up' <=> k \in 2 .. 6 /\ (k < next \/ k = next)
        BY <2>1
      <4> QED  BY <2>1, <4>1
    <3> QED  BY <3>1
  <2>3. raft' = IF next = 3 THEN "live" ELSE raft
    BY <1>1, <2>1, UnitFacts DEF InitUnit
  <2>4. next # 4 => server' = server
    BY SMTT(60), <1>1, <2>1, UnitFacts DEF InitUnit
  <2> QED  BY SMTT(60), <2>1, <2>2, <2>3, <2>4 DEF UnitInv
<1>2. CASE InitFails \/ Wait
  BY <1>2 DEF InitFails, Wait, UnitInv
<1>3. ASSUME main = "close", up # {}, main' = main, next' = next,
             \/ up' = up
             \/ up' = up \ {Last},
             Last = 4 \/ server' = server, Last = 3 \/ raft' = raft,
             Last = 4 => server' \in {"graceful", "stopped"} /\ (up' # up => server' = "stopped")
      PROVE  UnitInv'
  <2>1. Last \in up /\ Last \in 2 .. 6 /\ \A k \in up : k <= Last
    BY <1>3, LastIsGreatest DEF UnitInv
  <2>2. /\ up' \subseteq 2 .. 6
        /\ \A k \in up' : \A j \in 2 .. 6 : j < k => j \in up'
    <3>1. CASE up' = up
      BY <3>1 DEF UnitInv
    <3>2. CASE up' = up \ {Last}
      <4>1. ASSUME NEW k \in up', NEW j \in 2 .. 6, j < k PROVE j \in up'
        <5>1. k \in up /\ k \in 2 .. 6 /\ k <= Last
          BY <2>1, <3>2 DEF UnitInv
        <5>2. j \in up
          BY <4>1, <5>1 DEF UnitInv
        <5>3. j # Last
          BY <2>1, <4>1, <5>1
        <5> QED  BY <3>2, <5>2, <5>3
      <4> QED  BY <3>2, <4>1 DEF UnitInv
    <3> QED  BY <1>3, <3>1, <3>2
  <2>3. server' \in {"up", "graceful"} => 4 \in up'
    BY <1>3, <2>1 DEF UnitInv
  <2>4. 4 \in up' => raft' = "live"
    BY <1>3, <2>1 DEF UnitInv
  <2> QED  BY <1>3, <2>2, <2>3, <2>4 DEF UnitInv
<1>4. up # {} => Last \in 2 .. 6
  BY LastIsGreatest, ZenonT(30) DEF UnitInv
<1>5. CASE CloseUnit
  BY <1>3, <1>4, <1>5, UnitFacts DEF CloseUnit
<1>6. CASE CloseGRPC
  BY <1>3, <1>4, <1>6, UnitFacts DEF CloseGRPC
<1>7. CASE CloseConsensus
  BY SMTT(60), <1>3, <1>4, <1>7, UnitFacts DEF CloseConsensus
<1>8. CASE Closed \/ Drain \/ Exit
  BY <1>8 DEF Closed, Drain, Exit, UnitInv
<1>9. CASE GraceOver \/ ServeFails \/ ServeReturns \/ Signal \/ MonitorPanics
  BY <1>9 DEF GraceOver, ServeFails, ServeReturns, Signal, MonitorPanics, UnitInv
<1>10. CASE Announce
  BY <1>10 DEF Announce, Load, Quiet, UnitInv
<1>11. CASE \E c \in Call \cup Stream : Arrives(c) \/ Ends(c)
  BY <1>11 DEF Arrives, Ends, UnitInv
<1>12. CASE UNCHANGED appVars
  BY <1>12 DEF appVars, UnitInv
<1> QED
  BY <1>1, <1>2, <1>5, <1>6, <1>7, <1>8, <1>9, <1>10, <1>11, <1>12 DEF AppNext, MainStep

(* InitApp, Close: whatever fails or is signalled when, a unit is closed   *)
(* only after the units started on top of it, and Raft is live as long as  *)
(* the server answers.                                                     *)
THEOREM UnitsOutliveUsers == AppSpec => []DependenciesOutlive
<1>1. UnitInv => DependenciesOutlive
  BY ClosingFact DEF UnitInv, DependenciesOutlive
<1> QED  BY <1>1, InitUnitInv, AppTyped, UnitInvKept, PTL DEF AppSpec

--------------------------------------------------------------------------------
(* The reported failure                                                    *)

Unread(q) == \E i \in 1 .. Len(q) : q[i] = TRUE

One(b) == IF b = TRUE THEN 1 ELSE 0

LEMMA UnreadTail ==
  ASSUME NEW q \in Results, q # <<>>, Unread(q)
  PROVE  Head(q) = TRUE \/ Unread(Tail(q))
<1>1. PICK i \in 1 .. Len(q) : q[i] = TRUE
  BY DEF Unread
<1>2. Len(q) \in Nat /\ Len(Tail(q)) = Len(q) - 1 /\ Head(q) = q[1]
  BY DEF Results
<1>3. CASE i = 1
  BY <1>1, <1>2, <1>3
<1>4. CASE i # 1
  <2>1. i - 1 \in 1 .. Len(Tail(q)) /\ Tail(q)[i - 1] = q[i]
    <3>1. \A j \in 1 .. Len(q) - 1 : Tail(q)[j] = q[j + 1]
      BY DEF Results
    <3>2. i - 1 \in 1 .. Len(q) - 1 /\ (i - 1) + 1 = i
      BY <1>2, <1>4
    <3> QED  BY <1>2, <3>1, <3>2
  <2> QED  BY <1>1, <2>1 DEF Unread
<1> QED  BY <1>3, <1>4

LEMMA UnreadAppend ==
  ASSUME NEW q \in Results, NEW b \in BOOLEAN
  PROVE  Unread(q) \/ b = TRUE => Unread(Append(q, b))
<1>1. /\ Len(q) \in Nat /\ Len(Append(q, b)) = Len(q) + 1
      /\ \A i \in 1 .. Len(q) : Append(q, b)[i] = q[i]
      /\ Append(q, b)[Len(q) + 1] = b
  BY DEF Results
<1>2. CASE Unread(q)
  <2>1. PICK i \in 1 .. Len(q) : q[i] = TRUE
    BY <1>2 DEF Unread
  <2>2. i \in 1 .. Len(Append(q, b)) /\ Append(q, b)[i] = TRUE
    BY <1>1, <2>1
  <2> QED  BY <2>2 DEF Unread
<1>3. CASE b = TRUE
  <2>1. Len(q) + 1 \in 1 .. Len(Append(q, b))
    BY <1>1
  <2> QED  BY <1>1, <1>3, <2>1 DEF Unread
<1> QED  BY <1>2, <1>3

(* Every serve goroutine is running, has a result in the channel, or was   *)
(* read; a failure is in the channel until it is the error.                *)
ServeInv ==
    /\ serve.count = serve.running + Len(serve.results) + One(wait.taken)
    /\ main = "init" /\ next <= 4 => serve.running = 0 /\ serve.results = <<>>
    /\ main = "init" => wait.taken = FALSE /\ wait.err = FALSE
    /\ main = "close" /\ next <= 7 => wait.err = TRUE
    /\ fails > 0 => wait.err = TRUE \/ Unread(serve.results)
    /\ main = "exit" /\ fails > 0 => wait.err = TRUE

LEMMA InitServeInv == AppInit => ServeInv
  BY SMTT(60) DEF AppInit, ServeInv, One

LEMMA ServeInvKept == AppTypeInv /\ ServeInv /\ [AppNext]_appVars => ServeInv'
<1> SUFFICES ASSUME AppTypeInv, ServeInv, [AppNext]_appVars PROVE ServeInv'
  OBVIOUS
<1>0. /\ serve \in Serving /\ serve.count \in Int /\ serve.running \in Nat /\ serve.results \in Results
      /\ Len(serve.results) \in Nat /\ fails \in Nat /\ next \in 1 .. 8
  BY SMTT(60), ServingFields DEF AppTypeInv, Results
<1>00. serve.count = serve.running + Len(serve.results) + One(wait.taken)
  BY ZenonT(30) DEF ServeInv
<1>1. CASE InitUnit
  <2>1. CASE next = 4
    <3>1. PICK n \in 1 .. 2 : serve' = [serve EXCEPT !.count = n, !.running = n]
      BY <1>1, <2>1, UnitFacts DEF InitUnit
    <3>2. serve'.count = n /\ serve'.running = n /\ serve'.results = <<>>
      BY SMTT(60), <1>0, <1>1, <2>1, <3>1 DEF Serving, ServeInv, InitUnit
    <3>3. /\ main = "init" /\ main' = main /\ next' = 5 /\ UNCHANGED <<wait, fails>>
      BY <1>1, <2>1 DEF InitUnit
    <3>4. fails > 0 => Unread(<<>>)
      BY <2>1, <3>3 DEF ServeInv
    <3>5. One(wait'.taken) = 0 /\ Len(<<>>) = 0
      BY <3>3 DEF ServeInv, One
    <3>6. serve'.count = serve'.running + Len(serve'.results) + One(wait'.taken)
      BY <3>2, <3>5
    <3>7. ~(next' <= 4) /\ main' # "close" /\ main' # "exit"
      BY <3>3
    <3>8. (main' = "init" => wait'.taken = FALSE /\ wait'.err = FALSE)
      BY <3>3, ZenonT(30) DEF ServeInv
    <3>9. fails' > 0 => Unread(serve'.results)
      BY <3>2, <3>3, <3>4
    <3> QED  BY <3>6, <3>7, <3>8, <3>9, ZenonT(30) DEF ServeInv
  <2>2. CASE next # 4
    <3>1. main = "init" /\ main' = main /\ next' = next + 1 /\ UNCHANGED <<wait, fails>>
      BY <1>1 DEF InitUnit
    <3>2. serve' = serve
      BY SMTT(60), <1>0, <1>1, <2>2, UnitFacts DEF InitUnit
    <3>3. /\ next' <= 4 => next <= 4
          /\ main' # "close" /\ main' # "exit"
      BY <1>0, <3>1
    <3> QED  BY <3>1, <3>2, <3>3, ZenonT(30) DEF ServeInv
  <2> QED  BY <2>1, <2>2
<1>2. CASE InitFails
  <2>1. PICK why \in Refusals(Units[next]) : wait' = [wait EXCEPT !.err = TRUE, !.why = why]
    BY <1>2 DEF InitFails
  <2>2. wait'.err = TRUE /\ wait'.taken = wait.taken
    BY <2>1 DEF AppTypeInv
  <2> QED  BY <1>2, <2>2 DEF InitFails, ServeInv
<1>3. CASE Wait
  <2>1. CASE /\ serve.results # <<>>
             /\ wait' = [wait EXCEPT !.taken = TRUE, !.err = Head(serve.results)]
             /\ serve' = [serve EXCEPT !.results = Tail(@)]
    <3>1. wait'.taken = TRUE /\ wait'.err = Head(serve.results)
      BY <2>1 DEF AppTypeInv
    <3>2. /\ serve'.count = serve.count /\ serve'.running = serve.running
          /\ serve'.results = Tail(serve.results)
      BY <1>0, <2>1 DEF Serving
    <3>3. Len(Tail(serve.results)) = Len(serve.results) - 1
      BY <1>0, <2>1, HeadTail
    <3>4. /\ main = "init" /\ main' = "close" /\ next' = next /\ next > 7 /\ fails' = fails
      BY <1>3, UnitFacts DEF Wait
    <3>5. fails > 0 => Head(serve.results) = TRUE \/ Unread(Tail(serve.results))
      BY <1>0, <2>1, <3>4, UnreadTail DEF ServeInv
    <3>6. One(wait.taken) = 0 /\ One(wait'.taken) = 1
      BY <3>1, <3>4 DEF ServeInv, One
    <3>7. serve'.count = serve'.running + Len(serve'.results) + One(wait'.taken)
      BY <1>0, <3>2, <3>3, <3>6 DEF ServeInv
    <3>8. fails' > 0 => wait'.err = TRUE \/ Unread(serve'.results)
      BY <3>1, <3>2, <3>4, <3>5
    <3> QED  BY <1>0, <3>4, <3>7, <3>8 DEF ServeInv
  <2>2. CASE UNCHANGED <<wait, serve>>
    BY <1>0, <1>3, <2>2, UnitFacts DEF Wait, ServeInv
  <2> QED  BY <1>3, <2>1, <2>2 DEF Wait
<1>4. CASE CloseUnit \/ CloseGRPC \/ CloseConsensus \/ GraceOver \/ Signal \/ MonitorPanics
  BY <1>4 DEF CloseUnit, CloseGRPC, CloseConsensus, GraceOver, Signal, MonitorPanics, ServeInv
<1>5. CASE Closed
  BY <1>0, <1>5, UnitFacts DEF Closed, ServeInv
<1>6. CASE Drain
  <2>1. wait'.taken = wait.taken /\ wait'.err = (wait.err \/ Head(serve.results))
    BY <1>6 DEF Drain, AppTypeInv
  <2>2. Head(serve.results) \in BOOLEAN /\ wait.err \in BOOLEAN
    BY <1>0, <1>6, HeadTail DEF Drain, AppTypeInv
  <2>3. wait.err = TRUE \/ Head(serve.results) = TRUE => wait'.err = TRUE
    BY <2>1, <2>2
  <2>4. /\ serve'.count = serve.count - 1 /\ serve'.running = serve.running
        /\ serve'.results = Tail(serve.results)
    BY <1>0, <1>6 DEF Drain, Serving
  <2>5. Len(Tail(serve.results)) = Len(serve.results) - 1
    BY <1>0, <1>6, HeadTail DEF Drain
  <2>6. main = "drain" /\ main' = main /\ fails' = fails
    BY <1>6 DEF Drain
  <2>7. fails > 0 => wait'.err = TRUE \/ Unread(Tail(serve.results))
    BY <1>0, <1>6, <2>3, UnreadTail DEF Drain, ServeInv
  <2>8. One(wait'.taken) = One(wait.taken) /\ One(wait.taken) \in Nat
    BY <2>1 DEF One
  <2>9. serve'.count = serve'.running + Len(serve'.results) + One(wait'.taken)
    BY <1>0, <1>00, <2>4, <2>5, <2>8
  <2>10. fails' > 0 => wait'.err = TRUE \/ Unread(serve'.results)
    BY <2>4, <2>6, <2>7
  <2> QED  BY <2>6, <2>9, <2>10 DEF ServeInv
<1>7. CASE Exit
  <2>1. serve.count = One(wait.taken)
    BY <1>7 DEF Exit, One, AppTypeInv
  <2>2. Len(serve.results) = 0
    BY <1>0, <2>1 DEF ServeInv, One
  <2>3. ~Unread(serve.results)
    BY <2>2 DEF Unread
  <2> QED  BY <1>7, <2>3 DEF Exit, ServeInv
<1>8. CASE ServeFails \/ ServeReturns
  <2>1. PICK b \in BOOLEAN :
          /\ serve' = [serve EXCEPT !.running = serve.running - 1, !.results = Append(serve.results, b)]
          /\ fails' # fails => b = TRUE
    BY <1>8, Zenon DEF ServeFails, ServeReturns
  <2>2. /\ serve'.count = serve.count /\ serve'.running = serve.running - 1
        /\ serve'.results = Append(serve.results, b)
    BY <1>0, <2>1 DEF Serving
  <2>3. Len(Append(serve.results, b)) = Len(serve.results) + 1
    BY <1>0, Appended
  <2>4. UNCHANGED <<main, next, wait>> /\ main # "exit" /\ serve.running > 0
    BY <1>8 DEF ServeFails, ServeReturns, Alive
  <2>5. fails' > 0 => wait'.err = TRUE \/ Unread(Append(serve.results, b))
    <3>1. CASE fails' = fails
      BY <1>0, <2>4, <3>1, UnreadAppend DEF ServeInv
    <3>2. CASE fails' # fails
      BY <1>0, <2>1, <3>2, UnreadAppend
    <3> QED  BY <3>1, <3>2
  <2>6. serve'.count = serve'.running + Len(serve'.results) + One(wait'.taken)
    <3>1. One(wait.taken) \in Nat /\ One(wait'.taken) = One(wait.taken)
      BY <2>4 DEF One
    <3>2. Len(serve'.results) = Len(serve.results) + 1
      BY <2>2, <2>3
    <3>3. serve'.count = serve.count /\ serve'.running = serve.running - 1
      BY <2>2
    <3> QED  BY <1>0, <1>00, <3>1, <3>2, <3>3
  <2>7. ~(main = "init" /\ next <= 4)
    BY <1>0, <2>4 DEF ServeInv
  <2> QED  BY <2>2, <2>4, <2>5, <2>6, <2>7, ZenonT(30) DEF ServeInv
<1>9. CASE Announce
  BY <1>9 DEF Announce, Load, Quiet, ServeInv
<1>10. CASE \E c \in Call \cup Stream : Arrives(c) \/ Ends(c)
  BY <1>10 DEF Arrives, Ends, ServeInv
<1>11. CASE UNCHANGED appVars
  BY <1>11 DEF appVars, ServeInv
<1> QED
  BY <1>1, <1>2, <1>3, <1>4, <1>5, <1>6, <1>7, <1>8, <1>9, <1>10, <1>11 DEF AppNext, MainStep

(* Wait, drainServeErr: for any number of failures, whichever of Stop and  *)
(* a failure was noticed first, the exit reports a serve goroutine that    *)
(* failed by itself.                                                       *)
THEOREM FailuresAreReported == AppSpec => []FailureReported
<1>1. ServeInv => FailureReported
  BY DEF ServeInv, FailureReported
<1> QED  BY <1>1, InitServeInv, AppTyped, ServeInvKept, PTL DEF AppSpec

================================================================================
