---------------------------- MODULE LockServiceProofs --------------------------
(***************************************************************************)
(* For any daemons, observers, clients, names, holders and TTLs, and for   *)
(* every order of forwarding, elections, expiries and deadlines: clients   *)
(* with different holders never own one token, a renewal keeps the TTL it  *)
(* reuses, freeing a name leaves nobody parked, and a daemon that knows it *)
(* is an observer grants nothing.                                          *)
(***************************************************************************)
EXTENDS LockService, TLAPS

(* Most steps are first-order: Zenon first, SMT for what it does not find. *)
USE ZenonT(30), SMTT(60)

TTL == MinTTL .. MaxTTL

Busy == {"serve", "try", "apply", "refused", "parked", "woken"}

(* A call in progress.                                                     *)
Request == [pc : Busy, op : Op, name : Name, at : Node, ms : Nat, ttl : Nat, knew : BOOLEAN]

TypeInv ==
    /\ table \in Table
    /\ leader \in (Node \ Observer) \cup {NoNode}
    /\ view \in [Node -> Node]
    /\ aware \subseteq Observer
    /\ call \in [Client -> Request \cup {Idle}]
    /\ DOMAIN answer = Client
    /\ grant \in [Client -> Nat]

(* Tokens come from the counter and name one grant; TTLs are in range.     *)
Sound(t) ==
    /\ \A a \in Name : t.locks[a] # NoLock =>
           t.locks[a].token \in 1 .. t.next /\ t.locks[a].ttl \in TTL
    /\ \A a, b \in Name :
           t.locks[a] # NoLock /\ t.locks[b] # NoLock /\ t.locks[a].token = t.locks[b].token
               => a = b

(* The handler has fixed the TTL.                                          *)
Served(r) == r.pc \in Busy \ {"serve"}

(* A client's token was granted, and while it is on some name, that name   *)
(* has a holder of the client's.                                           *)
OwnInv(c) ==
    /\ grant[c] <= table.next
    /\ \A a \in Name : table.locks[a] # NoLock /\ table.locks[a].token = grant[c]
           => table.locks[a].holder \in Holders(c)

Alone(c) == \A d \in Client \ {c} : Apart(c, d)

(* A renewal without a TTL ...                                             *)
Reuses(c) == Served(call[c]) /\ call[c].op = "Renew" /\ call[c].ms = 0

(* ... carries the TTL of the grant it will find.                          *)
Carries(c) ==
    LET g == table.locks[call[c].name]
    IN  g # NoLock /\ g.token = grant[c] => g.ttl = call[c].ttl

(* The TTL is in range once it is fixed, and a call to a daemon that knew  *)
(* it is an observer has got no further.                                   *)
CallInv(c) ==
    /\ Served(call[c]) => call[c].ttl \in TTL
    /\ Alone(c) /\ Reuses(c) => Carries(c)
    /\ Active(c) /\ call[c].knew => call[c].pc = "serve" /\ call[c].at \in aware

(* OneClientPerToken is not inductive alone: a holder that asks again is   *)
(* given the token the table has, so what the table says of a token must   *)
(* fit every client that was ever told of it.                              *)
IInv ==
    /\ TypeInv
    /\ Sound(table)
    /\ \A c \in Client : OwnInv(c) /\ CallInv(c)
    /\ OneClientPerToken

--------------------------------------------------------------------------------
(* What a command does to the table.                                       *)

(* A grant that is there afterwards was there before, its TTL perhaps set  *)
(* by its own holder h, or is the one new grant, made for h.               *)
KeptIn(t, u, h, ttl, a) ==
    /\ t.locks[a] # NoLock
    /\ u.locks[a].token = t.locks[a].token
    /\ u.locks[a].holder = t.locks[a].holder
    /\ u.locks[a].ttl # t.locks[a].ttl => u.locks[a].ttl = ttl /\ u.locks[a].holder = h

NewIn(t, u, h, ttl, a) ==
    /\ t.locks[a] = NoLock
    /\ u.next = t.next + 1
    /\ u.locks[a].token = t.next + 1 /\ u.locks[a].holder = h /\ u.locks[a].ttl = ttl
    /\ \A b \in Name \ {a} : u.locks[b] = t.locks[b]

Moves(t, u, h, ttl) ==
    /\ u \in Table
    /\ t.next <= u.next
    /\ \A a \in Name : u.locks[a] # NoLock => KeptIn(t, u, h, ttl, a) \/ NewIn(t, u, h, ttl, a)

LEMMA TableShape ==
    ASSUME NEW t \in Table
    PROVE  /\ t.locks \in [Name -> Record \cup {NoLock}] /\ t.next \in Nat
           /\ t = [locks |-> t.locks, next |-> t.next]
  BY DEF Table

LEMMA SameMoves ==
    ASSUME NEW t \in Table, NEW h, NEW ttl
    PROVE  Moves(t, t, h, ttl)
  BY TableShape DEF Moves, KeptIn

LEMMA DropMoves ==
    ASSUME NEW t \in Table, NEW nm \in Name, NEW h, NEW ttl
    PROVE  Moves(t, Drop(t, nm), h, ttl) /\ Drop(t, nm).locks[nm] = NoLock
<1> DEFINE u == Drop(t, nm)
<1>1. /\ u.next = t.next /\ u.locks = [t.locks EXCEPT ![nm] = NoLock] /\ u \in Table
  BY TableShape DEF Drop, Table
<1>2. u.locks[nm] = NoLock /\ \A a \in Name \ {nm} : u.locks[a] = t.locks[a]
  BY <1>1, TableShape
<1> QED  BY SMTT(60), <1>1, <1>2, TableShape DEF Moves, KeptIn

LEMMA RefreshMoves ==
    ASSUME NEW t \in Table, NEW nm \in Name, NEW h, NEW ttl \in TTL, t.locks[nm] # NoLock,
           t.locks[nm].holder = h
    PROVE  /\ Moves(t, Refresh(t, nm, 1, ttl), h, ttl)
           /\ \A a \in Name : t.locks[a] # NoLock => Refresh(t, nm, 1, ttl).locks[a] # NoLock
           /\ Refresh(t, nm, 1, ttl).locks[nm].ttl = ttl
           /\ Refresh(t, nm, 1, ttl).locks[nm].holder = h
<1> DEFINE u == Refresh(t, nm, 1, ttl)
           r == [holder |-> t.locks[nm].holder, token |-> t.locks[nm].token,
                 deadline |-> 1, ttl |-> ttl]
<1>0. t.locks[nm] \in Record /\ ttl \in 0 .. MaxTTL
  BY SMTT(60), TableShape, TTLAssumption DEF TTL
<1>1. r \in Record
  BY <1>0 DEF Record
<1>2. u.next = t.next /\ u.locks = [t.locks EXCEPT ![nm] = r] /\ u = [locks |-> u.locks, next |-> u.next]
  BY SMTT(60), TableShape DEF Refresh
<1> HIDE DEF u
<1>3. u \in Table
  BY <1>1, <1>2, TableShape DEF Table
<1>4. u.locks[nm] = r /\ \A a \in Name \ {nm} : u.locks[a] = t.locks[a]
  BY <1>2, TableShape
<1>5. r # NoLock
  BY <1>1, NoLockAssumption
<1>6. r.holder = h /\ r.token = t.locks[nm].token /\ r.ttl = ttl
  OBVIOUS
<1> HIDE DEF r
<1>7. KeptIn(t, u, h, ttl, nm)
  BY <1>4, <1>6 DEF KeptIn
<1>8. \A a \in Name \ {nm} : u.locks[a] # NoLock => KeptIn(t, u, h, ttl, a)
  BY <1>4 DEF KeptIn
<1>9. Moves(t, u, h, ttl)
  BY SMTT(60), <1>2, <1>3, <1>7, <1>8, TableShape DEF Moves
<1>10. \A a \in Name : t.locks[a] # NoLock => u.locks[a] # NoLock
  BY <1>4, <1>5
<1> QED  BY <1>4, <1>6, <1>9, <1>10 DEF u

LEMMA NewGrantMoves ==
    ASSUME NEW t \in Table, NEW nm \in Name, NEW h \in Holder, NEW ttl \in TTL,
           t.locks[nm] = NoLock
    PROVE  /\ Moves(t, NewGrant(t, nm, h, 1, ttl), h, ttl)
           /\ \A a \in Name : t.locks[a] # NoLock => NewGrant(t, nm, h, 1, ttl).locks[a] # NoLock
           /\ NewGrant(t, nm, h, 1, ttl).locks[nm] # NoLock
           /\ NewGrant(t, nm, h, 1, ttl).locks[nm].holder = h
<1> DEFINE u == NewGrant(t, nm, h, 1, ttl)
           r == [holder |-> h, token |-> t.next + 1, deadline |-> 1, ttl |-> ttl]
<1>0. ttl \in 0 .. MaxTTL /\ t.next + 1 \in Nat
  BY SMTT(60), TableShape, TTLAssumption DEF TTL
<1>1. r \in Record
  BY <1>0 DEF Record
<1>2. /\ u.next = t.next + 1 /\ u.locks = [t.locks EXCEPT ![nm] = r]
      /\ u = [locks |-> u.locks, next |-> u.next]
  BY DEF NewGrant
<1> HIDE DEF u
<1>3. u \in Table
  BY SMTT(60), <1>0, <1>1, <1>2, TableShape DEF Table
<1>4. u.locks[nm] = r /\ \A a \in Name \ {nm} : u.locks[a] = t.locks[a]
  BY <1>2, TableShape
<1>5. r # NoLock
  BY <1>1, NoLockAssumption
<1>6. r.holder = h /\ r.token = t.next + 1 /\ r.ttl = ttl
  OBVIOUS
<1> HIDE DEF r
<1>7. NewIn(t, u, h, ttl, nm)
  BY <1>2, <1>4, <1>6 DEF NewIn
<1>8. \A a \in Name \ {nm} : u.locks[a] # NoLock => KeptIn(t, u, h, ttl, a)
  BY <1>4 DEF KeptIn
<1>9. t.next <= u.next
  BY SMTT(60), <1>2, TableShape
<1>10. Moves(t, u, h, ttl)
  BY <1>3, <1>7, <1>8, <1>9 DEF Moves
<1>11. \A a \in Name : t.locks[a] # NoLock => u.locks[a] # NoLock
  BY <1>4
<1> QED  BY <1>4, <1>5, <1>6, <1>10, <1>11 DEF u

(* The invariant of the table.                                             *)
LEMMA MovesSound ==
    ASSUME NEW t \in Table, NEW u, NEW h, NEW ttl \in TTL, Sound(t), Moves(t, u, h, ttl)
    PROVE  Sound(u)
<1>0. t.next \in Nat /\ u.next \in Nat /\ t.next <= u.next
  BY TableShape DEF Moves
<1>1. ASSUME NEW a \in Name, u.locks[a] # NoLock
      PROVE  /\ KeptIn(t, u, h, ttl, a) \/ NewIn(t, u, h, ttl, a)
             /\ u.locks[a].token \in 1 .. u.next /\ u.locks[a].ttl \in TTL
             /\ KeptIn(t, u, h, ttl, a) => u.locks[a].token <= t.next
  <2>1. KeptIn(t, u, h, ttl, a) \/ NewIn(t, u, h, ttl, a)
    BY <1>1 DEF Moves
  <2>2. CASE KeptIn(t, u, h, ttl, a)
    <3>1. t.locks[a].token \in 1 .. t.next /\ t.locks[a].ttl \in TTL
      BY <2>2 DEF Sound, KeptIn
    <3>2. u.locks[a].token = t.locks[a].token
      BY <2>2 DEF KeptIn
    <3>3. u.locks[a].ttl \in TTL
      BY <2>2, <3>1 DEF KeptIn
    <3> QED  BY <1>0, <2>1, <3>1, <3>2, <3>3
  <2>3. CASE NewIn(t, u, h, ttl, a)
    <3>1. u.locks[a].token = t.next + 1 /\ u.next = t.next + 1 /\ u.locks[a].ttl = ttl
      BY <2>3 DEF NewIn
    <3>2. ~KeptIn(t, u, h, ttl, a)
      BY <2>3 DEF NewIn, KeptIn
    <3> QED  BY <1>0, <2>1, <3>1, <3>2
  <2> QED  BY <2>1, <2>2, <2>3
<1>2. ASSUME NEW a \in Name, NEW b \in Name, u.locks[a] # NoLock, u.locks[b] # NoLock,
             u.locks[a].token = u.locks[b].token
      PROVE  a = b
  <2>1. CASE KeptIn(t, u, h, ttl, a) /\ KeptIn(t, u, h, ttl, b)
    BY <1>2, <2>1 DEF KeptIn, Sound
  <2>2. CASE NewIn(t, u, h, ttl, a)
    <3>1. SUFFICES ASSUME b # a PROVE FALSE
      OBVIOUS
    <3>2. KeptIn(t, u, h, ttl, b)
      BY <1>1, <1>2, <2>2, <3>1 DEF NewIn
    <3>3. u.locks[b].token <= t.next /\ u.locks[a].token = t.next + 1
      BY <1>1, <1>2, <2>2, <3>2 DEF NewIn
    <3> QED  BY <1>0, <1>2, <3>3
  <2>3. CASE NewIn(t, u, h, ttl, b)
    <3>1. SUFFICES ASSUME b # a PROVE FALSE
      OBVIOUS
    <3>2. KeptIn(t, u, h, ttl, a)
      BY <1>1, <1>2, <2>3, <3>1 DEF NewIn
    <3>3. u.locks[a].token <= t.next /\ u.locks[b].token = t.next + 1
      BY <1>1, <1>2, <2>3, <3>2 DEF NewIn
    <3> QED  BY <1>0, <1>2, <3>3
  <2> QED  BY <1>1, <1>2, <2>1, <2>2, <2>3
<1> QED  BY <1>1, <1>2 DEF Sound

--------------------------------------------------------------------------------
(* What a step of the clients A, or of the environment when A is empty,    *)
(* may do.                                                                 *)

Like(r, q) ==
    /\ q.op = r.op /\ q.name = r.name /\ q.at = r.at
    /\ q.ms = r.ms /\ q.ttl = r.ttl /\ q.knew = r.knew

(* A bystander's call is where it was, or has been woken.                  *)
Stays(r, q) ==
    \/ q = r
    \/ r \in Request /\ q \in Request /\ Like(r, q) /\ r.pc = "parked" /\ q.pc = "woken"

TableStep(A) ==
    \/ table' = table
    \/ \E nm \in Name : table' = Drop(table, nm)
    \/ \E c \in A : \E h \in Holders(c), ttl \in TTL : Moves(table, table', h, ttl)

(* A client keeps its token, loses it, or is told the token of a grant     *)
(* that has its holder.                                                    *)
Told(c) ==
    \/ grant'[c] \in {0, grant[c]}
    \/ \E a \in Name : /\ table'.locks[a] # NoLock
                        /\ table'.locks[a].holder \in Holders(c)
                        /\ grant'[c] = table'.locks[a].token

Wakened ==
    \A nm \in Name : table.locks[nm] # NoLock /\ table'.locks[nm] = NoLock
        => \A c \in Client : call'[c].pc # "parked"

RenewedRight(c) ==
    /\ Alone(c) /\ call[c].pc = "apply" /\ call[c].op = "Renew" /\ call[c].ms = 0
    /\ answer'[c] = "OK" /\ call'[c] = Idle
    => /\ table.locks[call[c].name] # NoLock
       /\ table'.locks[call[c].name].ttl = table.locks[call[c].name].ttl

Effect(A) ==
    /\ TypeInv'
    /\ aware \subseteq aware'
    /\ TableStep(A)
    /\ Wakened
    /\ \A d \in Client \ A : Stays(call[d], call'[d]) /\ grant'[d] = grant[d]
    /\ \A c \in A : /\ Told(c)
                    /\ CallInv(c)'
                    /\ RenewedRight(c)
                    /\ Active(c) /\ call[c].knew => grant'[c] = grant[c]

LEMMA OwnKept ==
    ASSUME IInv, TypeInv', NEW h, NEW ttl \in TTL, Moves(table, table', h, ttl),
           \A c \in Client : Told(c)
    PROVE  (\A c \in Client : OwnInv(c)') /\ OneClientPerToken'
<1>0. /\ table \in Table /\ Sound(table) /\ table.next \in Nat /\ table'.next \in Nat
      /\ table.next <= table'.next /\ Sound(table')
      /\ \A c \in Client : grant[c] \in Nat /\ grant[c] <= table.next
  BY MovesSound, TableShape DEF IInv, TypeInv, Moves, OwnInv
<1>1. ASSUME NEW c \in Client PROVE grant'[c] <= table'.next
  <2>1. CASE grant'[c] \in {0, grant[c]}
    BY <1>0, <2>1
  <2>2. CASE ~(grant'[c] \in {0, grant[c]})
    BY SMTT(60), <1>0, <2>2 DEF Told, Sound
  <2> QED  BY <2>1, <2>2
<1>2. ASSUME NEW c \in Client, NEW a \in Name, table'.locks[a] # NoLock,
             table'.locks[a].token = grant'[c]
      PROVE  table'.locks[a].holder \in Holders(c)
  <2>1. CASE grant'[c] = 0
    BY <1>0, <1>2, <2>1 DEF Sound
  <2>2. CASE grant'[c] = grant[c]
    <3>1. ~NewIn(table, table', h, ttl, a)
      BY <1>0, <1>2, <2>2 DEF NewIn
    <3>2. KeptIn(table, table', h, ttl, a)
      BY <1>2, <3>1 DEF Moves
    <3>3. table.locks[a] # NoLock /\ table.locks[a].token = grant[c]
      BY <1>2, <2>2, <3>2 DEF KeptIn
    <3>4. table.locks[a].holder \in Holders(c)
      BY <3>3 DEF IInv, OwnInv
    <3> QED  BY <3>2, <3>4 DEF KeptIn
  <2>3. ASSUME NEW b \in Name, table'.locks[b] # NoLock, table'.locks[b].holder \in Holders(c),
               grant'[c] = table'.locks[b].token
        PROVE  table'.locks[a].holder \in Holders(c)
    <3>1. a = b
      BY <1>0, <1>2, <2>3 DEF Sound
    <3> QED  BY <2>3, <3>1
  <2> QED  BY <2>1, <2>2, <2>3 DEF Told
<1>3. ASSUME NEW c \in Client, NEW d \in Client, Apart(c, d), grant'[c] # 0, grant'[c] = grant'[d]
      PROVE  FALSE
  <2>1. CASE grant'[c] = grant[c] /\ grant'[d] = grant[d]
    BY <1>3, <2>1 DEF IInv, OneClientPerToken
  <2>2. ASSUME NEW a \in Name, table'.locks[a] # NoLock,
               table'.locks[a].holder \in Holders(c) \/ table'.locks[a].holder \in Holders(d),
               grant'[c] = table'.locks[a].token
        PROVE  FALSE
    <3>1. table'.locks[a].holder \in Holders(c) /\ table'.locks[a].holder \in Holders(d)
      BY <1>2, <1>3, <2>2
    <3> QED  BY <1>3, <3>1 DEF Apart
  <2> QED  BY <1>3, <2>1, <2>2 DEF Told
<1>4. \A c, d \in Client : Apart(c, d) /\ grant'[c] # 0 => grant'[c] # grant'[d]
  BY <1>3
<1>5. OneClientPerToken'
  BY <1>4 DEF OneClientPerToken, Apart, Holders
<1>6. \A c \in Client : OwnInv(c)'
  BY <1>1, <1>2 DEF OwnInv, Holders
<1> QED  BY <1>5, <1>6

(* No one but the client sets the TTL of a grant with its holder.          *)
Undisturbed(c) ==
    \A a \in Name :
        table'.locks[a] # NoLock /\ table.locks[a] # NoLock /\ table'.locks[a].holder \in Holders(c)
            => table'.locks[a].ttl = table.locks[a].ttl

LEMMA CarriesKept ==
    ASSUME IInv, NEW c \in Client, Carries(c), NEW h, NEW ttl, Moves(table, table', h, ttl),
           Undisturbed(c), call[c].name \in Name,
           call'[c].name = call[c].name, call'[c].ttl = call[c].ttl, grant'[c] = grant[c]
    PROVE  Carries(c)'
<1> DEFINE nm == call[c].name
           g == table.locks[nm]
           f == table'.locks[nm]
<1> SUFFICES ASSUME f # NoLock, f.token = grant[c]
             PROVE  f.ttl = call[c].ttl
  BY DEF Carries
<1>0. grant[c] \in Nat /\ table.next \in Nat /\ grant[c] <= table.next
  BY TableShape DEF IInv, TypeInv, OwnInv
<1>1. ~NewIn(table, table', h, ttl, nm)
  BY SMTT(60), <1>0 DEF NewIn
<1>2. KeptIn(table, table', h, ttl, nm)
  BY <1>1 DEF Moves
<1>3. g # NoLock /\ g.token = grant[c] /\ f.holder = g.holder
  BY <1>2 DEF KeptIn
<1>4. g.holder \in Holders(c)
  BY <1>3 DEF IInv, OwnInv
<1>5. f.ttl = g.ttl
  BY <1>3, <1>4 DEF Undisturbed
<1> QED  BY <1>3, <1>5 DEF Carries

(* What a step that moves the table leaves of the others' TTLs.            *)
LEMMA OthersUndisturbed ==
    ASSUME IInv, NEW A \in SUBSET Client, TableStep(A), NEW d \in Client \ A, Alone(d)
    PROVE  Undisturbed(d) /\ \E h, ttl : Moves(table, table', h, ttl)
<1>0. table \in Table
  BY DEF IInv, TypeInv
<1>1. CASE table' = table
  BY <1>0, <1>1, SameMoves DEF Undisturbed
<1>2. ASSUME NEW nm \in Name, table' = Drop(table, nm)
      PROVE  Undisturbed(d) /\ \E h, ttl : Moves(table, table', h, ttl)
  <2>1. /\ Moves(table, table', d, 0)
        /\ \A a \in Name \ {nm} : table'.locks[a] = table.locks[a]
        /\ table'.locks[nm] = NoLock
    BY <1>0, <1>2, DropMoves, TableShape DEF Drop
  <2> QED  BY <2>1 DEF Undisturbed
<1>3. ASSUME NEW c \in A, NEW h \in Holders(c), NEW ttl \in TTL, Moves(table, table', h, ttl)
      PROVE  Undisturbed(d) /\ \E hh, tt : Moves(table, table', hh, tt)
  <2>1. h \notin Holders(d)
    BY <1>3 DEF Alone, Apart
  <2>2. ASSUME NEW a \in Name, table'.locks[a] # NoLock, table.locks[a] # NoLock,
               table'.locks[a].holder \in Holders(d)
        PROVE  table'.locks[a].ttl = table.locks[a].ttl
    <3>1. KeptIn(table, table', h, ttl, a)
      BY <1>3, <2>2 DEF Moves, NewIn
    <3> QED  BY <2>1, <2>2, <3>1 DEF KeptIn
  <2> QED  BY <1>3, <2>2 DEF Undisturbed
<1> QED  BY <1>1, <1>2, <1>3 DEF TableStep

LEMMA BystanderInv ==
    ASSUME IInv, NEW A \in SUBSET Client, TableStep(A), aware \subseteq aware', NEW d \in Client \ A,
           Stays(call[d], call'[d]), grant'[d] = grant[d]
    PROVE  CallInv(d)'
<1>0. CallInv(d)
  BY DEF IInv
<1>1. /\ Served(call'[d]) => Served(call[d])
      /\ Active(d)' => Active(d)
      /\ call[d] # call'[d] => Served(call[d]) /\ call[d].pc = "parked"
  BY DEF Stays, Served, Active, Busy
<1>2. Active(d)' => Like(call[d], call'[d])
  BY DEF Stays, Like
<1>3. Served(call'[d]) => call'[d].ttl \in TTL
  BY <1>0, <1>1, <1>2 DEF CallInv, Like, Served, Busy, Active
<1>4. ASSUME Alone(d), Reuses(d)' PROVE Carries(d)'
  <2>1. Like(call[d], call'[d]) /\ Reuses(d)
    BY <1>1, <1>2, <1>4 DEF Reuses, Like, Served, Busy, Active
  <2>2. Carries(d)
    BY <1>0, <1>4, <2>1 DEF CallInv
  <2>3. PICK h, ttl : Moves(table, table', h, ttl)
    BY <1>4, OthersUndisturbed
  <2>4. Undisturbed(d)
    BY <1>4, OthersUndisturbed
  <2>5. call[d].name \in Name
    <3>1. call[d] \in Request \cup {Idle}
      BY DEF IInv, TypeInv
    <3> QED  BY SMTT(60), <2>1, <3>1 DEF Reuses, Served, Busy, Idle, Request
  <2> QED  BY <2>1, <2>2, <2>3, <2>4, <2>5, CarriesKept DEF Like
<1>5. ASSUME Active(d)', call'[d].knew
      PROVE  call'[d].pc = "serve" /\ call'[d].at \in aware'
  <2>1. Like(call[d], call'[d]) /\ Active(d) /\ call[d].knew
    BY <1>1, <1>2, <1>5 DEF Like
  <2>2. call[d].pc = "serve" /\ call[d].at \in aware
    BY <1>0, <2>1 DEF CallInv
  <2> QED  BY <1>1, <2>2
<1> QED  BY <1>3, <1>4, <1>5 DEF CallInv, Alone, Apart, Holders

LEMMA EffectIInv ==
    ASSUME IInv, NEW A \in SUBSET Client, Effect(A)
    PROVE  IInv'
<1>0. table \in Table /\ Sound(table) /\ MinTTL \in TTL
  BY SMTT(60), TTLAssumption DEF IInv, TypeInv, TTL
<1>1. PICK h : \E ttl \in TTL : Moves(table, table', h, ttl)
  <2>1. CASE table' = table
    BY <1>0, <2>1, SameMoves
  <2>2. ASSUME NEW nm \in Name, table' = Drop(table, nm)
        PROVE  \E h : \E ttl \in TTL : Moves(table, table', h, ttl)
    BY <1>0, <2>2, DropMoves
  <2> QED  BY <2>1, <2>2 DEF Effect, TableStep
<1>2. \A c \in Client : Told(c)
  BY DEF Effect, Told
<1>3. (\A c \in Client : OwnInv(c)') /\ OneClientPerToken'
  BY <1>1, <1>2, OwnKept DEF Effect
<1>4. Sound(table')
  BY <1>0, <1>1, MovesSound
<1>5. \A c \in Client : CallInv(c)'
  BY BystanderInv DEF Effect
<1> QED  BY <1>3, <1>4, <1>5 DEF IInv, Effect, Sound

(* The action properties, from the same summary.                           *)
LEMMA EffectProperties ==
    ASSUME IInv, NEW A \in SUBSET Client, Effect(A)
    PROVE  /\ \A c \in Client : Active(c) /\ call[c].knew => grant'[c] = grant[c]
           /\ \A c \in Client : RenewedRight(c)
           /\ Wakened
<1>1. ASSUME NEW c \in Client \ A PROVE RenewedRight(c)
  <2>1. Stays(call[c], call'[c])
    BY DEF Effect
  <2> QED  BY <2>1 DEF Stays, RenewedRight, Idle
<1> QED  BY <1>1 DEF Effect

--------------------------------------------------------------------------------
(* The actions.                                                            *)

LEMMA CallTypes ==
    ASSUME TypeInv, NEW c \in Client
    PROVE  /\ call[c] \in Request \cup {Idle}
           /\ Active(c) => call[c] \in Request
           /\ call[c] \in Request => Active(c) /\ call[c].pc \in Busy /\ call[c].op \in Op
                 /\ call[c].name \in Name /\ call[c].at \in Node /\ call[c].ms \in Nat
                 /\ call[c].ttl \in Nat /\ call[c].knew \in BOOLEAN
<1>1. call[c] \in Request \cup {Idle}
  BY DEF TypeInv
<1>2. Active(c) => call[c] \in Request
  BY <1>1 DEF Active, Idle
<1> QED  BY <1>1, <1>2 DEF Request, Active, Busy

LEMMA SetPc ==
    ASSUME NEW r \in Request, NEW p \in Busy
    PROVE  /\ [r EXCEPT !.pc = p] \in Request
           /\ [r EXCEPT !.pc = p].pc = p
           /\ Like(r, [r EXCEPT !.pc = p])
  BY DEF Request, Like

LEMMA BroadcastEffect ==
    ASSUME NEW f \in [Client -> Request \cup {Idle}]
    PROVE  /\ Broadcast(f) \in [Client -> Request \cup {Idle}]
           /\ \A d \in Client : Stays(f[d], Broadcast(f)[d]) /\ Broadcast(f)[d].pc # "parked"
           /\ \A d \in Client : f[d].pc # "parked" => Broadcast(f)[d] = f[d]
<1>1. ASSUME NEW d \in Client
      PROVE  /\ Broadcast(f)[d] \in Request \cup {Idle}
             /\ Stays(f[d], Broadcast(f)[d]) /\ Broadcast(f)[d].pc # "parked"
             /\ f[d].pc # "parked" => Broadcast(f)[d] = f[d]
  <2>1. CASE f[d].pc # "parked"
    <3>1. Broadcast(f)[d] = f[d]
      BY <2>1 DEF Broadcast
    <3> QED  BY <2>1, <3>1 DEF Stays
  <2>2. CASE f[d].pc = "parked"
    <3>1. f[d] \in Request
      BY SMTT(60), <2>2 DEF Idle
    <3>2. Broadcast(f)[d] = [f[d] EXCEPT !.pc = "woken"]
      BY <2>2 DEF Broadcast
    <3>3. "woken" \in Busy
      BY DEF Busy
    <3> QED  BY SMTT(60), <2>2, <3>1, <3>2, <3>3, SetPc DEF Stays
  <2> QED  BY <2>1, <2>2
<1>2. Broadcast(f) = [d \in Client |-> Broadcast(f)[d]]
  BY DEF Broadcast
<1> QED  BY <1>1, <1>2

LEMMA ReplyEffect ==
    ASSUME TypeInv, NEW c \in Client, NEW code, NEW tok \in Nat, Reply(c, code, tok)
    PROVE  /\ DOMAIN answer' = Client
           /\ grant' \in [Client -> Nat]
           /\ grant'[c] \in {grant[c], tok}
           /\ code # "OK" => grant'[c] = grant[c] /\ answer'[c] # "OK"
           /\ \A d \in Client \ {c} : grant'[d] = grant[d]
  BY DEF TypeInv, Reply

LEMMA IdleInv ==
    ASSUME NEW c \in Client, call'[c] = Idle
    PROVE  CallInv(c)'
  BY DEF CallInv, Served, Busy, Idle, Active, Reuses

LEMMA SameWakens == table' = table => Wakened
  BY DEF Wakened

(* A handler that returns an error changes nothing else.                   *)
LEMMA FailEffect ==
    ASSUME IInv, NEW c \in Client, NEW code, code # "OK", Fail(c, code),
           UNCHANGED <<table, leader, view, aware>>
    PROVE  Effect({c})
<1>1. TypeInv
  BY DEF IInv
<1>2. /\ DOMAIN answer' = Client /\ grant' \in [Client -> Nat]
      /\ grant'[c] = grant[c] /\ answer'[c] # "OK"
      /\ \A d \in Client \ {c} : grant'[d] = grant[d]
  BY SMTT(60), <1>1, ReplyEffect DEF Fail
<1>3. /\ call' \in [Client -> Request \cup {Idle}] /\ call'[c] = Idle
      /\ \A d \in Client \ {c} : call'[d] = call[d]
  BY <1>1 DEF Fail, TypeInv
<1>4. TypeInv'
  BY <1>1, <1>2, <1>3 DEF TypeInv
<1>5. CallInv(c)'
  BY <1>3, IdleInv
<1>6. RenewedRight(c)
  BY <1>2 DEF RenewedRight
<1> QED
  BY <1>2, <1>3, <1>4, <1>5, <1>6, SameWakens DEF Effect, TableStep, Told, Stays

(* The environment moves, and nobody gets a grant.                         *)
LEMMA QuietEffect ==
    ASSUME IInv, TypeInv', aware \subseteq aware', table' = table, grant' = grant,
           \A d \in Client : Stays(call[d], call'[d])
    PROVE  Effect({})
  BY SameWakens DEF Effect, TableStep

(* Only the client's place changes.                                        *)
LEMMA MoveEffect ==
    ASSUME IInv, NEW c \in Client, NEW q \in Request, call' = [call EXCEPT ![c] = q],
           DOMAIN answer' = Client, CallInv(c)',
           UNCHANGED <<table, leader, view, aware, grant>>
    PROVE  Effect({c})
<1>1. TypeInv
  BY DEF IInv
<1>2. /\ call' \in [Client -> Request \cup {Idle}] /\ call'[c] = q
      /\ \A d \in Client \ {c} : call'[d] = call[d]
  BY <1>1 DEF TypeInv
<1>3. TypeInv'
  BY <1>1, <1>2 DEF TypeInv
<1>4. RenewedRight(c)
  BY SMTT(60), <1>2 DEF RenewedRight, Request, Busy, Idle
<1> QED
  BY <1>2, <1>3, <1>4, SameWakens DEF Effect, TableStep, Told, Stays

(* A handler past its head goes on with the same TTL.                      *)
LEMMA PcEffect ==
    ASSUME IInv, NEW c \in Client, Served(call[c]), NEW p \in Busy \ {"serve"},
           call' = [call EXCEPT ![c].pc = p],
           UNCHANGED <<table, leader, view, aware, answer, grant>>
    PROVE  Effect({c})
<1> DEFINE r == call[c]
           q == [r EXCEPT !.pc = p]
<1>1. TypeInv /\ CallInv(c)
  BY DEF IInv
<1>2. r \in Request /\ Active(c)
  BY <1>1, CallTypes DEF Served, Busy, Active
<1>3. q \in Request /\ q.pc = p /\ Like(r, q)
  BY <1>2, SetPc
<1>4. call' = [call EXCEPT ![c] = q] /\ call'[c] = q
  BY <1>1 DEF TypeInv
<1> HIDE DEF q
<1>5. CallInv(c)'
  <2>1. r.ttl \in TTL /\ ~r.knew
    BY <1>1, <1>2 DEF CallInv, Served, Busy
  <2>2. q.ttl \in TTL /\ ~q.knew
    BY <1>3, <2>1 DEF Like
  <2>3. ASSUME Alone(c), Reuses(c)' PROVE Carries(c)'
    <3>1. Reuses(c)
      BY <1>3, <1>4, <2>3 DEF Reuses, Like
    <3>2. Carries(c)
      BY <1>1, <2>3, <3>1 DEF CallInv
    <3>3. call'[c].name = call[c].name /\ call'[c].ttl = call[c].ttl
      BY <1>3, <1>4 DEF Like
    <3> QED  BY <3>2, <3>3 DEF Carries
  <2> QED  BY <1>4, <2>2, <2>3 DEF CallInv, Alone, Apart, Holders
<1> QED  BY <1>1, <1>3, <1>4, <1>5, MoveEffect DEF TypeInv

LEMMA CallEffect ==
    ASSUME IInv, NEW c \in Client, NEW op \in Op, NEW nm \in Name, NEW ms \in Requested[op],
           Call(c, op, nm, ms)
    PROVE  Effect({c})
<1> DEFINE q == [pc |-> "serve", op |-> op, name |-> nm, at |-> Home[c],
                 ms |-> ms, ttl |-> 0, knew |-> Home[c] \in aware]
<1>1. TypeInv
  BY DEF IInv
<1>2. q \in Request
  <2>1. Home[c] \in Node /\ ms \in Nat /\ (Home[c] \in aware) \in BOOLEAN
    BY SMTT(60), NodeAssumption, RequestAssumption
  <2> QED  BY <2>1 DEF Request, Busy
<1>3. call' = [call EXCEPT ![c] = q] /\ call'[c] = q /\ DOMAIN answer' = Client
  BY <1>1 DEF Call, TypeInv
<1>4. UNCHANGED <<table, leader, view, aware, grant>>
  BY DEF Call
<1>5. q.pc = "serve" /\ (q.knew => q.at \in aware)
  OBVIOUS
<1> HIDE DEF q
<1>6. CallInv(c)'
  BY <1>3, <1>4, <1>5 DEF CallInv, Served, Reuses
<1> QED  BY <1>2, <1>3, <1>4, <1>6, MoveEffect

LEMMA ClampBounds ==
    ASSUME NEW ms \in Nat
    PROVE  /\ ClampTTL(ms, ServiceTTL) \in TTL
           /\ ms \in TTL => ClampTTL(ms, ServiceTTL) = ms
  BY TTLAssumption, RequestAssumption DEF ClampTTL, TTL

(* The TTL a handler fixes; a renewal reuses that of the grant it sees.    *)
LEMMA ServedTTL ==
    ASSUME IInv, NEW nm \in Name, NEW ms \in Nat, NEW reuse, reuse \in {0, ReuseTTL(nm)}
    PROVE  /\ TTLFromMs(ms, reuse) \in TTL
           /\ ms = 0 /\ reuse = ReuseTTL(nm) /\ table.locks[nm] # NoLock
                => TTLFromMs(ms, reuse) = table.locks[nm].ttl
<1>1. Sound(table)
  BY DEF IInv
<1>2. table.locks[nm] # NoLock => table.locks[nm].ttl \in TTL /\ table.locks[nm].ttl > 0
  BY <1>1, TTLAssumption DEF Sound, TTL
<1>3. TTL \subseteq Nat /\ ServiceTTL \in Nat
  BY SMTT(60), TTLAssumption, RequestAssumption DEF TTL
<1>4. ReuseTTL(nm) \in Nat /\ (table.locks[nm] # NoLock => ReuseTTL(nm) = table.locks[nm].ttl)
  BY <1>2, <1>3 DEF ReuseTTL
<1>5. (IF ms > 0 THEN ms ELSE reuse) \in Nat
  BY <1>4
<1>6. TTLFromMs(ms, reuse) \in TTL
  BY <1>5, ClampBounds DEF TTLFromMs
<1>7. ASSUME ms = 0, reuse = ReuseTTL(nm), table.locks[nm] # NoLock
      PROVE  TTLFromMs(ms, reuse) = table.locks[nm].ttl
  <2>1. (IF ms > 0 THEN ms ELSE reuse) = table.locks[nm].ttl
    BY <1>4, <1>7
  <2> QED  BY <1>2, <1>3, <1>7, <2>1, ClampBounds DEF TTLFromMs
<1> QED  BY <1>6, <1>7

LEMMA ServeEffect ==
    ASSUME IInv, NEW c \in Client, Serve(c)
    PROVE  Effect({c})
<1> DEFINE r == call[c]
           n == r.at
<1>1. TypeInv /\ CallInv(c)
  BY DEF IInv
<1>2. r.pc = "serve" /\ UNCHANGED <<table, leader, view, aware>>
  BY DEF Serve, At
<1>3. /\ r \in Request /\ Active(c) /\ n \in Node /\ view[n] \in Node
      /\ r.op \in Op /\ r.name \in Name /\ r.ms \in Nat
  BY <1>1, <1>2, CallTypes DEF Active, TypeInv
<1>4. CASE Fail(c, "FailedPrecondition")
  BY <1>2, <1>4, FailEffect
<1>5. n \notin aware => ~r.knew
  BY <1>1, <1>3 DEF CallInv
<1>6. CASE /\ n \notin aware
           /\ call' = [call EXCEPT ![c].at = view[n]] /\ UNCHANGED <<over, answer, grant>>
  <2> DEFINE q == [r EXCEPT !.at = view[n]]
  <2>1. q \in Request /\ q.pc = "serve" /\ ~q.knew
    BY <1>2, <1>3, <1>5, <1>6 DEF Request
  <2>2. call' = [call EXCEPT ![c] = q] /\ call'[c] = q
    BY <1>1, <1>6 DEF TypeInv
  <2> HIDE DEF q
  <2>3. CallInv(c)'
    BY <2>1, <2>2 DEF CallInv, Served, Reuses
  <2> QED  BY <1>1, <1>2, <1>6, <2>1, <2>2, <2>3, MoveEffect DEF TypeInv
<1>7. ASSUME NEW reuse, reuse = (IF r.op = "Renew" THEN ReuseTTL(r.name) ELSE 0), n \notin aware,
             call' = [call EXCEPT ![c].pc = "try", ![c].ttl = TTLFromMs(r.ms, reuse)],
             UNCHANGED <<over, answer, grant>>
      PROVE  Effect({c})
  <2> DEFINE ttl == TTLFromMs(r.ms, reuse)
             q == [r EXCEPT !.pc = "try", !.ttl = ttl]
  <2>1. ttl \in TTL /\ ttl \in Nat
    BY SMTT(60), <1>3, <1>7, ServedTTL, TTLAssumption DEF TTL
  <2>2. r.op = "Renew" /\ r.ms = 0 /\ table.locks[r.name] # NoLock => table.locks[r.name].ttl = ttl
    BY <1>3, <1>7, ServedTTL
  <2> HIDE DEF ttl
  <2>3. /\ q \in Request /\ q.pc = "try" /\ q.ttl = ttl /\ q.name = r.name /\ q.op = r.op
        /\ q.ms = r.ms /\ ~q.knew
    BY <1>3, <1>5, <1>7, <2>1 DEF Request, Busy
  <2>4. call' = [call EXCEPT ![c] = q] /\ call'[c] = q
    BY <1>1, <1>7 DEF TypeInv, ttl
  <2> HIDE DEF q
  <2>5. Reuses(c)' => Carries(c)'
    BY <1>2, <1>7, <2>2, <2>3, <2>4 DEF Reuses, Carries
  <2>6. CallInv(c)'
    BY <2>1, <2>3, <2>4, <2>5 DEF CallInv
  <2> QED  BY <1>1, <1>2, <1>7, <2>3, <2>4, <2>6, MoveEffect DEF TypeInv
<1> QED  BY <1>4, <1>6, <1>7 DEF Serve

LEMMA TryEffect ==
    ASSUME IInv, NEW c \in Client, Try(c)
    PROVE  Effect({c})
<1>1. call[c].pc = "try" /\ UNCHANGED <<table, leader, view, aware>>
  BY DEF Try, At
<1>2. Served(call[c]) /\ "apply" \in Busy \ {"serve"}
  BY <1>1 DEF Served, Busy
<1>3. RaftError(call[c].op) # "OK"
  BY DEF RaftError
<1>4. CASE Fail(c, "DeadlineExceeded") \/ Fail(c, RaftError(call[c].op))
  BY <1>1, <1>3, <1>4, FailEffect
<1>5. CASE call' = [call EXCEPT ![c].pc = "apply"] /\ UNCHANGED <<over, answer, grant>>
  BY <1>1, <1>2, <1>5, PcEffect
<1> QED  BY <1>4, <1>5 DEF Try

LEMMA WaitEffect ==
    ASSUME IInv, NEW c \in Client, Wait(c)
    PROVE  Effect({c})
<1>1. Served(call[c]) /\ "parked" \in Busy \ {"serve"}
  BY DEF Wait, At, Served, Busy
<1> QED  BY <1>1, PcEffect DEF Wait

LEMMA WokenEffect ==
    ASSUME IInv, NEW c \in Client, Woken(c)
    PROVE  Effect({c})
<1>1. call[c].pc = "woken" /\ UNCHANGED <<table, leader, view, aware>>
  BY DEF Woken, At
<1>2. Served(call[c]) /\ "try" \in Busy \ {"serve"}
  BY <1>1 DEF Served, Busy
<1>3. CASE Fail(c, "DeadlineExceeded")
  BY <1>1, <1>3, FailEffect
<1>4. CASE call' = [call EXCEPT ![c].pc = "try"] /\ UNCHANGED <<over, answer, grant>>
  BY <1>1, <1>2, <1>4, PcEffect
<1> QED  BY <1>3, <1>4 DEF Woken

LEMMA GiveUpEffect ==
    ASSUME IInv, NEW c \in Client, GiveUp(c)
    PROVE  Effect({c})
  BY FailEffect DEF GiveUp

(* Where nothing but the wake-ups touches the calls.                       *)
LEMMA AfterFuncEffect ==
    ASSUME IInv, NEW c \in Client, AfterFunc(c)
    PROVE  Effect({})
<1>1. TypeInv
  BY DEF IInv
<1>2. /\ call' \in [Client -> Request \cup {Idle}]
      /\ \A d \in Client : Stays(call[d], call'[d])
  BY <1>1, BroadcastEffect DEF AfterFunc, TypeInv
<1>3. TypeInv'
  BY <1>1, <1>2 DEF AfterFunc, TypeInv
<1> QED  BY <1>2, <1>3, QuietEffect DEF AfterFunc

LEMMA ExpiryEffect ==
    ASSUME IInv, NEW nm \in Name, GrantExpires(nm)
    PROVE  Effect({})
<1>1. TypeInv
  BY DEF IInv
<1>2. table' = Drop(table, nm) /\ table' \in Table
  BY <1>1, DropMoves DEF GrantExpires, Expire, TypeInv, Moves
<1>3. /\ call' \in [Client -> Request \cup {Idle}]
      /\ \A d \in Client : Stays(call[d], call'[d]) /\ call'[d].pc # "parked"
  BY <1>1, BroadcastEffect DEF GrantExpires, TypeInv
<1>4. UNCHANGED <<leader, view, aware, answer, grant>>
  BY DEF GrantExpires
<1>5. TypeInv'
  BY <1>1, <1>2, <1>3, <1>4 DEF TypeInv
<1> QED  BY <1>2, <1>3, <1>4, <1>5 DEF Effect, TableStep, Wakened

LEMMA ElsewhereEffect ==
    ASSUME IInv,
           \/ vars' = vars
           \/ \E c \in Client : ContextEnds(c)
           \/ \E n \in (Node \ Observer) \cup {NoNode} : LeaderChanges(n)
           \/ \E n \in Node : SetLeader(n) \/ LearnRole(n)
    PROVE  Effect({})
<1>1. TypeInv
  BY DEF IInv
<1>2. UNCHANGED <<table, call, answer, grant>>
  BY DEF vars, ContextEnds, LeaderChanges, SetLeader, LearnRole
<1>3. leader' \in (Node \ Observer) \cup {NoNode}
  BY <1>1 DEF vars, ContextEnds, LeaderChanges, SetLeader, LearnRole, TypeInv
<1>4. view' \in [Node -> Node]
  BY <1>1 DEF vars, ContextEnds, LeaderChanges, SetLeader, LearnRole, TypeInv
<1>5. aware \subseteq aware' /\ aware' \subseteq Observer
  BY <1>1 DEF vars, ContextEnds, LeaderChanges, SetLeader, LearnRole, TypeInv
<1>6. TypeInv'
  BY <1>1, <1>2, <1>3, <1>4, <1>5 DEF TypeInv
<1> QED  BY <1>2, <1>5, <1>6, QuietEffect DEF Stays

--------------------------------------------------------------------------------
(* The committed command.                                                  *)

(* The holder the service acts for, wherever the call was forwarded to.    *)
LEMMA HolderAtType ==
    ASSUME NEW c \in Client, NEW n \in Node
    PROVE  HolderAt(c, n) \in Holders(c) /\ HolderAt(c, n) \in Holder
  BY HolderAssumption DEF HolderAt, Holders

LEMMA AcquireMoves ==
    ASSUME NEW t \in Table, NEW nm \in Name, NEW h \in Holder, NEW ttl \in TTL
    PROVE  LET u == Acquire(t, nm, h, 1, ttl)
           IN  /\ Moves(t, u, h, ttl)
               /\ \A a \in Name : t.locks[a] # NoLock => u.locks[a] # NoLock
               /\ t.locks[nm] # NoLock /\ ~HeldBy(u, nm, h) => u = t
<1>1. CASE t.locks[nm] # NoLock /\ t.locks[nm].holder = h
  <2>1. Acquire(t, nm, h, 1, ttl) = Refresh(t, nm, 1, ttl)
    BY <1>1 DEF Acquire
  <2> QED  BY SMTT(60), <1>1, <2>1, RefreshMoves DEF HeldBy
<1>2. CASE t.locks[nm] = NoLock /\ ~(Cardinality(Held(t)) >= MaxLocks)
  <2>1. Acquire(t, nm, h, 1, ttl) = NewGrant(t, nm, h, 1, ttl)
    BY <1>2 DEF Acquire
  <2> QED  BY SMTT(60), <1>2, <2>1, NewGrantMoves
<1>3. CASE Acquire(t, nm, h, 1, ttl) = t
  BY <1>3, SameMoves
<1> QED  BY <1>1, <1>2, <1>3 DEF Acquire

LEMMA AppliedMoves ==
    ASSUME IInv, NEW c \in Client, Served(call[c])
    PROVE  LET nm  == call[c].name
               h   == HolderAt(c, call[c].at)
               ttl == call[c].ttl
               u   == Applied(c)
           IN  /\ nm \in Name /\ h \in Holders(c) /\ ttl \in TTL
               /\ Moves(table, u, h, ttl)
               /\ \A a \in Name : table.locks[a] # NoLock /\ u.locks[a] = NoLock => Wakes(c)
               /\ call[c].op = "Renew" /\ Matches(table, nm, h, grant[c]) => u.locks[nm].ttl = ttl
               /\ call[c].op = "Lock" /\ table.locks[nm] # NoLock /\ ~HeldBy(u, nm, h) => u = table
<1> DEFINE nm  == call[c].name
           h   == HolderAt(c, call[c].at)
           ttl == call[c].ttl
           u   == Applied(c)
<1>1. TypeInv /\ CallInv(c) /\ table \in Table
  BY DEF IInv, TypeInv
<1>2. call[c] \in Request
  BY <1>1, CallTypes DEF Served, Busy, Active
<1>3. nm \in Name /\ call[c].op \in Op /\ call[c].at \in Node
  BY <1>1, <1>2, CallTypes
<1>4. h \in Holders(c) /\ h \in Holder
  BY <1>3, HolderAtType
<1>5. ttl \in TTL
  BY <1>1 DEF CallInv
<1>6. CASE call[c].op \in {"Lock", "TryLock"}
  <2>1. u = Acquire(table, nm, h, 1, ttl) /\ call[c].op # "Renew"
    BY <1>6 DEF Applied
  <2> HIDE DEF u
  <2>2. /\ Moves(table, u, h, ttl)
        /\ \A a \in Name : table.locks[a] # NoLock => u.locks[a] # NoLock
        /\ table.locks[nm] # NoLock /\ ~HeldBy(u, nm, h) => u = table
    BY SMTT(60), <1>1, <1>3, <1>4, <1>5, <2>1, AcquireMoves
  <2> QED  BY <1>3, <1>4, <1>5, <2>1, <2>2 DEF u
<1>7. CASE call[c].op = "Unlock"
  <2>1. u = Release(table, nm, h, grant[c]) /\ (Wakes(c) <=> Matches(table, nm, h, grant[c]))
    BY <1>7 DEF Applied, Wakes
  <2> HIDE DEF u
  <2>2. CASE Matches(table, nm, h, grant[c])
    <3>1. u = Drop(table, nm)
      BY <2>1, <2>2 DEF Release
    <3> QED  BY <1>1, <1>3, <1>4, <1>5, <1>7, <2>1, <2>2, <3>1, DropMoves DEF u
  <2>3. CASE ~Matches(table, nm, h, grant[c])
    <3>1. u = table
      BY <2>1, <2>3 DEF Release
    <3> QED  BY <1>1, <1>3, <1>4, <1>5, <1>7, <3>1, SameMoves DEF u
  <2> QED  BY <2>2, <2>3
<1>8. CASE call[c].op = "Renew"
  <2>1. u = Renew(table, nm, h, grant[c], 1, ttl)
    BY <1>8 DEF Applied
  <2> HIDE DEF u
  <2>2. CASE Matches(table, nm, h, grant[c])
    <3>1. u = Refresh(table, nm, 1, ttl) /\ table.locks[nm] # NoLock /\ table.locks[nm].holder = h
      BY <2>1, <2>2 DEF Renew, Matches, HeldBy
    <3>2. /\ Moves(table, u, h, ttl) /\ u.locks[nm].ttl = ttl
          /\ \A a \in Name : table.locks[a] # NoLock => u.locks[a] # NoLock
      BY SMTT(60), <1>1, <1>3, <1>5, <3>1, RefreshMoves
    <3> QED  BY <1>3, <1>4, <1>5, <1>8, <3>2 DEF u
  <2>3. CASE ~Matches(table, nm, h, grant[c])
    <3>1. u = table
      BY <2>1, <2>3 DEF Renew
    <3> QED  BY <1>1, <1>3, <1>4, <1>5, <1>8, <2>3, <3>1, SameMoves DEF u
  <2> QED  BY <2>2, <2>3
<1> QED  BY <1>3, <1>6, <1>7, <1>8 DEF Op

(* A handler that returns with its command applied.                        *)
LEMMA CommitEffect ==
    ASSUME IInv, NEW c \in Client, Served(call[c]), table' = Applied(c),
           NEW rest, rest = [call EXCEPT ![c] = Idle],
           call' = Broadcast(rest) \/ (call' = rest /\ ~Wakes(c)),
           UNCHANGED <<leader, view, aware>>,
           DOMAIN answer' = Client, grant' \in [Client -> Nat],
           \A d \in Client \ {c} : grant'[d] = grant[d],
           Told(c), RenewedRight(c)
    PROVE  Effect({c})
<1>1. TypeInv /\ CallInv(c)
  BY DEF IInv
<1>2. /\ rest \in [Client -> Request \cup {Idle}] /\ rest[c] = Idle /\ rest[c].pc # "parked"
      /\ \A d \in Client \ {c} : rest[d] = call[d]
  BY <1>1 DEF TypeInv, Idle
<1>3. /\ call' \in [Client -> Request \cup {Idle}] /\ call'[c] = Idle
      /\ \A d \in Client \ {c} : Stays(call[d], call'[d])
  <2>1. CASE call' = rest
    BY <1>2, <2>1 DEF Stays
  <2>2. CASE call' = Broadcast(rest)
    <3>1. /\ Broadcast(rest) \in [Client -> Request \cup {Idle}] /\ Broadcast(rest)[c] = Idle
          /\ \A d \in Client : Stays(rest[d], Broadcast(rest)[d])
      BY <1>2, BroadcastEffect
    <3> QED  BY <1>2, <2>2, <3>1
  <2> QED  BY <2>1, <2>2
<1>4. Wakes(c) => \A d \in Client : call'[d].pc # "parked"
  <2>1. \A d \in Client : Broadcast(rest)[d].pc # "parked"
    BY <1>2, BroadcastEffect
  <2> QED  BY <2>1
<1>5. \E h \in Holders(c), ttl \in TTL : Moves(table, table', h, ttl)
  BY AppliedMoves
<1>6. Wakened
  BY <1>4, AppliedMoves DEF Wakened
<1>7. TypeInv'
  <2>1. table' \in Table
    BY <1>5 DEF Moves
  <2> QED  BY <1>1, <1>3, <2>1 DEF TypeInv
<1>8. ~(Active(c) /\ call[c].knew)
  BY <1>1 DEF CallInv, Served, Busy
<1>9. CallInv(c)'
  BY <1>3, IdleInv
<1>10. TableStep({c})
  BY <1>5 DEF TableStep
<1> QED  BY <1>3, <1>6, <1>7, <1>8, <1>9, <1>10 DEF Effect

LEMMA ApplyEffect ==
    ASSUME IInv, NEW c \in Client, Apply(c)
    PROVE  Effect({c})
<1> DEFINE nm == call[c].name
           h  == HolderAt(c, call[c].at)
           rest == [call EXCEPT ![c] = Idle]
<1>1. TypeInv /\ CallInv(c)
  BY DEF IInv
<1>2. call[c].pc = "apply" /\ table' = Applied(c) /\ UNCHANGED <<leader, view, aware>>
  BY DEF Apply, At
<1>3. Served(call[c]) /\ grant[c] \in Nat /\ call[c].op \in Op
  BY <1>1, <1>2, CallTypes DEF Served, Busy, TypeInv, Active
<1>4. nm \in Name /\ h \in Holders(c) /\ table' \in Table
  BY <1>2, <1>3, AppliedMoves DEF Moves
<1>5. ASSUME NEW code, code # "OK", Fail(c, code), ~Wakes(c)
      PROVE  Effect({c})
  <2>1. /\ DOMAIN answer' = Client /\ grant' \in [Client -> Nat]
        /\ grant'[c] = grant[c] /\ answer'[c] # "OK"
        /\ \A d \in Client \ {c} : grant'[d] = grant[d]
    BY SMTT(60), <1>1, <1>5, ReplyEffect DEF Fail
  <2>2. Told(c) /\ RenewedRight(c)
    BY <2>1 DEF Told, RenewedRight
  <2>3. call' = rest
    BY <1>5 DEF Fail
  <2> QED  BY <1>2, <1>3, <1>5, <2>1, <2>2, <2>3, CommitEffect
<1>6. CASE /\ call[c].op \in {"Lock", "TryLock"} /\ HeldBy(Applied(c), nm, h)
           /\ Reply(c, "OK", Applied(c).locks[nm].token)
           /\ call' = Broadcast(rest)
  <2>1. Applied(c).locks[nm] \in Record /\ Applied(c).locks[nm].token \in Nat
    BY <1>2, <1>4, <1>6, TableShape DEF HeldBy, Record
  <2>2. /\ DOMAIN answer' = Client /\ grant' \in [Client -> Nat]
        /\ grant'[c] \in {grant[c], Applied(c).locks[nm].token}
        /\ \A d \in Client \ {c} : grant'[d] = grant[d]
    BY <1>1, <1>6, <2>1, ReplyEffect
  <2>3. Told(c)
    BY <1>2, <1>4, <1>6, <2>2 DEF Told, HeldBy
  <2>4. RenewedRight(c)
    BY <1>6 DEF RenewedRight
  <2> QED  BY <1>2, <1>3, <1>6, <2>2, <2>3, <2>4, CommitEffect
<1>7. CASE /\ call[c].op \in {"Lock", "TryLock"} /\ ~HeldBy(Applied(c), nm, h)
           /\ Fail(c, "Internal") \/ Fail(c, "Held")
  <2>1. ~Wakes(c)
    BY <1>7 DEF Wakes
  <2> QED  BY <1>5, <1>7, <2>1
<1>8. CASE /\ call[c].op = "Lock" /\ table.locks[nm] # NoLock /\ ~HeldBy(Applied(c), nm, h)
           /\ call' = [call EXCEPT ![c].pc = "refused"] /\ UNCHANGED <<over, answer, grant>>
  <2>1. table' = table /\ "refused" \in Busy \ {"serve"}
    BY <1>2, <1>3, <1>8, AppliedMoves DEF Busy
  <2> QED  BY <1>2, <1>3, <1>8, <2>1, PcEffect
<1>9. CASE /\ call[c].op \in {"Unlock", "Renew"} /\ Matches(table, nm, h, grant[c])
           /\ Reply(c, "OK", IF call[c].op = "Unlock" THEN 0 ELSE grant[c])
           /\ call' = IF Wakes(c) THEN Broadcast(rest) ELSE rest
  <2>1. (IF call[c].op = "Unlock" THEN 0 ELSE grant[c]) \in {0, grant[c]}
    OBVIOUS
  <2>2. /\ DOMAIN answer' = Client /\ grant' \in [Client -> Nat] /\ grant'[c] \in {0, grant[c]}
        /\ \A d \in Client \ {c} : grant'[d] = grant[d]
    BY <1>1, <1>3, <1>9, <2>1, ReplyEffect
  <2>3. Told(c)
    BY <2>2 DEF Told
  <2>4. ASSUME Alone(c), call[c].op = "Renew", call[c].ms = 0
        PROVE  table.locks[nm] # NoLock /\ table'.locks[nm].ttl = table.locks[nm].ttl
    <3>1. Carries(c)
      BY <1>1, <1>3, <2>4 DEF CallInv, Reuses
    <3>2. table.locks[nm] # NoLock /\ table.locks[nm].ttl = call[c].ttl
      BY <1>9, <3>1 DEF Carries, Matches, HeldBy
    <3>3. table'.locks[nm].ttl = call[c].ttl
      BY <1>2, <1>3, <1>9, <2>4, AppliedMoves
    <3> QED  BY <3>2, <3>3
  <2>5. RenewedRight(c)
    BY <2>4 DEF RenewedRight
  <2>6. call' = Broadcast(rest) \/ (call' = rest /\ ~Wakes(c))
    BY <1>9
  <2> QED  BY <1>2, <1>3, <2>2, <2>3, <2>5, <2>6, CommitEffect
<1>10. CASE /\ call[c].op \in {"Unlock", "Renew"} /\ ~Matches(table, nm, h, grant[c])
            /\ Fail(c, "FailedPrecondition")
  <2>1. ~Wakes(c)
    BY <1>10 DEF Wakes
  <2> QED  BY <1>5, <1>10, <2>1
<1> QED  BY <1>3, <1>6, <1>7, <1>8, <1>9, <1>10 DEF Apply, Op

LEMMA ApplyFailsEffect ==
    ASSUME IInv, NEW c \in Client, ApplyFails(c)
    PROVE  Effect({c})
<1> DEFINE rest == [call EXCEPT ![c] = Idle]
           code == RaftError(call[c].op)
<1>1. TypeInv
  BY DEF IInv
<1>2. Served(call[c]) /\ code # "OK" /\ Reply(c, code, 0) /\ UNCHANGED <<leader, view, aware>>
  BY DEF ApplyFails, At, Served, Busy, RaftError
<1> HIDE DEF code
<1>3. /\ DOMAIN answer' = Client /\ grant' \in [Client -> Nat]
      /\ grant'[c] = grant[c] /\ answer'[c] # "OK"
      /\ \A d \in Client \ {c} : grant'[d] = grant[d]
  BY SMTT(60), <1>1, <1>2, ReplyEffect
<1>4. Told(c) /\ RenewedRight(c)
  BY <1>3 DEF Told, RenewedRight
<1>5. CASE table' = table /\ call' = rest
  BY <1>2, <1>5, FailEffect DEF Fail
<1>6. CASE table' = Applied(c) /\ call' = IF Wakes(c) THEN Broadcast(rest) ELSE rest
  <2>1. call' = Broadcast(rest) \/ (call' = rest /\ ~Wakes(c))
    BY <1>6
  <2> QED  BY <1>2, <1>3, <1>4, <1>6, <2>1, CommitEffect
<1> QED  BY <1>5, <1>6 DEF ApplyFails

--------------------------------------------------------------------------------

LEMMA InitIInv == Init => IInv
<1> SUFFICES ASSUME Init PROVE IInv
  OBVIOUS
<1>1. TypeInv
  <2>1. EmptyTable \in Table
    BY DEF EmptyTable, Table
  <2>2. view \in [Node -> Node] /\ aware \subseteq Observer
    BY DEF Init
  <2>3. call \in [Client -> Request \cup {Idle}] /\ DOMAIN answer = Client /\ grant \in [Client -> Nat]
    BY DEF Init
  <2> QED  BY <2>1, <2>2, <2>3, NodeAssumption DEF Init, TypeInv
<1>2. table.next = 0 /\ \A a \in Name : table.locks[a] = NoLock
  BY DEF Init, EmptyTable
<1>3. \A c \in Client : call[c] = Idle /\ grant[c] = 0
  BY DEF Init
<1>4. Sound(table)
  BY <1>2 DEF Sound
<1>5. \A c \in Client : OwnInv(c)
  BY <1>2, <1>3 DEF OwnInv
<1>6. \A c \in Client : CallInv(c)
  BY <1>3 DEF CallInv, Served, Busy, Idle, Active, Reuses
<1>7. OneClientPerToken
  BY <1>3 DEF OneClientPerToken
<1> QED  BY <1>1, <1>4, <1>5, <1>6, <1>7 DEF IInv

LEMMA NextEffect ==
    ASSUME IInv, [Next]_vars
    PROVE  \E A \in SUBSET Client : Effect(A)
<1>0. {} \in SUBSET Client /\ \A c \in Client : {c} \in SUBSET Client
  OBVIOUS
<1>1. ASSUME NEW c \in Client, Handler(c) \/ GiveUp(c)
      PROVE  Effect({c}) \/ Effect({})
  BY <1>1, ServeEffect, TryEffect, ApplyEffect, ApplyFailsEffect, WaitEffect, AfterFuncEffect,
     WokenEffect, GiveUpEffect DEF Handler
<1>2. ASSUME NEW c \in Client, NEW nm \in Name, NEW op \in Op, NEW ms \in Requested[op],
             Call(c, op, nm, ms)
      PROVE  Effect({c})
  BY <1>2, CallEffect
<1>3. ASSUME NEW nm \in Name, GrantExpires(nm) PROVE Effect({})
  BY <1>3, ExpiryEffect
<1>4. ASSUME \/ vars' = vars
             \/ \E c \in Client : ContextEnds(c)
             \/ \E n \in (Node \ Observer) \cup {NoNode} : LeaderChanges(n)
             \/ \E n \in Node : SetLeader(n) \/ LearnRole(n)
      PROVE  Effect({})
  BY <1>4, ElsewhereEffect
<1> QED  BY <1>0, <1>1, <1>2, <1>3, <1>4 DEF Next

LEMMA NextIInv == IInv /\ [Next]_vars => IInv'
  BY NextEffect, EffectIInv

LEMMA IInvHolds == Spec => []IInv
  BY InitIInv, NextIInv, PTL DEF Spec

(* Clients that cannot have a common holder are never told that they own   *)
(* the same token, whatever daemons they use and however their calls are   *)
(* forwarded, retried or cut off (lockService.holder, Table.Acquire).      *)
THEOREM OneClientHolds == Spec => []OneClientPerToken
<1>1. IInv => OneClientPerToken
  BY DEF IInv
<1> QED  BY <1>1, IInvHolds, PTL

(* A renewal that names no TTL leaves the TTL of the grant as it is when   *)
(* the command commits, for a client whose holder is its own: the value    *)
(* lockService.Renew read when it began is not stale.                      *)
THEOREM RenewKeepsHolds == Spec => RenewKeepsTTL
<1>1. ASSUME IInv, [Next]_vars, NEW c \in Client, NEW nm \in Name,
             \A d \in Client \ {c} : Apart(c, d),
             call[c].pc = "apply", call[c].op = "Renew", call[c].name = nm, call[c].ms = 0,
             answer'[c] = "OK", call'[c] = Idle
      PROVE  table.locks[nm] # NoLock /\ table'.locks[nm].ttl = table.locks[nm].ttl
  <2>1. RenewedRight(c)
    BY <1>1, NextEffect, EffectProperties
  <2> QED  BY <1>1, <2>1 DEF RenewedRight, Alone
<1> DEFINE A == \A c \in Client, nm \in Name :
                    /\ \A d \in Client \ {c} : Apart(c, d)
                    /\ call[c].pc = "apply" /\ call[c].op = "Renew" /\ call[c].name = nm /\ call[c].ms = 0
                    /\ answer'[c] = "OK" /\ call'[c] = Idle
                    => /\ table.locks[nm] # NoLock
                       /\ table'.locks[nm].ttl = table.locks[nm].ttl
<1>2. IInv /\ [Next]_vars => A
  BY <1>1
<1>3. IInv /\ [Next]_vars => [A]_vars
  BY <1>2
<1>4. Spec => [][A]_vars
  BY <1>3, IInvHolds, PTL DEF Spec
<1> QED  BY <1>4 DEF RenewKeepsTTL

(* Every caller parked in Table.Wait has been woken by the time a name is  *)
(* free: Release and Expire broadcast, also for a command whose proposer   *)
(* was told that it failed.                                                *)
THEOREM FreeingHolds == Spec => FreeingWakesAll
<1> DEFINE A == \A nm \in Name : table.locks[nm] # NoLock /\ table'.locks[nm] = NoLock
                    => \A c \in Client : call'[c].pc # "parked"
<1>1. IInv /\ [Next]_vars => A
  BY NextEffect, EffectProperties DEF Wakened
<1>2. IInv /\ [Next]_vars => [A]_vars
  BY <1>1
<1>3. Spec => [][A]_vars
  BY <1>2, IInvHolds, PTL DEF Spec
<1> QED  BY <1>3 DEF FreeingWakesAll

(* A call made to a daemon that knows it is an observer ends without a     *)
(* grant gained or given up, whatever leader that daemon believes in       *)
(* (rejectIfObserver before forwarding).                                   *)
THEOREM ObserversHold == Spec => ObserversGrantNothing
<1> DEFINE A == \A c \in Client : Active(c) /\ call[c].knew => grant'[c] = grant[c]
<1>1. IInv /\ [Next]_vars => A
  BY NextEffect, EffectProperties
<1>2. IInv /\ [Next]_vars => [A]_vars
  BY <1>1
<1>3. Spec => [][A]_vars
  BY <1>2, IInvHolds, PTL DEF Spec
<1> QED  BY <1>3 DEF ObserversGrantNothing

================================================================================
