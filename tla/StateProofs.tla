------------------------------- MODULE StateProofs -----------------------------
(***************************************************************************)
(* What a node keeps: the replicated lock table and the data directory.    *)
(*                                                                         *)
(* LockGrants: for every number of nodes, names and holders, every skew    *)
(* and every bound, the replicas' tables agree, fencing tokens are never   *)
(* reused, no grant ends before its time, and the replicated table         *)
(* implements the contract of a fenced lock.                               *)
(*                                                                         *)
(* DataDir: the PEM files of a serving daemon are the store's unless a     *)
(* write of them failed or joins overlapped in it, a CA key always fits    *)
(* the stored CA, and a node that has joined is trusted, for any number of *)
(* inits, concurrent joins, failed writes and kills.  FilesFollowStore     *)
(* alone is not inductive: it begins to hold when the last file is         *)
(* written, so the invariant follows each writer file by file and says     *)
(* what it writes is what the store holds.                                 *)
(***************************************************************************)
EXTENDS LockGrants, DataDir, TLAPS

(* Most steps are first-order: Zenon first, SMT for what it does not find. *)
USE ZenonT(30), SMTT(60)

(* The history is the log, interpreted.                                    *)
HistStep == \A i \in 1 .. Len(log) : hist[i + 1] = ApplyCommand(hist[i], log[i])

(* Tokens come from the counter, and the counter never goes back.          *)
TokenBound ==
    \A i \in DOMAIN hist, nm \in Name :
        hist[i].locks[nm] # NoLock => hist[i].locks[nm].token <= hist[i].next

NextMonotone == \A i, j \in DOMAIN hist : i <= j => hist[i].next <= hist[j].next

(* Agreement, Fencing and NoEarlyLoss are not inductive by themselves: a   *)
(* new token is fresh only because it exceeds a counter that bounds all    *)
(* the earlier ones, and an expire in flight must already be justified.    *)
IInv ==
    /\ TypeOK
    /\ Agreement
    /\ HistStep
    /\ TokenBound
    /\ NextMonotone
    /\ Fencing
    /\ NoEarlyExpire

--------------------------------------------------------------------------------
(* What the table operators return.                                        *)

(* A clamped TTL is a positive duration within the limits.                 *)
LEMMA ClampTTLBounds ==
    ASSUME NEW r \in Nat, NEW f \in Nat
    PROVE  ClampTTL(r, f) \in MinTTL .. MaxTTL
  BY TTLAssumption DEF ClampTTL

LEMMA EmptyTableType == EmptyTable \in Table
  BY DEF EmptyTable, Table

(* Interpreting a command yields a table.                                  *)
LEMMA ApplyCommandType ==
    ASSUME NEW t \in Table, NEW c \in Command
    PROVE  ApplyCommand(t, c) \in Table
<1>1. CASE c.kind = "lock_acquire"
  <2>1. c \in ClientCommand
    BY <1>1 DEF Command, ExpireCommand
  <2>2. Acquire(t, c.name, c.id, c.deadline, c.ttl) \in Table
    BY SMTT(60), <2>1 DEF ClientCommand, Acquire, Refresh, NewGrant, Table, Record
  <2> QED
    BY <1>1, <2>2 DEF ApplyCommand
<1>2. CASE c.kind = "lock_release"
  BY <1>2 DEF ApplyCommand, Release, Drop, Table
<1>3. CASE c.kind = "lock_renew"
  <2>1. c \in ClientCommand
    BY <1>3 DEF Command, ExpireCommand
  <2>2. Renew(t, c.name, c.id, c.token, c.deadline, c.ttl) \in Table
    BY <2>1 DEF ClientCommand, Renew, Matches, HeldBy, Refresh, Table, Record
  <2> QED
    BY <1>3, <2>2 DEF ApplyCommand
<1>4. CASE c.kind = "lock_expire"
  BY <1>4 DEF ApplyCommand, Expire, Drop, Table
<1> QED
  BY <1>1, <1>2, <1>3, <1>4 DEF Command, ClientCommand, ExpireCommand

(* What a name holds after a command: nothing, the grant it held before    *)
(* (perhaps with a new deadline), or a new grant with the next token.      *)
GrantStep(t, u, nm) ==
    \/ u.locks[nm] = NoLock /\ u.next = t.next
    \/ /\ u.locks[nm] = NoLock /\ t.locks[nm] = NoLock
       /\ u.next = t.next + 1
    \/ /\ u.locks[nm] # NoLock /\ t.locks[nm] # NoLock
       /\ u.locks[nm].token = t.locks[nm].token
       /\ u.locks[nm].holder = t.locks[nm].holder
       /\ u.next \in {t.next, t.next + 1}
    \/ /\ t.locks[nm] = NoLock /\ u.locks[nm] # NoLock
       /\ u.locks[nm].token = t.next + 1
       /\ u.next = t.next + 1
       /\ \A b \in Name \ {nm} : u.locks[b] = t.locks[b]

LEMMA ApplyCommandGrants ==
    ASSUME NEW t \in Table, NEW c \in Command, NEW nm \in Name
    PROVE  GrantStep(t, ApplyCommand(t, c), nm)
<1> USE DEF Table
<1>1. CASE c.kind = "lock_acquire"
  <2>1. c.name \in Name /\ c.id \in Holder /\ c.deadline \in Nat /\ c.ttl \in 0 .. MaxTTL
    BY <1>1 DEF Command, ExpireCommand, ClientCommand
  <2> DEFINE u == Acquire(t, c.name, c.id, c.deadline, c.ttl)
  <2>2. CASE t.locks[c.name] # NoLock /\ t.locks[c.name].holder = c.id
    <3>1. u = Refresh(t, c.name, c.deadline, c.ttl)
      BY <2>2 DEF Acquire
    <3>2. u.next = t.next /\ \A b \in Name \ {c.name} : u.locks[b] = t.locks[b]
      BY <3>1, <2>1 DEF Refresh
    <3>3. /\ u.locks[c.name].token = t.locks[c.name].token
          /\ u.locks[c.name].holder = t.locks[c.name].holder
          /\ u.locks[c.name] \in Record
      BY SMTT(60), <3>1, <2>1, <2>2 DEF Refresh, Record
    <3>4. GrantStep(t, u, nm)
      BY <3>2, <3>3, <2>2, NoLockAssumption DEF GrantStep
    <3> QED
      BY <3>4, <1>1 DEF ApplyCommand
  <2>3. CASE u = t
    BY <2>3, <1>1 DEF ApplyCommand, GrantStep
  <2>4. CASE t.locks[c.name] = NoLock /\ u = NewGrant(t, c.name, c.id, c.deadline, c.ttl)
    <3>2. u.next = t.next + 1 /\ \A b \in Name \ {c.name} : u.locks[b] = t.locks[b]
      BY SMTT(60), <2>4, <2>1 DEF NewGrant
    <3>3. u.locks[c.name].token = t.next + 1 /\ u.locks[c.name] \in Record
      BY SMTT(60), <2>1, <2>4 DEF NewGrant, Record
    <3>4. GrantStep(t, u, nm)
      BY <3>2, <3>3, <2>4, NoLockAssumption DEF GrantStep
    <3> QED
      BY <3>4, <1>1 DEF ApplyCommand
  <2> QED
    BY <2>2, <2>3, <2>4 DEF Acquire
<1>2. CASE c.kind = "lock_release"
  BY <1>2 DEF ApplyCommand, Release, Drop, GrantStep
<1>3. CASE c.kind = "lock_renew"
  <2>1. c.name \in Name /\ c.id \in Holder /\ c.deadline \in Nat /\ c.ttl \in 0 .. MaxTTL
    BY <1>3 DEF Command, ExpireCommand, ClientCommand
  <2> DEFINE u == Renew(t, c.name, c.id, c.token, c.deadline, c.ttl)
  <2>2. CASE Matches(t, c.name, c.id, c.token)
    <3>1. u = Refresh(t, c.name, c.deadline, c.ttl) /\ t.locks[c.name] # NoLock
      BY <2>2 DEF Renew, Matches, HeldBy
    <3>2. u.next = t.next /\ \A b \in Name \ {c.name} : u.locks[b] = t.locks[b]
      BY <3>1, <2>1 DEF Refresh
    <3>3. /\ u.locks[c.name].token = t.locks[c.name].token
          /\ u.locks[c.name].holder = t.locks[c.name].holder
          /\ u.locks[c.name] \in Record
      BY SMTT(60), <3>1, <2>1 DEF Refresh, Record
    <3>4. GrantStep(t, u, nm)
      BY <3>1, <3>2, <3>3, NoLockAssumption DEF GrantStep
    <3> QED
      BY <3>4, <1>3 DEF ApplyCommand
  <2>3. CASE ~Matches(t, c.name, c.id, c.token)
    BY <2>3, <1>3 DEF ApplyCommand, Renew, GrantStep
  <2> QED
    BY <2>2, <2>3
<1>4. CASE c.kind = "lock_expire"
  BY <1>4 DEF ApplyCommand, Expire, Drop, GrantStep
<1> QED
  BY <1>1, <1>2, <1>3, <1>4 DEF Command, ClientCommand, ExpireCommand

(* A command that ends a grant is its holder's release or its expire.      *)
LEMMA ApplyCommandEnds ==
    ASSUME NEW t \in Table, NEW c \in Command, NEW nm \in Name,
           t.locks[nm] # NoLock,
           ApplyCommand(t, c).locks[nm] = NoLock
    PROVE  /\ c.name = nm
           /\ c.token = t.locks[nm].token
           /\ \/ c.kind = "lock_release" /\ c.id = t.locks[nm].holder
              \/ c.kind = "lock_expire"
<1> USE DEF Table
<1>1. CASE c.kind = "lock_acquire"
  <2>1. c.name \in Name /\ c.id \in Holder /\ c.deadline \in Nat /\ c.ttl \in 0 .. MaxTTL
    BY <1>1 DEF Command, ExpireCommand, ClientCommand
  <2>2. Acquire(t, c.name, c.id, c.deadline, c.ttl).locks[nm] # NoLock
    BY SMTT(60), <2>1, NoLockAssumption DEF Acquire, Refresh, NewGrant, Record
  <2> QED
    BY <2>2, <1>1 DEF ApplyCommand
<1>2. CASE c.kind = "lock_release"
  BY <1>2 DEF ApplyCommand, Release, Matches, HeldBy, Drop
<1>3. CASE c.kind = "lock_renew"
  <2>1. c.name \in Name /\ c.id \in Holder /\ c.deadline \in Nat /\ c.ttl \in 0 .. MaxTTL
    BY <1>3 DEF Command, ExpireCommand, ClientCommand
  <2>2. Renew(t, c.name, c.id, c.token, c.deadline, c.ttl).locks[nm] # NoLock
    BY SMTT(60), <2>1, NoLockAssumption DEF Renew, Matches, HeldBy, Refresh, Record
  <2> QED
    BY <2>2, <1>3 DEF ApplyCommand
<1>4. CASE c.kind = "lock_expire"
  BY <1>4 DEF ApplyCommand, Expire, Drop
<1> QED
  BY <1>1, <1>2, <1>3, <1>4 DEF Command, ClientCommand, ExpireCommand

--------------------------------------------------------------------------------
(* The history only grows, and time does not go back: what has lapsed      *)
(* stays lapsed.                                                           *)

Grows ==
    /\ now \in Nat /\ now' \in Nat /\ now <= now'
    /\ DOMAIN hist \subseteq DOMAIN hist'
    /\ \A i \in DOMAIN hist : hist'[i] = hist[i]

LEMMA LapsedStable ==
    ASSUME hist \in Seq(Table), Grows, NEW nm \in Name, NEW tok \in Nat, Lapsed(nm, tok)
    PROVE  Lapsed(nm, tok)'
<1>1. PICK i \in DOMAIN hist :
        /\ hist[i].locks[nm] # NoLock
        /\ hist[i].locks[nm].token = tok
        /\ hist[i].locks[nm].deadline # 0
        /\ hist[i].locks[nm].deadline <= now + MaxSkew
  BY DEF Lapsed
<1>2. hist[i] \in Table
  OBVIOUS
<1>3. hist[i].locks[nm] \in Record
  BY <1>1, <1>2 DEF Table
<1>4. hist[i].locks[nm].deadline \in Nat
  BY <1>3 DEF Record
<1>5. hist[i].locks[nm].deadline <= now' + MaxSkew
  BY <1>1, <1>4, SkewAssumption DEF Grows
<1>6. i \in DOMAIN hist' /\ hist'[i] = hist[i]
  BY DEF Grows
<1> QED
  BY <1>1, <1>5, <1>6 DEF Lapsed

(* The steps that leave the history alone.                                 *)
LEMMA HistUnchanged ==
    ASSUME IInv, UNCHANGED <<log, hist>>
    PROVE  HistStep' /\ TokenBound' /\ NextMonotone' /\ Fencing'
  BY SMTT(60) DEF IInv, HistStep, TokenBound, NextMonotone, Fencing

LEMMA InitIInv == Init => IInv
<1> SUFFICES ASSUME Init PROVE IInv
  OBVIOUS
<1> USE DEF Init
<1>1. TypeOK
  BY EmptyTableType DEF TypeOK
<1>2. Agreement
  BY DEF Agreement
<1>3. HistStep
  BY DEF HistStep
<1>4. TokenBound /\ NextMonotone
  BY DEF TokenBound, NextMonotone, EmptyTable
<1>5. Fencing
  BY DEF Fencing, EmptyTable
<1>6. NoEarlyExpire
  BY DEF NoEarlyExpire
<1> QED
  BY <1>1, <1>2, <1>3, <1>4, <1>5, <1>6 DEF IInv

(* Proposing a client's command.                                           *)
LEMMA ProposeIInv ==
    ASSUME IInv, NEW c \in ClientCommand, Propose(c)
    PROVE  IInv'
<1> USE DEF IInv, Propose, clockVars, logVars, fsmVars, expireVars
<1>1. TypeOK'
  BY DEF TypeOK, Command
<1>2. Agreement'
  BY DEF Agreement
<1>3. NoEarlyExpire'
  BY SMTT(60) DEF NoEarlyExpire, Lapsed, ClientCommand
<1> QED
  BY <1>1, <1>2, <1>3, HistUnchanged DEF IInv

(* The table hist ends with, and the one a commit adds.                    *)
LEMMA CommitHist ==
    ASSUME IInv, NEW c \in Command, hist' = Append(hist, ApplyCommand(Committed, c))
    PROVE  /\ Committed \in Table
           /\ ApplyCommand(Committed, c) \in Table
           /\ Len(hist) \in Nat \ {0}
           /\ hist' \in Seq(Table)
           /\ Len(hist') = Len(hist) + 1
           /\ \A i \in 1 .. Len(hist) : hist'[i] = hist[i]
           /\ hist'[Len(hist) + 1] = ApplyCommand(Committed, c)
           /\ DOMAIN hist = 1 .. Len(hist)
           /\ DOMAIN hist' = 1 .. Len(hist) + 1
<1>1. hist \in Seq(Table) /\ Len(hist) \in Nat \ {0}
  BY DEF IInv, TypeOK, Agreement
<1>2. Committed \in Table
  BY <1>1 DEF Committed
<1>3. ApplyCommand(Committed, c) \in Table
  BY <1>2, ApplyCommandType
<1> QED
  BY <1>1, <1>2, <1>3

LEMMA CommitTokens ==
    ASSUME IInv, NEW c \in Command, hist' = Append(hist, ApplyCommand(Committed, c))
    PROVE  TokenBound' /\ NextMonotone'
<1> DEFINE t == Committed
           u == ApplyCommand(Committed, c)
<1>1. /\ t \in Table /\ u \in Table
      /\ t.next \in Nat /\ u.next \in Nat
  BY CommitHist DEF Table
<1>2. ASSUME NEW nm \in Name, u.locks[nm] # NoLock
      PROVE  u.locks[nm].token <= u.next
  <2>1. GrantStep(t, u, nm)
    BY <1>1, ApplyCommandGrants
  <2>2. t.locks[nm] # NoLock => t.locks[nm].token <= t.next /\ t.locks[nm].token \in Nat
    <3>1. Len(hist) \in DOMAIN hist
      BY CommitHist
    <3>2. t.locks[nm] # NoLock => t.locks[nm] \in Record
      BY <1>1 DEF Table
    <3> QED
      BY <3>1, <3>2 DEF IInv, TokenBound, Committed, Record
  <2> QED
    BY <1>1, <1>2, <2>1, <2>2 DEF GrantStep
<1>3. TokenBound'
  BY SMTT(60), <1>2, CommitHist DEF IInv, TokenBound
<1>4. t.next <= u.next
  <2>1. CASE Name = {}
    BY <2>1, <1>1 DEF Command, ClientCommand, ExpireCommand
  <2>2. CASE Name # {}
    <3>1. PICK nm \in Name : TRUE
      BY <2>2
    <3>2. GrantStep(t, u, nm)
      BY <1>1, ApplyCommandGrants
    <3> QED
      BY SMTT(60), <1>1, <3>2 DEF GrantStep
  <2> QED
    BY <2>1, <2>2
<1>5. \A i \in 1 .. Len(hist) : hist[i].next \in Nat /\ hist[i].next <= u.next
  <2> TAKE i \in 1 .. Len(hist)
  <2>0. hist[i] \in Table
    BY SMTT(60) DEF IInv, TypeOK
  <2>1. hist[i].next \in Nat
    BY <2>0 DEF Table
  <2>2. hist[i].next <= t.next
    BY SMTT(60), CommitHist DEF IInv, NextMonotone, Committed
  <2> QED
    BY <1>1, <1>4, <2>1, <2>2
<1>6. NextMonotone'
  BY SMTT(60), <1>1, <1>5, CommitHist DEF IInv, NextMonotone
<1> QED
  BY <1>3, <1>6

(* What Fencing says of two grants, the first one in table i and the other *)
(* in table j, with i <= j when ordered.                                   *)
Fits(g, h, a, b, ordered) ==
    /\ g.token = h.token => a = b /\ g.holder = h.holder
    /\ a = b /\ ordered => g.token <= h.token

(* The grants of a table fit those of its predecessor's whole past.        *)
LEMMA NextTableFits ==
    ASSUME NEW t, NEW u \in Table, t.next \in Nat,
           \A b \in Name : GrantStep(t, u, b),
           NEW g, NEW a \in Name, NEW b \in Name, u.locks[b] # NoLock,
           g.token \in Nat, g.token <= t.next,
           t.locks[b] # NoLock => Fits(g, t.locks[b], a, b, TRUE)
    PROVE  Fits(g, u.locks[b], a, b, TRUE) /\ Fits(u.locks[b], g, b, a, FALSE)
<1>1. GrantStep(t, u, b)
  OBVIOUS
<1>2. CASE t.locks[b] # NoLock
  <2>1. u.locks[b].token = t.locks[b].token /\ u.locks[b].holder = t.locks[b].holder
    BY <1>1, <1>2 DEF GrantStep
  <2>2. Fits(g, t.locks[b], a, b, TRUE)
    BY <1>2
  <2> QED
    BY <2>1, <2>2 DEF Fits
<1>3. CASE t.locks[b] = NoLock
  <2>1. u.locks[b].token = t.next + 1
    BY <1>1, <1>3 DEF GrantStep
  <2> QED
    BY <2>1 DEF Fits
<1> QED
  BY <1>2, <1>3

LEMMA TableFitsItself ==
    ASSUME NEW t, NEW u \in Table, t.next \in Nat,
           \A b \in Name : GrantStep(t, u, b),
           \A b \in Name : t.locks[b] # NoLock => t.locks[b].token \in Nat /\ t.locks[b].token <= t.next,
           \A a, b \in Name : t.locks[a] # NoLock /\ t.locks[b] # NoLock
                => Fits(t.locks[a], t.locks[b], a, b, TRUE),
           NEW a \in Name, NEW b \in Name, u.locks[a] # NoLock, u.locks[b] # NoLock
    PROVE  Fits(u.locks[a], u.locks[b], a, b, TRUE)
<1>1. GrantStep(t, u, a) /\ GrantStep(t, u, b)
  OBVIOUS
<1>2. CASE a = b
  <2>1. u.locks[a] \in Record
    BY DEF Table
  <2>2. u.locks[a].token \in Nat
    BY <2>1 DEF Record
  <2> QED
    BY SMTT(60), <1>2, <2>2 DEF Fits
<1>3. CASE a # b /\ t.locks[a] # NoLock
  <2>1. Fits(t.locks[a], u.locks[b], a, b, TRUE)
    BY <1>3, NextTableFits
  <2>2. u.locks[a].token = t.locks[a].token /\ u.locks[a].holder = t.locks[a].holder
    BY <1>1, <1>3 DEF GrantStep
  <2> QED
    BY <1>3, <2>1, <2>2 DEF Fits
<1>4. CASE a # b /\ t.locks[a] = NoLock
  <2>1. u.locks[a].token = t.next + 1 /\ u.locks[b] = t.locks[b]
    BY <1>1, <1>4 DEF GrantStep
  <2>2. u.locks[b].token \in Nat /\ u.locks[b].token <= t.next
    BY <2>1
  <2> QED
    BY SMTT(60), <1>4, <2>1, <2>2 DEF Fits
<1> QED
  BY <1>2, <1>3, <1>4

LEMMA CommitFencing ==
    ASSUME IInv, NEW c \in Command, hist' = Append(hist, ApplyCommand(Committed, c))
    PROVE  Fencing'
<1> DEFINE t == Committed
           u == ApplyCommand(Committed, c)
           last == Len(hist)
<1>1. /\ t \in Table /\ u \in Table /\ t.next \in Nat
      /\ last \in Nat \ {0}
      /\ t = hist[last]
  BY CommitHist DEF Table, Committed
<1>2. \A b \in Name : GrantStep(t, u, b)
  BY <1>1, ApplyCommandGrants
<1>3. ASSUME NEW i \in 1 .. last, NEW a \in Name, hist[i].locks[a] # NoLock
      PROVE  hist[i].locks[a].token \in Nat /\ hist[i].locks[a].token <= t.next
  <2>1. hist[i] \in Table
    BY SMTT(60) DEF IInv, TypeOK
  <2>2. hist[i].locks[a] \in Record /\ hist[i].next \in Nat
    BY <1>3, <2>1 DEF Table
  <2>3. hist[i].locks[a].token <= hist[i].next
    BY <1>3, CommitHist DEF IInv, TokenBound
  <2>4. hist[i].next <= t.next
    BY SMTT(60), <1>1, CommitHist DEF IInv, NextMonotone
  <2>5. hist[i].locks[a].token \in Nat
    BY <2>2 DEF Record
  <2> QED
    BY <1>1, <2>2, <2>3, <2>4, <2>5
<1>4. ASSUME NEW i \in 1 .. last, NEW j \in 1 .. last, NEW a \in Name, NEW b \in Name,
             hist[i].locks[a] # NoLock, hist[j].locks[b] # NoLock
      PROVE  Fits(hist[i].locks[a], hist[j].locks[b], a, b, i <= j)
  BY <1>4, CommitHist DEF IInv, Fencing, Fits
<1> HIDE DEF t, u
<1>5. ASSUME NEW i \in 1 .. last, NEW a \in Name, NEW b \in Name,
             hist[i].locks[a] # NoLock, u.locks[b] # NoLock
      PROVE  /\ Fits(hist[i].locks[a], u.locks[b], a, b, TRUE)
             /\ Fits(u.locks[b], hist[i].locks[a], b, a, FALSE)
  <2>1. t.locks[b] # NoLock => Fits(hist[i].locks[a], t.locks[b], a, b, TRUE)
    <3>1. last \in 1 .. last /\ (i <= last) = TRUE
      BY <1>1
    <3> QED
      BY <1>1, <1>4, <1>5, <3>1
  <2> QED
    BY <1>1, <1>2, <1>3, <1>5, <2>1, NextTableFits
<1>6. ASSUME NEW a \in Name, NEW b \in Name, u.locks[a] # NoLock, u.locks[b] # NoLock
      PROVE  Fits(u.locks[a], u.locks[b], a, b, TRUE)
  <2>1. last \in 1 .. last /\ (last <= last) = TRUE
    BY <1>1
  <2>2. \A d \in Name : t.locks[d] # NoLock => t.locks[d].token \in Nat /\ t.locks[d].token <= t.next
    BY <1>1, <1>3, <2>1
  <2>3. \A d, e \in Name : t.locks[d] # NoLock /\ t.locks[e] # NoLock
            => Fits(t.locks[d], t.locks[e], d, e, TRUE)
    BY <1>1, <1>4, <2>1
  <2> QED
    BY <1>1, <1>2, <1>6, <2>2, <2>3, TableFitsItself
<1>7. /\ \A k \in 1 .. last : hist'[k] = hist[k]
      /\ hist'[last + 1] = u
      /\ DOMAIN hist' = 1 .. last + 1
  BY CommitHist DEF u
<1>8. ASSUME NEW i \in 1 .. last + 1, NEW j \in 1 .. last + 1, NEW a \in Name, NEW b \in Name,
             hist'[i].locks[a] # NoLock, hist'[j].locks[b] # NoLock
      PROVE  Fits(hist'[i].locks[a], hist'[j].locks[b], a, b, i <= j)
  <2>0. (i \in 1 .. last \/ i = last + 1) /\ (j \in 1 .. last \/ j = last + 1)
    BY <1>1
  <2>1. CASE i \in 1 .. last /\ j \in 1 .. last
    BY <1>4, <1>7, <1>8, <2>1
  <2>2. CASE i \in 1 .. last /\ j = last + 1
    <3>1. (i <= j) = TRUE
      BY <1>1, <2>2
    <3> QED
      BY <1>5, <1>7, <1>8, <2>2, <3>1
  <2>3. CASE i = last + 1 /\ j \in 1 .. last
    <3>1. (i <= j) = FALSE
      BY <1>1, <2>3
    <3> QED
      BY <1>5, <1>7, <1>8, <2>3, <3>1
  <2>4. CASE i = last + 1 /\ j = last + 1
    <3>1. (i <= j) = TRUE
      BY <1>1, <2>4
    <3> QED
      BY <1>6, <1>7, <1>8, <2>4, <3>1
  <2> QED
    BY <2>0, <2>1, <2>2, <2>3, <2>4
<1> QED
  BY SMTT(60), <1>7, <1>8 DEF Fencing, Fits

LEMMA CommitIInv ==
    ASSUME IInv, NEW c \in pending, Commit(c)
    PROVE  IInv'
<1> USE DEF Commit, clockVars, fsmVars, expireVars
<1>0. c \in Command /\ log \in Seq(Command) /\ hist' = Append(hist, ApplyCommand(Committed, c))
  BY DEF IInv, TypeOK
<1>h. Len(hist) = Len(log) + 1 /\ Len(log) \in Nat
  BY <1>0 DEF IInv, Agreement
<1>l. /\ log' \in Seq(Command)
      /\ Len(log') = Len(log) + 1
      /\ \A i \in 1 .. Len(log) : log'[i] = log[i]
      /\ log'[Len(log) + 1] = c
      /\ DOMAIN log' = 1 .. Len(log) + 1
  BY <1>0
<1>1. TypeOK'
  BY <1>0, <1>l, CommitHist DEF IInv, TypeOK
<1>2. Agreement'
  <2>1. Len(hist') = Len(log') + 1
    BY <1>0, <1>h, <1>l, CommitHist
  <2>2. ASSUME NEW n \in Node
        PROVE  applied'[n] \in 0 .. Len(log') /\ table'[n] = hist'[applied'[n] + 1]
    <3>1. applied[n] \in 0 .. Len(log) /\ table[n] = hist[applied[n] + 1]
      BY DEF IInv, Agreement
    <3>2. applied[n] + 1 \in 1 .. Len(hist)
      BY <3>1, <1>h
    <3> QED
      BY SMTT(60), <1>0, <1>h, <1>l, <3>1, <3>2, CommitHist
  <2> QED
    BY <2>1, <2>2 DEF Agreement
<1>3. HistStep'
  <2> SUFFICES ASSUME NEW i \in 1 .. Len(log')
               PROVE  hist'[i + 1] = ApplyCommand(hist'[i], log'[i])
    BY DEF HistStep, ApplyCommand, Acquire, Release, Renew, Expire, Matches, HeldBy,
           Refresh, NewGrant, Drop, Held
  <2>1. CASE i \in 1 .. Len(log)
    <3>1. hist'[i + 1] = hist[i + 1] /\ hist'[i] = hist[i] /\ log'[i] = log[i]
      BY SMTT(60), <1>0, <1>h, <1>l, <2>1, CommitHist
    <3>2. hist[i + 1] = ApplyCommand(hist[i], log[i])
      BY <2>1 DEF IInv, HistStep
    <3> QED
      BY <3>1, <3>2
  <2>2. CASE i = Len(log) + 1
    <3>1. hist'[i] = Committed /\ hist'[i + 1] = ApplyCommand(Committed, c) /\ log'[i] = c
      BY <1>0, <1>h, <1>l, <2>2, CommitHist DEF Committed
    <3> QED
      BY <3>1
  <2> QED
    BY <1>h, <1>l, <2>1, <2>2
<1>4. TokenBound' /\ NextMonotone'
  BY <1>0, CommitTokens
<1>5. Fencing'
  BY <1>0, CommitFencing
<1>6. NoEarlyExpire'
  <2>1. hist \in Seq(Table) /\ Grows
    BY SMTT(60), <1>0, CommitHist DEF Grows, IInv, TypeOK
  <2>2. ASSUME NEW n \in Node, NEW r \in due'[n] PROVE Lapsed(r.name, r.token)'
    <3>1. r \in DueRecord /\ Lapsed(r.name, r.token)
      BY <2>2 DEF IInv, TypeOK, NoEarlyExpire
    <3> QED
      BY <2>1, <3>1, LapsedStable DEF DueRecord
  <2>3. ASSUME NEW d \in pending' \cup {log'[i] : i \in DOMAIN log'}, d.kind = "lock_expire"
        PROVE  Lapsed(d.name, d.token)'
    <3>1. d \in pending \cup {log[i] : i \in DOMAIN log}
      BY SMTT(60), <1>0, <1>l
    <3>2. d \in Command
      BY SMTT(60), <3>1, <1>0 DEF IInv, TypeOK
    <3>3. Lapsed(d.name, d.token)
      BY <2>3, <3>1 DEF IInv, NoEarlyExpire
    <3> QED
      BY <2>1, <3>2, <3>3, LapsedStable DEF Command, ClientCommand, ExpireCommand
  <2> QED
    BY <2>2, <2>3 DEF NoEarlyExpire
<1> QED
  BY <1>1, <1>2, <1>3, <1>4, <1>5, <1>6 DEF IInv

(* What justifies an expire stays as long as clock and history do.         *)
LEMMA NoEarlyExpireKept ==
    ASSUME UNCHANGED <<now, hist, log>>,
           \A n \in Node : \A r \in due'[n] : Lapsed(r.name, r.token),
           \A c \in pending' \cup {log[i] : i \in DOMAIN log} :
                c.kind = "lock_expire" => Lapsed(c.name, c.token)
    PROVE  NoEarlyExpire'
<1>1. ASSUME NEW nm, NEW tok, Lapsed(nm, tok) PROVE Lapsed(nm, tok)'
  BY <1>1 DEF Lapsed
<1> QED
  BY <1>1 DEF NoEarlyExpire

LEMMA ApplyEntryIInv ==
    ASSUME IInv, NEW n \in Node, ApplyEntry(n)
    PROVE  IInv'
<1> USE DEF ApplyEntry, clockVars, logVars
<1>0. /\ log \in Seq(Command) /\ applied[n] + 1 \in 1 .. Len(log)
      /\ table[n] \in Table /\ table[n] = hist[applied[n] + 1]
      /\ Len(hist) = Len(log) + 1
  BY SMTT(60) DEF IInv, TypeOK, Agreement
<1>1. ApplyCommand(table[n], log[applied[n] + 1]) \in Table
  BY <1>0, ApplyCommandType
<1>2. TypeOK'
  BY SMTT(60), <1>0, <1>1 DEF IInv, TypeOK
<1>3. Agreement'
  <2>1. ApplyCommand(table[n], log[applied[n] + 1]) = hist[applied[n] + 2]
    <3>1. hist[(applied[n] + 1) + 1] = ApplyCommand(hist[applied[n] + 1], log[applied[n] + 1])
      BY <1>0 DEF IInv, HistStep
    <3>2. (applied[n] + 1) + 1 = applied[n] + 2
      BY DEF IInv, TypeOK
    <3> QED
      BY <1>0, <3>1, <3>2
  <2>2. ASSUME NEW m \in Node
        PROVE  applied'[m] \in 0 .. Len(log) /\ table'[m] = hist[applied'[m] + 1]
    <3>1. CASE m = n
      BY <1>0, <2>1, <3>1 DEF IInv, TypeOK
    <3>2. CASE m # n
      BY <3>2 DEF IInv, TypeOK, Agreement
    <3> QED
      BY <3>1, <3>2
  <2> QED
    BY <1>0, <2>2 DEF Agreement
<1>4. NoEarlyExpire'
  BY NoEarlyExpireKept DEF IInv, NoEarlyExpire
<1> QED
  BY <1>2, <1>3, <1>4, HistUnchanged DEF IInv

LEMMA ElectIInv ==
    ASSUME IInv, NEW n \in Node, Elect(n)
    PROVE  IInv'
<1> USE DEF Elect, logVars, fsmVars
<1>1. TypeOK'
  BY DEF IInv, TypeOK
<1>2. Agreement'
  BY DEF IInv, Agreement
<1>3. NoEarlyExpire'
  BY NoEarlyExpireKept DEF IInv, NoEarlyExpire
<1> QED
  BY <1>1, <1>2, <1>3, HistUnchanged DEF IInv

LEMMA TickIInv ==
    ASSUME IInv, Tick
    PROVE  IInv'
<1> USE DEF Tick, logVars, fsmVars, expireVars
<1>1. TypeOK'
  BY DEF IInv, TypeOK
<1>2. Agreement'
  BY DEF IInv, Agreement
<1>3. NoEarlyExpire'
  <2>1. hist \in Seq(Table) /\ Grows
    BY DEF Grows, IInv, TypeOK
  <2>2. ASSUME NEW n \in Node, NEW r \in due[n] PROVE Lapsed(r.name, r.token)'
    <3>1. r \in DueRecord /\ Lapsed(r.name, r.token)
      BY <2>2 DEF IInv, TypeOK, NoEarlyExpire
    <3> QED
      BY <2>1, <3>1, LapsedStable DEF DueRecord
  <2>3. ASSUME NEW d \in pending \cup {log[i] : i \in DOMAIN log}, d.kind = "lock_expire"
        PROVE  Lapsed(d.name, d.token)'
    <3>1. d \in Command
      BY SMTT(60) DEF IInv, TypeOK
    <3>2. Lapsed(d.name, d.token)
      BY <2>3 DEF IInv, NoEarlyExpire
    <3> QED
      BY <2>1, <3>1, <3>2, LapsedStable DEF Command, ClientCommand, ExpireCommand
  <2> QED
    BY <2>2, <2>3 DEF NoEarlyExpire
<1> QED
  BY <1>1, <1>2, <1>3, HistUnchanged DEF IInv

(* The expirer reads its own, possibly old, table; Agreement makes it one  *)
(* of the tables of the history, which is all that Lapsed asks for.        *)
LEMMA ScanDueIInv ==
    ASSUME IInv, NEW n \in Node, ScanDue(n)
    PROVE  IInv'
<1> USE DEF ScanDue, clockVars, logVars, fsmVars
<1>0. /\ now \in Nat /\ Skew[n] \in Nat /\ Skew[n] <= MaxSkew /\ MaxSkew \in Nat
      /\ table[n] \in Table
      /\ applied[n] + 1 \in DOMAIN hist /\ table[n] = hist[applied[n] + 1]
  <2>1. Skew[n] \in 0 .. MaxSkew /\ MaxSkew \in Nat
    BY SkewAssumption
  <2>2. applied[n] + 1 \in DOMAIN hist
    BY SMTT(60) DEF IInv, TypeOK, Agreement
  <2> QED
    BY SMTT(60), <2>1, <2>2 DEF IInv, TypeOK, Agreement
<1>1. ASSUME NEW nm \in Due(table[n], Clock(n))
      PROVE  /\ nm \in Name
             /\ table[n].locks[nm].token \in Nat
             /\ Lapsed(nm, table[n].locks[nm].token)
  <2>1. /\ nm \in Name /\ table[n].locks[nm] # NoLock
        /\ table[n].locks[nm].deadline # 0
        /\ table[n].locks[nm].deadline <= now + Skew[n]
    BY DEF Due, Held, Clock
  <2>2. table[n].locks[nm] \in Record
    BY <1>0, <2>1 DEF Table
  <2>3. table[n].locks[nm].deadline <= now + MaxSkew
    <3>1. table[n].locks[nm].deadline \in Nat
      BY <2>2 DEF Record
    <3> QED
      BY <1>0, <2>1, <3>1
  <2>4. Lapsed(nm, table[n].locks[nm].token)
    BY <1>0, <2>1, <2>3 DEF Lapsed
  <2> QED
    BY <2>1, <2>2, <2>4 DEF Record
<1>2. ASSUME NEW r \in DueGrants(n) PROVE r \in DueRecord /\ Lapsed(r.name, r.token)
  <2>1. PICK nm \in Due(table[n], Clock(n)) :
            r = [name |-> nm, token |-> table[n].locks[nm].token]
    BY DEF DueGrants
  <2> QED
    BY <1>1, <2>1 DEF DueRecord
<1>3. TypeOK'
  BY <1>2 DEF IInv, TypeOK
<1>4. Agreement'
  BY DEF IInv, Agreement
<1>5. NoEarlyExpire'
  <2>1. \A m \in Node : \A r \in due'[m] : Lapsed(r.name, r.token)
    BY <1>2 DEF IInv, TypeOK, NoEarlyExpire
  <2> QED
    BY <2>1, NoEarlyExpireKept DEF IInv, NoEarlyExpire
<1> QED
  BY <1>3, <1>4, <1>5, HistUnchanged DEF IInv

LEMMA ExpireNextIInv ==
    ASSUME IInv, NEW n \in Node, NEW r \in due[n], ExpireNext(n, r)
    PROVE  IInv'
<1> USE DEF ExpireNext, clockVars, logVars, fsmVars
<1> DEFINE e == LockExpire(r.name, r.token)
<1>0. r \in DueRecord /\ Lapsed(r.name, r.token)
  BY DEF IInv, TypeOK, NoEarlyExpire
<1>1. e \in ExpireCommand /\ e.name = r.name /\ e.token = r.token
  BY <1>0 DEF LockExpire, ExpireCommand, DueRecord
<1>2. pending' \subseteq pending \cup {e}
  OBVIOUS
<1>3. TypeOK'
  <2>1. pending' \subseteq Command
    BY <1>1, <1>2 DEF IInv, TypeOK, Command
  <2>2. expiring' \in [Node -> SUBSET ExpireCommand]
    <3>1. expiring \in [Node -> SUBSET ExpireCommand]
      BY DEF IInv, TypeOK
    <3>2. [expiring EXCEPT ![n] = {e}] \in [Node -> SUBSET ExpireCommand]
      BY <1>1, <3>1
    <3> QED
      BY <3>1, <3>2
  <2> QED
    BY <2>1, <2>2 DEF IInv, TypeOK
<1>4. Agreement'
  BY DEF IInv, Agreement
<1>5. NoEarlyExpire'
  <2>1. \A m \in Node : due'[m] \subseteq due[m]
    BY DEF IInv, TypeOK
  <2>2. \A d \in pending' \cup {log[i] : i \in DOMAIN log} :
            d.kind = "lock_expire" => Lapsed(d.name, d.token)
    BY <1>0, <1>1, <1>2 DEF IInv, NoEarlyExpire
  <2> QED
    BY <2>1, <2>2, NoEarlyExpireKept DEF IInv, NoEarlyExpire
<1> QED
  BY <1>3, <1>4, <1>5, HistUnchanged DEF IInv

--------------------------------------------------------------------------------

LEMMA ClientIInv ==
    ASSUME IInv, Client
    PROVE  IInv'
<1>0. now \in Nat /\ leader \in Node /\ Skew[leader] \in Nat
  BY SkewAssumption DEF IInv, TypeOK
<1>1. ASSUME NEW ttl \in Requested
      PROVE  Deadline(leader, ttl) \in Nat /\ ClampTTL(ttl, 0) \in 0 .. MaxTTL
  <2>1. ClampTTL(ttl, 0) \in MinTTL .. MaxTTL
    BY RequestedAssumption, ClampTTLBounds
  <2> QED
    BY <1>0, <2>1, TTLAssumption DEF Deadline, Clock
<1>2. ASSUME NEW g \in Granted
      PROVE  g.name \in Name /\ g.holder \in Holder /\ g.token \in Nat
  BY DEF Granted
<1>3. ASSUME NEW nm \in Name, NEW h \in Holder, NEW ttl \in Requested,
             ApplyLockAcquire(nm, h, ttl)
      PROVE  IInv'
  <2>1. LockAcquire(nm, h, Deadline(leader, ttl), ClampTTL(ttl, 0)) \in ClientCommand
    BY <1>1 DEF LockAcquire, ClientCommand
  <2> QED
    BY <1>3, <2>1, ProposeIInv DEF ApplyLockAcquire
<1>4. ASSUME NEW g \in Granted, ApplyLockRelease(g)
      PROVE  IInv'
  <2>1. LockRelease(g.name, g.holder, g.token) \in ClientCommand
    BY <1>2, TTLAssumption DEF LockRelease, ClientCommand
  <2> QED
    BY <1>4, <2>1, ProposeIInv DEF ApplyLockRelease
<1>5. ASSUME NEW g \in Granted, NEW ttl \in Requested, ApplyLockRenew(g, ttl)
      PROVE  IInv'
  <2>1. LockRenew(g.name, g.holder, g.token, Deadline(leader, ttl), ClampTTL(ttl, 0))
            \in ClientCommand
    BY <1>1, <1>2 DEF LockRenew, ClientCommand
  <2> QED
    BY <1>5, <2>1, ProposeIInv DEF ApplyLockRenew
<1> QED
  BY <1>3, <1>4, <1>5 DEF Client

(* IInv is inductive.                                                      *)
LEMMA NextIInv == IInv /\ [Next]_vars => IInv'
<1> SUFFICES ASSUME IInv, [Next]_vars PROVE IInv'
  OBVIOUS
<1>1. CASE Client
  BY <1>1, ClientIInv
<1>2. CASE System
  BY <1>2, CommitIInv, ApplyEntryIInv, ScanDueIInv, ExpireNextIInv DEF System, Expirer
<1>3. CASE Tick
  BY <1>3, TickIInv
<1>4. CASE \E n \in Node : Elect(n)
  BY <1>4, ElectIInv
<1>5. CASE UNCHANGED vars
  <2>1. TypeOK' /\ Agreement'
    BY <1>5 DEF vars, IInv, TypeOK, Agreement
  <2>2. NoEarlyExpire'
    <3>1. UNCHANGED <<now, pending, log, due, hist>>
      BY <1>5 DEF vars
    <3>2. NoEarlyExpire
      BY DEF IInv
    <3> QED
      BY <3>1, <3>2, NoEarlyExpireKept DEF NoEarlyExpire
  <2>3. UNCHANGED <<log, hist>>
    BY <1>5 DEF vars
  <2> QED
    BY <2>1, <2>2, <2>3, HistUnchanged DEF IInv
<1> QED
  BY <1>1, <1>2, <1>3, <1>4, <1>5 DEF Next

LEMMA IInvNoEarlyLoss == IInv => NoEarlyLoss
<1> SUFFICES ASSUME IInv, NEW i \in DOMAIN log, NEW nm \in Name,
                    hist[i].locks[nm] # NoLock,
                    \/ hist[i + 1].locks[nm] = NoLock
                    \/ hist[i + 1].locks[nm].token # hist[i].locks[nm].token
             PROVE  /\ log[i].name = nm /\ log[i].token = hist[i].locks[nm].token
                    /\ \/ log[i].kind = "lock_release" /\ log[i].id = hist[i].locks[nm].holder
                       \/ log[i].kind = "lock_expire" /\ Lapsed(nm, hist[i].locks[nm].token)
  BY DEF NoEarlyLoss
<1>1. /\ hist[i] \in Table /\ log[i] \in Command
      /\ hist[i + 1] = ApplyCommand(hist[i], log[i])
  <2>1. hist[i] \in Table /\ log[i] \in Command
    BY SMTT(60) DEF IInv, TypeOK, Agreement
  <2>2. i \in 1 .. Len(log)
    BY DEF IInv, TypeOK
  <2> QED
    BY <2>1, <2>2 DEF IInv, HistStep
<1>2. hist[i + 1].locks[nm] = NoLock
  <2>1. GrantStep(hist[i], hist[i + 1], nm)
    BY <1>1, ApplyCommandGrants
  <2> QED
    BY <2>1 DEF GrantStep
<1>3. /\ log[i].name = nm
      /\ log[i].token = hist[i].locks[nm].token
      /\ \/ log[i].kind = "lock_release" /\ log[i].id = hist[i].locks[nm].holder
         \/ log[i].kind = "lock_expire"
  BY <1>1, <1>2, ApplyCommandEnds
<1>4. log[i].kind = "lock_expire" => Lapsed(log[i].name, log[i].token)
  BY DEF IInv, NoEarlyExpire
<1> QED
  BY <1>3, <1>4

--------------------------------------------------------------------------------

THEOREM Invariance == Spec => []IInv
  BY InitIInv, NextIInv, PTL DEF Spec

(* Every variable keeps its type, so no command, table or scan result the  *)
(* code builds is malformed; in particular every TTL is within MaxTTL.     *)
THEOREM TypeCorrect == Spec => []TypeOK
<1>1. IInv => TypeOK
  BY DEF IInv
<1> QED
  BY <1>1, Invariance, PTL

(* Whatever the lag and the clocks, a replica's lock table is the committed *)
(* log's table at the position the replica has reached.                    *)
THEOREM ReplicasAgree == Spec => []Agreement
<1>1. IInv => Agreement
  BY DEF IInv
<1> QED
  BY <1>1, Invariance, PTL

(* A fencing token identifies one grant for ever, and a name's tokens only *)
(* grow: what an Acquire returns can be used as a fence.                   *)
THEOREM TokensFence == Spec => []Fencing
<1>1. IInv => Fencing
  BY DEF IInv
<1> QED
  BY <1>1, Invariance, PTL

(* The expirer never proposes the end of a grant none of whose deadlines   *)
(* has passed on the fastest clock, even from a stale table.               *)
THEOREM ExpiryJustified == Spec => []NoEarlyExpire
<1>1. IInv => NoEarlyExpire
  BY DEF IInv
<1> QED
  BY <1>1, Invariance, PTL

(* A grant ends only by its own holder's release or by a justified expiry. *)
THEOREM GrantsEndInTime == Spec => []NoEarlyLoss
  BY IInvNoEarlyLoss, Invariance, PTL

--------------------------------------------------------------------------------
(* What a command does to the clients' view of a table.                    *)

Same(t, u) == View(u) = View(t) /\ u.next = t.next

(* One name goes from free to a grant with the next token.                 *)
Grants(t, u) ==
    \E nm \in Name, h \in Holder :
        /\ t.locks[nm] = NoLock
        /\ u.next = t.next + 1
        /\ View(u) = [View(t) EXCEPT ![nm] = [name |-> nm, holder |-> h, token |-> u.next]]

(* The command names the grant it ends.                                    *)
Ends(t, u, c) ==
    /\ c.name \in Name
    /\ t.locks[c.name] # NoLock
    /\ c.token = t.locks[c.name].token
    /\ \/ c.kind = "lock_release" /\ c.id = t.locks[c.name].holder
       \/ c.kind = "lock_expire"
    /\ u.next = t.next
    /\ View(u) = [View(t) EXCEPT ![c.name] = NoLock]

(* Refreshing a grant moves its deadline, which clients do not see.        *)
LEMMA RefreshSame ==
    ASSUME NEW t \in Table, NEW nm \in Name, NEW dl, NEW ttl,
           t.locks[nm] # NoLock, dl \in Nat, ttl \in 0 .. MaxTTL
    PROVE  Same(t, Refresh(t, nm, dl, ttl))
<1> DEFINE u == Refresh(t, nm, dl, ttl)
<1>1. t.locks \in [Name -> Record \cup {NoLock}]
  BY DEF Table
<1>2. u.next = t.next /\ \A b \in Name \ {nm} : u.locks[b] = t.locks[b]
  BY <1>1 DEF Refresh, Table
<1>3. /\ u.locks[nm].token = t.locks[nm].token
      /\ u.locks[nm].holder = t.locks[nm].holder
      /\ u.locks[nm] \in Record
  BY <1>1 DEF Refresh, Table, Record
<1>4. u.locks[nm] # NoLock
  BY <1>3, NoLockAssumption
<1>5. View(u) = View(t)
  BY <1>2, <1>3, <1>4 DEF View
<1> QED
  BY <1>2, <1>5 DEF Same

LEMMA DropView ==
    ASSUME NEW t \in Table, NEW nm \in Name
    PROVE  /\ Drop(t, nm).next = t.next
           /\ View(Drop(t, nm)) = [View(t) EXCEPT ![nm] = NoLock]
  BY DEF Drop, View, Table

LEMMA NewGrantView ==
    ASSUME NEW t \in Table, NEW nm \in Name, NEW h \in Holder, NEW dl, NEW ttl,
           t.locks[nm] = NoLock, dl \in Nat, ttl \in 0 .. MaxTTL
    PROVE  Grants(t, NewGrant(t, nm, h, dl, ttl))
<1> DEFINE u == NewGrant(t, nm, h, dl, ttl)
<1>1. t.locks \in [Name -> Record \cup {NoLock}] /\ t.next \in Nat
  BY DEF Table
<1>2. u.next = t.next + 1 /\ \A b \in Name \ {nm} : u.locks[b] = t.locks[b]
  BY <1>1 DEF NewGrant
<1>3. /\ u.locks[nm].token = u.next /\ u.locks[nm].holder = h
      /\ u.locks[nm] \in Record
  BY SMTT(60), <1>1 DEF NewGrant, Record
<1>4. u.locks[nm] # NoLock
  BY <1>3, NoLockAssumption
<1>5. View(u) = [View(t) EXCEPT ![nm] = [name |-> nm, holder |-> h, token |-> u.next]]
  BY <1>2, <1>3, <1>4 DEF View
<1> QED
  BY <1>2, <1>5 DEF Grants

(* Every command leaves the view alone, grants a free name, or ends the    *)
(* very grant it names.                                                    *)
LEMMA ApplyCommandView ==
    ASSUME NEW t \in Table, NEW c \in Command
    PROVE  LET u == ApplyCommand(t, c) IN Same(t, u) \/ Grants(t, u) \/ Ends(t, u, c)
<1> DEFINE u == ApplyCommand(t, c)
<1>0. c.name \in Name
  BY DEF Command, ClientCommand, ExpireCommand
<1>1. CASE c.kind = "lock_acquire"
  <2>1. c.id \in Holder /\ c.deadline \in Nat /\ c.ttl \in 0 .. MaxTTL
    BY <1>1 DEF Command, ExpireCommand, ClientCommand
  <2>2. u = Acquire(t, c.name, c.id, c.deadline, c.ttl)
    BY <1>1 DEF ApplyCommand
  <2>3. CASE t.locks[c.name] # NoLock /\ t.locks[c.name].holder = c.id
    BY <1>0, <2>1, <2>2, <2>3, RefreshSame DEF Acquire
  <2>4. CASE u = t
    BY <2>4 DEF Same
  <2>5. CASE t.locks[c.name] = NoLock /\ u = NewGrant(t, c.name, c.id, c.deadline, c.ttl)
    BY <1>0, <2>1, <2>5, NewGrantView
  <2> QED
    BY <2>2, <2>3, <2>4, <2>5 DEF Acquire
<1>2. CASE c.kind = "lock_release"
  <2>1. u = Release(t, c.name, c.id, c.token)
    BY <1>2 DEF ApplyCommand
  <2>2. CASE Matches(t, c.name, c.id, c.token)
    <3>1. u = Drop(t, c.name)
      BY <2>1, <2>2 DEF Release
    <3> QED
      BY <1>0, <1>2, <2>2, <3>1, DropView DEF Ends, Matches, HeldBy
  <2>3. CASE ~Matches(t, c.name, c.id, c.token)
    BY <2>1, <2>3 DEF Release, Same
  <2> QED
    BY <2>2, <2>3
<1>3. CASE c.kind = "lock_renew"
  <2>1. c.deadline \in Nat /\ c.ttl \in 0 .. MaxTTL
    BY <1>3 DEF Command, ExpireCommand, ClientCommand
  <2>2. u = Renew(t, c.name, c.id, c.token, c.deadline, c.ttl)
    BY <1>3 DEF ApplyCommand
  <2>3. CASE Matches(t, c.name, c.id, c.token)
    BY <1>0, <2>1, <2>2, <2>3, RefreshSame DEF Renew, Matches, HeldBy
  <2>4. CASE ~Matches(t, c.name, c.id, c.token)
    BY <2>2, <2>4 DEF Renew, Same
  <2> QED
    BY <2>3, <2>4
<1>4. CASE c.kind = "lock_expire"
  <2>1. u = Expire(t, c.name, c.token)
    BY <1>4 DEF ApplyCommand
  <2>2. CASE t.locks[c.name] # NoLock /\ t.locks[c.name].token = c.token
    <3>1. u = Drop(t, c.name)
      BY <2>1, <2>2 DEF Expire
    <3> QED
      BY <1>0, <1>4, <2>2, <3>1, DropView DEF Ends
  <2>3. CASE ~(t.locks[c.name] # NoLock /\ t.locks[c.name].token = c.token)
    BY <2>1, <2>3 DEF Expire, Same
  <2> QED
    BY <2>2, <2>3
<1> QED
  BY <1>1, <1>2, <1>3, <1>4 DEF Command, ClientCommand, ExpireCommand

--------------------------------------------------------------------------------
(* Steps                                                                   *)

LEMMA LateGrows ==
    ASSUME IInv, Grows, Committed.next \in Nat, Committed'.next \in Nat,
           Committed.next <= Committed'.next
    PROVE  Late \subseteq Late'
<1> SUFFICES ASSUME NEW tok \in Late PROVE tok \in Late'
  OBVIOUS
<1>1. tok \in 0 .. Committed.next /\ tok \in Nat
  BY DEF Late
<1>2. PICK nm \in Name : Lapsed(nm, tok)
  BY DEF Late
<1>3. Lapsed(nm, tok)'
  BY <1>1, <1>2, LapsedStable DEF IInv, TypeOK
<1>4. tok \in 0 .. Committed'.next
  BY <1>1
<1> QED
  BY <1>3, <1>4 DEF Late

(* A step that commits nothing lets time pass at most.                     *)
LEMMA QuietContract ==
    ASSUME IInv, UNCHANGED <<log, hist>>, now' \in Nat, now <= now'
    PROVE  [Contract!Next]_Contract!vars
<1>0. hist \in Seq(Table) /\ Len(hist) \in Nat \ {0}
  BY DEF IInv, TypeOK, Agreement
<1>1. Committed' = Committed /\ Committed.next \in Nat
  <2>1. Committed \in Table
    BY <1>0 DEF Committed
  <2> QED
    BY <2>1 DEF Committed, Table
<1>2. Grows
  BY DEF Grows, IInv, TypeOK
<1>3. Late \subseteq Late'
  BY <1>1, <1>2, LateGrows
<1>4. Released' = Released
  BY DEF Released
<1>5. View(Committed)' = View(Committed) /\ Committed'.next = Committed.next
  BY <1>1 DEF View
<1> QED
  BY <1>3, <1>4, <1>5 DEF Contract!Next, Contract!Grows

LEMMA CommitContract ==
    ASSUME IInv, NEW c \in pending, Commit(c)
    PROVE  [Contract!Next]_Contract!vars
<1> DEFINE t == Committed
           u == ApplyCommand(Committed, c)
<1>0. c \in Command /\ hist' = Append(hist, u) /\ log' = Append(log, c) /\ now' = now
  BY DEF Commit, clockVars, IInv, TypeOK
<1>1. /\ t \in Table /\ u \in Table
      /\ Committed' = u
      /\ t.next \in Nat /\ u.next \in Nat
  BY <1>0, CommitHist DEF Committed, Table
<1>2. t.next <= u.next
  <2>1. Same(t, u) \/ Grants(t, u) \/ Ends(t, u, c)
    BY <1>0, <1>1, ApplyCommandView
  <2> QED
    BY SMTT(60), <1>1, <2>1 DEF Same, Grants, Ends
<1>3. Grows
  <2>1. now \in Nat
    BY DEF IInv, TypeOK
  <2>2. DOMAIN hist \subseteq DOMAIN hist' /\ \A i \in DOMAIN hist : hist'[i] = hist[i]
    BY <1>0, CommitHist
  <2> QED
    BY <1>0, <2>1, <2>2 DEF Grows
<1>4. Late \subseteq Late'
  BY <1>1, <1>2, <1>3, LateGrows
<1>5. log \in Seq(Command) /\ Len(log) \in Nat /\ Len(log') = Len(log) + 1
  BY <1>0 DEF IInv, TypeOK
<1>6. (\A i \in 1 .. Len(log) : log'[i] = log[i]) /\ log'[Len(log) + 1] = c
  BY <1>0, <1>5
<1>7. Released \subseteq Released'
  BY SMTT(60), <1>5, <1>6 DEF Released
<1>8. View(Committed)' = View(u) /\ (Committed.next)' = u.next
  BY <1>1 DEF View
<1>9. Contract!Grows
  BY <1>4, <1>7 DEF Contract!Grows
<1>10. CASE Same(t, u)
  BY <1>8, <1>9, <1>10 DEF Same, Contract!Next
<1>11. CASE Grants(t, u)
  <2>1. PICK nm \in Name, h \in Holder :
          /\ t.locks[nm] = NoLock
          /\ u.next = t.next + 1
          /\ View(u) = [View(t) EXCEPT ![nm] = [name |-> nm, holder |-> h, token |-> u.next]]
    BY <1>11 DEF Grants
  <2>2. View(t)[nm] = NoLock
    BY <2>1 DEF View
  <2>3. Contract!Grant(nm, h)
    BY <1>8, <2>1, <2>2 DEF Contract!Grant
  <2> QED
    BY <1>9, <2>3 DEF Contract!Next
<1>12. CASE Ends(t, u, c)
  <2> DEFINE nm == c.name
             g == View(t)[nm]
  <2>1. nm \in Name /\ t.locks[nm] # NoLock
    BY <1>12 DEF Ends
  <2>2. g = [name |-> nm, holder |-> t.locks[nm].holder, token |-> t.locks[nm].token]
    BY <2>1 DEF View
  <2>3. t.locks[nm] \in Record
    BY <1>1, <2>1 DEF Table
  <2>4. g # NoLock
    <3>1. g \in Grant
      BY SMTT(60), <2>1, <2>2, <2>3 DEF Grant, Record
    <3> QED
      BY <3>1, GrantAssumption
  <2>5. CASE c.kind = "lock_release"
    <3>1. g \in Released'
      BY SMTT(60), <1>5, <1>6, <1>12, <2>2, <2>5 DEF Ends, Released
    <3> QED
      BY <1>8, <1>9, <1>12, <2>1, <2>4, <3>1 DEF Ends, Contract!Next, Contract!End
  <2>6. CASE c.kind = "lock_expire"
    <3>1. Lapsed(nm, t.locks[nm].token)
      BY <1>12, <2>6 DEF Ends, IInv, NoEarlyExpire
    <3>2. t.locks[nm].token \in 0 .. t.next
      <4>1. t.locks[nm].token <= t.next
        BY SMTT(60), <1>0, <2>1, CommitHist DEF IInv, TokenBound, Committed
      <4>2. t.locks[nm].token \in Nat
        BY <2>3 DEF Record
      <4> QED
        BY <1>1, <4>1, <4>2
    <3>3. g.token \in Late
      BY SMTT(60), <2>1, <2>2, <3>1, <3>2 DEF Late
    <3> QED
      BY <1>8, <1>9, <1>12, <2>1, <2>4, <3>3 DEF Ends, Contract!Next, Contract!End
  <2> QED
    BY <1>12, <2>5, <2>6 DEF Ends
<1> QED
  BY <1>0, <1>1, <1>10, <1>11, <1>12, ApplyCommandView

--------------------------------------------------------------------------------

LEMMA InitContract == Init => Contract!Init
<1> SUFFICES ASSUME Init PROVE Contract!Init
  OBVIOUS
<1>1. Committed = EmptyTable
  BY DEF Init, Committed
<1>2. View(Committed) = [nm \in Name |-> NoLock] /\ Committed.next = 0
  BY <1>1 DEF View, EmptyTable
<1>3. Released = {}
  BY DEF Init, Released
<1>4. Late = {}
  BY <1>1 DEF Init, Late, Lapsed, EmptyTable
<1> QED
  BY <1>2, <1>3, <1>4 DEF Contract!Init

LEMMA NextContract == IInv /\ IInv' /\ [Next]_vars => [Contract!Next]_Contract!vars
<1> SUFFICES ASSUME IInv, IInv', [Next]_vars
             PROVE  [Contract!Next]_Contract!vars
  OBVIOUS
<1>0. now \in Nat /\ now' \in Nat
  BY DEF IInv, TypeOK
<1>1. ASSUME NEW c \in pending, Commit(c)
      PROVE  [Contract!Next]_Contract!vars
  BY <1>1, CommitContract
<1>2. CASE UNCHANGED <<log, hist>> /\ now <= now'
  BY <1>0, <1>2, QuietContract
<1>3. CASE Client \/ Tick
  BY <1>0, <1>2, <1>3 DEF Client, ApplyLockAcquire, ApplyLockRelease, ApplyLockRenew,
       Propose, Tick, clockVars, logVars
<1>4. ASSUME NEW n \in Node, ApplyEntry(n) \/ Expirer(n) \/ Elect(n)
      PROVE  [Contract!Next]_Contract!vars
  BY SMTT(60), <1>0, <1>2, <1>4 DEF ApplyEntry, Expirer, ScanDue, ExpireNext, Elect, clockVars, logVars
<1>5. CASE UNCHANGED vars
  BY <1>0, <1>2, <1>5 DEF vars
<1> QED
  BY <1>1, <1>3, <1>4, <1>5 DEF Next, System

(* The locks of internal/locks behind Raft implement a fenced lock: every  *)
(* step of the replicated system is a step of the contract or none that    *)
(* its clients can see.                                                    *)
THEOREM LocksKeepContract == Spec => Implements
<1>1. Spec => Contract!Init
  BY InitContract DEF Spec
<1>2. Spec => [][Contract!Next]_Contract!vars
  BY NextContract, Invariance, PTL DEF Spec
<1> QED
  BY <1>1, <1>2, PTL DEF Implements, Contract!Spec

--------------------------------------------------------------------------------
(* The data directory.                                                     *)

CliPlace == {"idle", "identity", "certs", "files"}
DaemonPlace == {"down", "starting", "up"}
JoinPlace == {"idle", "asking", "listed", "writing"}
DaemonType == [pc : DaemonPlace, id : Number, cluster : Number, tls : BOOLEAN]
JoinType == [pc : JoinPlace, node : Number, next : 1 .. Written]
ClusterType == [issued : SUBSET (1 .. MaxMade), listed : BOOLEAN, tls : BOOLEAN]
GhostType == [ok : BOOLEAN, id : Number, forced : BOOLEAN, joined : BOOLEAN, torn : BOOLEAN]
WritingType == [next : 1 .. Written, ca : Number, node : Number]
FilesType == [{"ca", "cert", "key"} -> Number]

Typed ==
    /\ conf \in [id : Number, cluster : Number]
    /\ store \in [id : Number, ca : Number, cakey : Number, node : Number]
    /\ files \in FilesType
    /\ cli \in [pc : CliPlace, n : Number]
    /\ daemon \in DaemonType
    /\ join \in [Join -> JoinType]
    /\ writing \in WritingType
    /\ made \in 0 .. MaxMade
    /\ kills \in 0 .. MaxKills
    /\ fails \in 0 .. MaxFails
    /\ ghost \in GhostType
    /\ cluster \in ClusterType

(* Init excludes a daemon, and a start its joins.                          *)
OneWriter ==
    /\ daemon.pc # "down" => cli.pc \notin {"certs", "files"}
    /\ writing.next # Written => cli.pc = "files" \/ daemon.pc = "starting"
    /\ \A j \in Join : join[j].pc # "idle" => daemon.pc = "up"

(* A daemon that starts writes what the store holds, and what it has       *)
(* written so far is in the files, unless a write has failed.              *)
Placed ==
    daemon.pc = "starting" /\ daemon.tls /\ ~ghost.torn =>
        /\ writing.ca = store.ca
        /\ writing.node = store.node
        /\ writing.next > 1 => files["ca"] = writing.ca
        /\ writing.next > 2 => files["cert"] = writing.node
        /\ writing.next > 3 => files["key"] = writing.node

(* So does a join that writes, unless a write has failed or another join   *)
(* writes too.                                                             *)
JoinPlaced(j) ==
    /\ store.ca = Cluster
    /\ store.node = join[j].node
    /\ \A i \in Join \ {j} : ~JoinWriting(i)
    /\ join[j].next > 1 => files["ca"] = Cluster
    /\ join[j].next > 2 => files["cert"] = join[j].node
    /\ join[j].next > 3 => files["key"] = join[j].node

JoinsPlaced == ~ghost.torn => \A j \in Join : JoinWriting(j) => JoinPlaced(j)

(* A joined node holds a certificate of the cluster, and a daemon that has *)
(* asked to join serves as the cluster does.                               *)
Holds == store.ca = Cluster /\ store.node \in cluster.issued

Trusted ==
    /\ ghost.joined => Holds
    /\ \A j \in Join : JoinWriting(j) => Holds
    /\ \A j \in Join : join[j].pc # "idle" => daemon.tls = cluster.tls
    /\ ghost.joined /\ daemon.pc # "down" => daemon.tls = cluster.tls

DataDirInv ==
    /\ Typed /\ OneWriter /\ Placed /\ JoinsPlaced
    /\ FilesFollowStore /\ IssuerConsistent /\ Trusted

--------------------------------------------------------------------------------

LEMMA Numbers ==
    /\ None \in Number /\ Cluster \in Number
    /\ \A n \in 0 .. MaxMade : n < MaxMade => n + 1 \in Number /\ n + 1 \in 0 .. MaxMade
  BY BoundAssumption DEF None, Cluster, Number

LEMMA QuietTypes ==
    /\ Quiet \in WritingType /\ Quiet.next = Written
    /\ Down \in DaemonType /\ Down.pc = "down"
    /\ \A pc \in {"idle", "asking", "listed"} :
         JoinAt(pc) \in JoinType /\ JoinAt(pc).pc = pc /\ JoinAt(pc).next = Written
    /\ NoJoin \in JoinType /\ NoJoin.pc = "idle" /\ NoJoin.next = Written
<1>1. Written \in 1 .. Written
  BY DEF Written
<1> QED
  BY <1>1, Numbers DEF Quiet, WritingType, Down, DaemonType, DaemonPlace, JoinAt, NoJoin, JoinType, JoinPlace

(* A write that is cut off leaves each file as it was or unreadable.       *)
LEMMA CutOffTypes ==
  ASSUME Typed, NEW cut, CutOff(cut)
  PROVE  files' \in FilesType
<1>1. PICK lost \in SUBSET cut : files' = [f \in DOMAIN files |-> IF f \in lost THEN None ELSE files[f]]
  BY DEF CutOff
<1>2. DOMAIN files = {"ca", "cert", "key"} /\ \A f \in DOMAIN files : files[f] \in Number
  BY DEF Typed, FilesType
<1> QED
  BY <1>1, <1>2, Numbers DEF FilesType

(* One file: the case split on which one keeps PEM out of the provers.     *)
LEMMA WriteFileIs ==
  ASSUME NEW k \in 1 .. 3, NEW ca, NEW node, WriteFile(k, ca, node)
  PROVE  /\ k = 1 => files' = [files EXCEPT !["ca"] = ca]
         /\ k = 2 => files' = [files EXCEPT !["cert"] = node]
         /\ k = 3 => files' = [files EXCEPT !["key"] = node]
<1>1. files' = [files EXCEPT ![PEM[k]] = IF k = 1 THEN ca ELSE node]
  BY DEF WriteFile
<1>2. PEM[1] = "ca" /\ PEM[2] = "cert" /\ PEM[3] = "key"
  BY DEF PEM
<1>3. CASE k = 1
  BY <1>1, <1>2, <1>3
<1>4. CASE k = 2
  BY <1>1, <1>2, <1>4
<1>5. CASE k = 3
  BY <1>1, <1>2, <1>5
<1> QED
  BY <1>3, <1>4, <1>5

(* All three files: what they are as a record.                             *)
LEMMA FilesAre ==
  ASSUME Typed, NEW ca, NEW node, files["ca"] = ca, files["cert"] = node, files["key"] = node
  PROVE  files = [ca |-> ca, cert |-> node, key |-> node]
<1>1. files = [f \in {"ca", "cert", "key"} |-> IF f = "ca" THEN ca ELSE node]
  BY DEF Typed, FilesType
<1> QED
  BY <1>1

LEMMA InitDataDirInv == DataDirInit => DataDirInv
<1> SUFFICES ASSUME DataDirInit PROVE DataDirInv
  OBVIOUS
<1>1. Typed
  <2>1. cluster \in ClusterType
    BY DEF DataDirInit, ClusterType
  <2>2. ghost \in GhostType
    BY Numbers DEF DataDirInit, GhostType
  <2>3. daemon \in DaemonType /\ writing \in WritingType /\ join \in [Join -> JoinType]
    BY QuietTypes DEF DataDirInit
  <2>4. made \in 0 .. MaxMade /\ kills \in 0 .. MaxKills /\ fails \in 0 .. MaxFails
    BY SMTT(60), BoundAssumption DEF DataDirInit
  <2>5. files \in FilesType
    BY Numbers DEF DataDirInit, FilesType
  <2> QED
    BY <2>1, <2>2, <2>3, <2>4, <2>5, Numbers DEF DataDirInit, Typed, NoFile, CliPlace
<1>2. \A j \in Join : join[j].pc = "idle"
  BY QuietTypes DEF DataDirInit
<1>3. ~ghost.joined /\ daemon.pc = "down" /\ writing.next = Written /\ store.cakey = None
  BY QuietTypes DEF DataDirInit
<1> QED
  BY <1>1, <1>2, <1>3 DEF DataDirInv, OneWriter, Placed, JoinsPlaced, JoinWriting, FilesFollowStore,
     Settled, IssuerConsistent, Trusted

(* A step that leaves the certificates, the files and their writers alone. *)
LEMMA SameCerts ==
  ASSUME DataDirInv, Typed', cli'.pc \notin {"certs", "files"} \/ cli'.pc = cli.pc,
         cli'.pc = "files" \/ cli.pc # "files",
         UNCHANGED <<files, daemon, join, writing>>,
         store'.ca = store.ca, store'.cakey = store.cakey, store'.node = store.node,
         ghost'.torn = ghost.torn, ghost'.joined = ghost.joined,
         cluster'.issued = cluster.issued, cluster'.tls = cluster.tls
  PROVE  DataDirInv'
<1>1. OneWriter'
  BY DEF DataDirInv, OneWriter
<1>2. Placed' /\ JoinsPlaced'
  BY DEF DataDirInv, Placed, JoinsPlaced, JoinPlaced, JoinWriting
<1>3. FilesFollowStore' /\ IssuerConsistent'
  BY DEF DataDirInv, FilesFollowStore, IssuerConsistent, Settled, JoinWriting
<1>4. Trusted'
  BY DEF DataDirInv, Trusted, Holds, JoinWriting
<1> QED
  BY <1>1, <1>2, <1>3, <1>4 DEF DataDirInv

(* A step with no daemon after it.                                         *)
LEMMA NoDaemon ==
  ASSUME Typed', daemon'.pc = "down", \A j \in Join : join'[j].pc = "idle",
         writing'.next # Written => cli'.pc = "files",
         IssuerConsistent', ghost'.joined => Holds'
  PROVE  DataDirInv'
<1>1. OneWriter' /\ Placed'
  BY DEF OneWriter, Placed
<1>2. JoinsPlaced' /\ FilesFollowStore'
  BY DEF JoinsPlaced, JoinWriting, FilesFollowStore, Settled
<1>3. Trusted'
  BY DEF Trusted, JoinWriting
<1> QED
  BY <1>1, <1>2, <1>3 DEF DataDirInv

--------------------------------------------------------------------------------
(* clusdr init                                                             *)

LEMMA InitCallPreserves ==
  ASSUME DataDirInv, NEW force \in BOOLEAN, InitCall(force)
  PROVE  DataDirInv'
<1>1. Typed'
  <2>1. ghost' \in GhostType
    BY ZenonT(60) DEF DataDirInv, InitCall, Typed, GhostType, AlreadyInitialized, Locked
  <2>2. conf' \in [id : Number, cluster : Number] /\ made' \in 0 .. MaxMade
    BY SMTT(60), Numbers DEF DataDirInv, InitCall, Typed
  <2>3. cli' \in [pc : CliPlace, n : Number]
    BY SMTT(60), Numbers DEF DataDirInv, InitCall, Typed, CliPlace
  <2> QED
    BY <2>1, <2>2, <2>3 DEF DataDirInv, InitCall, Typed, bounds
<1>2. ghost'.joined = ghost.joined /\ ghost'.torn = ghost.torn
  BY DEF DataDirInv, InitCall, Typed, GhostType
<1>3. cli'.pc \in {"idle", "identity"} /\ cli.pc = "idle"
  BY SMTT(60) DEF DataDirInv, InitCall, Typed
<1> QED
  BY <1>1, <1>2, <1>3, SameCerts DEF InitCall

(* The command's writes exclude a daemon, so nothing a daemon relies on    *)
(* changes under it.                                                       *)
LEMMA CommandPreserves ==
  ASSUME DataDirInv, SaveIdentity \/ SaveCerts \/ InitDone
  PROVE  DataDirInv'
<1> USE DEF DataDirInv
<1>1. CASE SaveIdentity
  <2>1. Typed'
    BY SMTT(60), <1>1, Numbers DEF SaveIdentity, Typed, CliPlace, bounds
  <2>2. CASE Locked
    BY <1>1, <2>1, <2>2, SameCerts DEF SaveIdentity
  <2>3. CASE ~Locked
    <3>1. daemon'.pc = "down" /\ \A j \in Join : join'[j].pc = "idle"
      BY <1>1, <2>3 DEF SaveIdentity, Locked, OneWriter
    <3>2. store'.ca = store.ca /\ store'.cakey = store.cakey /\ store'.node = store.node
      BY <1>1 DEF SaveIdentity, Typed
    <3>3. writing'.next = Written
      BY <1>1, <2>3 DEF SaveIdentity, Locked, OneWriter
    <3>4. IssuerConsistent' /\ (ghost'.joined => Holds')
      BY <1>1, <3>2 DEF SaveIdentity, IssuerConsistent, Trusted, Holds
    <3> QED
      BY <2>1, <3>1, <3>3, <3>4, NoDaemon
  <2> QED
    BY <2>2, <2>3
<1>2. CASE SaveCerts
  <2>1. daemon'.pc = "down" /\ \A j \in Join : join'[j].pc = "idle"
    BY <1>2 DEF SaveCerts, OneWriter
  <2>2. Typed'
    <3>1. cli.n \in Number
      BY DEF Typed
    <3>2. store' \in [id : Number, ca : Number, cakey : Number, node : Number]
      BY <1>2, <3>1 DEF SaveCerts, Generate, Typed
    <3>3. writing' \in WritingType
      BY <1>2, <3>1 DEF SaveCerts, Generate, Write, Written, WritingType
    <3>4. cli' \in [pc : CliPlace, n : Number]
      BY <1>2 DEF SaveCerts, Typed, CliPlace
    <3>5. ghost' \in GhostType
      BY <1>2 DEF SaveCerts, Typed, GhostType
    <3> QED
      BY <1>2, <3>2, <3>3, <3>4, <3>5 DEF SaveCerts, Typed, bounds
  <2>3. store'.ca = store'.cakey /\ cli'.pc = "files" /\ ~ghost'.joined
    BY <1>2 DEF SaveCerts, Generate, Typed, GhostType
  <2>4. IssuerConsistent'
    BY <2>3 DEF IssuerConsistent
  <2> QED
    BY <2>1, <2>2, <2>3, <2>4, NoDaemon
<1>3. CASE InitDone
  <2>1. daemon'.pc = "down" /\ \A j \in Join : join'[j].pc = "idle"
    BY <1>3 DEF InitDone, OneWriter
  <2>2. Typed'
    BY <1>3, Numbers, QuietTypes DEF InitDone, Typed, CliPlace, GhostType, bounds
  <2>3. IssuerConsistent' /\ (ghost'.joined => Holds')
    BY <1>3 DEF InitDone, IssuerConsistent, Trusted, Holds, Typed, GhostType
  <2>4. writing'.next = Written
    BY <1>3, QuietTypes DEF InitDone
  <2> QED
    BY <2>1, <2>2, <2>3, <2>4, NoDaemon
<1> QED
  BY <1>1, <1>2, <1>3

--------------------------------------------------------------------------------
(* WriteFiles of init and start                                            *)

LEMMA MainWritesPreserves ==
  ASSUME DataDirInv, MainWrites
  PROVE  DataDirInv'
<1> USE DEF DataDirInv
<1>1. /\ writing.next \in 1 .. 3
      /\ writing' = [writing EXCEPT !.next = writing.next + 1]
      /\ writing'.next = writing.next + 1
      /\ writing'.ca = writing.ca /\ writing'.node = writing.node
      /\ WriteFile(writing.next, writing.ca, writing.node)
      /\ UNCHANGED <<conf, store, cli, daemon, join, made, kills, fails, ghost, cluster>>
  BY SMTT(60) DEF MainWrites, Typed, Written, WritingType, bounds
<1>2. /\ writing.next = 1 => files' = [files EXCEPT !["ca"] = writing.ca]
      /\ writing.next = 2 => files' = [files EXCEPT !["cert"] = writing.node]
      /\ writing.next = 3 => files' = [files EXCEPT !["key"] = writing.node]
  BY SMTT(60), <1>1, WriteFileIs
<1>3. Typed'
  <2>1. files' \in FilesType
    BY SMTT(60), <1>1, <1>2 DEF Typed, FilesType, WritingType
  <2>2. writing' \in WritingType
    BY SMTT(60), <1>1 DEF Typed, Written, WritingType
  <2> QED
    BY <1>1, <2>1, <2>2 DEF Typed
<1>4. cli.pc = "files" \/ daemon.pc = "starting"
  BY SMTT(60), <1>1 DEF OneWriter, Written
<1>5. daemon.pc # "up" /\ \A j \in Join : join[j].pc = "idle"
  BY <1>4 DEF OneWriter
<1>6. OneWriter'
  BY <1>1, <1>4 DEF OneWriter
<1>7. Placed'
  BY SMTT(60), <1>1, <1>2 DEF Placed, Typed, FilesType
<1>8. JoinsPlaced' /\ FilesFollowStore' /\ IssuerConsistent'
  BY <1>1, <1>5 DEF JoinsPlaced, JoinWriting, FilesFollowStore, Settled, IssuerConsistent
<1>9. Trusted'
  BY <1>1 DEF Trusted, Holds, JoinWriting
<1> QED
  BY <1>3, <1>6, <1>7, <1>8, <1>9

LEMMA MainWriteFailsPreserves ==
  ASSUME DataDirInv, MainWriteFails
  PROVE  DataDirInv'
<1> USE DEF DataDirInv
<1>1. /\ writing.next # Written /\ writing' = Quiet /\ writing'.next = Written
      /\ UNCHANGED <<conf, store, daemon, join, made, kills, cluster>>
  BY QuietTypes DEF MainWriteFails
<1>2. cli.pc = "files" \/ daemon.pc = "starting"
  BY <1>1 DEF OneWriter
<1>3. \A j \in Join : join[j].pc = "idle"
  BY <1>2 DEF OneWriter
<1>4. Typed'
  <2>1. files' \in FilesType
    BY CutOffTypes DEF MainWriteFails
  <2>2. cli' \in [pc : CliPlace, n : Number]
    <3>1. "idle" \in CliPlace /\ cli \in [pc : CliPlace, n : Number]
      BY DEF CliPlace, Typed
    <3>2. cli' = cli \/ cli' = [pc |-> "idle", n |-> None]
      BY DEF MainWriteFails
    <3> QED
      BY SMTT(60), <3>1, <3>2, Numbers
  <2>3. ghost' \in GhostType
    <3>1. ghost \in GhostType
      BY DEF Typed
    <3>2. ghost' = ghost \/ ghost' = [ghost EXCEPT !.torn = TRUE]
      BY DEF MainWriteFails
    <3> QED
      BY <3>1, <3>2 DEF GhostType
  <2>4. fails' \in 0 .. MaxFails
    BY SMTT(60), BoundAssumption DEF MainWriteFails, Typed
  <2> QED
    BY <1>1, <2>1, <2>2, <2>3, <2>4, QuietTypes DEF Typed
<1>5. CASE cli.pc = "files"
  <2>1. daemon'.pc = "down" /\ ghost' = ghost
    BY <1>1, <1>5 DEF OneWriter, MainWriteFails, Typed, DaemonType, DaemonPlace
  <2>2. IssuerConsistent' /\ (ghost'.joined => Holds')
    BY <1>1, <2>1 DEF IssuerConsistent, Trusted, Holds
  <2> QED
    BY <1>1, <1>3, <1>4, <2>1, <2>2, NoDaemon
<1>6. CASE cli.pc # "files"
  <2>1. ghost'.torn /\ ghost'.joined = ghost.joined /\ cli' = cli /\ daemon'.pc = "starting"
    BY <1>1, <1>2, <1>6 DEF MainWriteFails, Typed, GhostType
  <2>2. OneWriter' /\ Placed' /\ JoinsPlaced' /\ FilesFollowStore' /\ IssuerConsistent'
    BY <1>1, <2>1 DEF OneWriter, Placed, JoinsPlaced, FilesFollowStore, IssuerConsistent
  <2>3. Trusted'
    BY <1>1, <2>1 DEF Trusted, Holds, JoinWriting
  <2> QED
    BY <1>4, <2>2, <2>3
<1> QED
  BY <1>5, <1>6

--------------------------------------------------------------------------------
(* clusdr start and stop                                                   *)

LEMMA StartPreserves ==
  ASSUME DataDirInv, Start
  PROVE  DataDirInv'
<1> USE DEF DataDirInv
<1>1. /\ daemon'.pc = "starting" /\ cli.pc \notin {"certs", "files"}
      /\ UNCHANGED <<conf, store, files, cli, join, made, kills, fails, cluster>>
      /\ \A j \in Join : join[j].pc = "idle"
  BY DEF Start, Locked, OneWriter, bounds
<1>2. ghost'.joined = ghost.joined
  BY DEF Start, Typed, GhostType
<1>3. Typed'
  <2>1. daemon' \in DaemonType
    BY DEF Start, Typed, DaemonPlace, DaemonType, HasCerts
  <2>2. writing' \in WritingType
    BY SMTT(60) DEF Start, Typed, Write, Written, WritingType
  <2>3. ghost' \in GhostType
    BY <2>1 DEF Start, Typed, GhostType, DaemonType
  <2> QED
    BY <1>1, <2>1, <2>2, <2>3 DEF Typed
<1>4. OneWriter'
  BY <1>1 DEF OneWriter
<1>5. Placed'
  <2>1. SUFFICES ASSUME daemon'.tls PROVE Placed'
    BY DEF Placed
  <2>2. writing' = [next |-> 1, ca |-> store.ca, node |-> store.node]
    BY <2>1 DEF Start, Write
  <2>3. writing'.next = 1 /\ writing'.ca = store.ca /\ writing'.node = store.node
    BY <2>2
  <2> QED
    BY SMTT(60), <1>1, <2>3 DEF Placed
<1>6. JoinsPlaced' /\ FilesFollowStore' /\ IssuerConsistent'
  BY <1>1 DEF JoinsPlaced, JoinWriting, FilesFollowStore, Settled, IssuerConsistent
<1>7. Trusted'
  <2>1. ghost.joined => HasCerts
    BY SMTT(60), BoundAssumption DEF Trusted, Holds, Typed, ClusterType, HasCerts, None, Cluster
  <2>2. ghost.joined => daemon'.tls = cluster.tls
    BY <2>1 DEF Start, Typed, ClusterType
  <2> QED
    BY <1>1, <1>2, <2>2 DEF Trusted, Holds, JoinWriting
<1> QED
  BY <1>3, <1>4, <1>5, <1>6, <1>7

(* The writer is done: what the daemon serves with is what it wrote.       *)
LEMMA ServePreserves ==
  ASSUME DataDirInv, Serve
  PROVE  DataDirInv'
<1> USE DEF DataDirInv
<1>1. /\ daemon.pc = "starting" /\ writing.next = Written
      /\ daemon' = [daemon EXCEPT !.pc = "up"]
      /\ writing' = Quiet /\ writing'.next = Written
      /\ UNCHANGED <<conf, store, files, cli, join, made, kills, fails, cluster>>
      /\ \A j \in Join : join[j].pc = "idle"
  BY QuietTypes DEF Serve, OneWriter, bounds
<1>2. /\ daemon'.pc = "up" /\ daemon'.tls = daemon.tls
      /\ ghost'.joined = ghost.joined /\ ghost'.torn = ghost.torn
  BY <1>1 DEF Serve, Typed, DaemonType, GhostType
<1>3. Typed'
  <2>1. ghost' \in GhostType
    BY ZenonT(60) DEF Serve, Typed, DaemonType, GhostType
  <2>2. daemon' \in DaemonType
    BY <1>1 DEF Typed, DaemonType, DaemonPlace
  <2> QED
    BY <1>1, <2>1, <2>2, QuietTypes DEF Typed
<1>4. OneWriter' /\ Placed' /\ JoinsPlaced' /\ IssuerConsistent'
  BY <1>1, <1>2 DEF OneWriter, Placed, JoinsPlaced, JoinWriting, IssuerConsistent
<1>5. ASSUME daemon.tls, ~ghost.torn
      PROVE  files = [ca |-> store.ca, cert |-> store.node, key |-> store.node]
  <2>1. files["ca"] = store.ca /\ files["cert"] = store.node /\ files["key"] = store.node
    BY SMTT(60), <1>1, <1>5 DEF Placed, Written
  <2> QED
    BY <2>1, FilesAre
<1>6. FilesFollowStore'
  BY <1>1, <1>2, <1>5 DEF FilesFollowStore
<1>7. Trusted'
  BY <1>1, <1>2 DEF Trusted, Holds, JoinWriting
<1> QED
  BY <1>3, <1>4, <1>6, <1>7

LEMMA StopPreserves ==
  ASSUME DataDirInv, Stop
  PROVE  DataDirInv'
<1> USE DEF DataDirInv
<1>1. /\ daemon' = Down /\ daemon'.pc = "down"
      /\ UNCHANGED <<conf, store, files, cli, join, writing, made, kills, fails, ghost, cluster>>
      /\ \A j \in Join : join[j].pc = "idle"
  BY QuietTypes DEF Stop, bounds
<1>2. Typed'
  BY <1>1, QuietTypes DEF Typed
<1>3. writing'.next = Written
  BY <1>1 DEF Stop, OneWriter
<1>4. IssuerConsistent' /\ (ghost'.joined => Holds')
  BY <1>1 DEF IssuerConsistent, Trusted, Holds
<1> QED
  BY <1>1, <1>2, <1>3, <1>4, NoDaemon

--------------------------------------------------------------------------------
(* clusdr join                                                             *)

(* The steps of a join up to the leader's answer touch no file.            *)
LEMMA AskPreserves ==
  ASSUME DataDirInv, NEW j \in Join,
         RequestJoin(j) \/ JoinCommit(j) \/ JoinRefused(j) \/ JoinUnanswered(j)
  PROVE  DataDirInv'
<1> USE DEF DataDirInv
<1>1. /\ UNCHANGED <<conf, store, files, cli, daemon, writing, made, kills, fails, ghost>>
      /\ join[j].pc # "writing" /\ daemon.pc = "up" /\ daemon.tls = cluster.tls
  BY DEF RequestJoin, JoinCommit, JoinRefused, JoinUnanswered, DialsSeed, bounds, OneWriter, Trusted
<1>2. PICK pc \in {"idle", "asking", "listed"} : join' = [join EXCEPT ![j] = JoinAt(pc)]
  BY DEF RequestJoin, JoinCommit, JoinRefused, JoinUnanswered, NoJoin
<1>3. cluster' \in ClusterType /\ cluster'.issued = cluster.issued /\ cluster'.tls = cluster.tls
  BY DEF RequestJoin, JoinCommit, JoinRefused, JoinUnanswered, Typed, ClusterType
<1>4. /\ join' \in [Join -> JoinType] /\ join'[j].pc # "writing"
      /\ \A i \in Join \ {j} : join'[i] = join[i]
  BY <1>2, QuietTypes DEF Typed
<1>5. Typed'
  BY <1>1, <1>3, <1>4 DEF Typed
<1>6. OneWriter' /\ Placed'
  BY <1>1 DEF OneWriter, Placed
<1>7. \A i \in Join : JoinWriting(i)' => i # j /\ JoinWriting(i) /\ join'[i] = join[i]
  BY <1>4 DEF JoinWriting
<1>8. \A i \in Join : JoinWriting(i) => JoinWriting(i)'
  BY <1>1, <1>4 DEF JoinWriting
<1>9. JoinsPlaced'
  BY <1>1, <1>7 DEF JoinsPlaced, JoinPlaced
<1>10. FilesFollowStore' /\ IssuerConsistent'
  BY <1>1, <1>8 DEF FilesFollowStore, Settled, IssuerConsistent
<1>11. Trusted'
  BY <1>1, <1>3, <1>7 DEF Trusted, Holds
<1> QED
  BY <1>5, <1>6, <1>9, <1>10, <1>11

(* The transaction makes the store what the join then writes.              *)
LEMMA SavePreserves ==
  ASSUME DataDirInv, NEW j \in Join, SaveJoinCerts(j)
  PROVE  DataDirInv'
<1> USE DEF DataDirInv
<1> DEFINE w == [pc |-> "writing", node |-> made + 1, next |-> 1]
<1>1. /\ UNCHANGED <<conf, files, cli, daemon, writing, kills, fails>>
      /\ join' = [join EXCEPT ![j] = w] /\ join[j].pc = "listed"
      /\ daemon.pc = "up" /\ daemon.tls = cluster.tls
  BY DEF SaveJoinCerts, WriteJoinFiles, bounds, OneWriter, Trusted
<1>2. store'.ca = Cluster /\ store'.node = made + 1 /\ store'.cakey = None
  BY DEF SaveJoinCerts, Typed
<1>3. /\ ghost'.joined = ghost.joined
      /\ ghost'.torn <=> \E i \in Join \ {j} : JoinWriting(i)
  BY DEF SaveJoinCerts, WriteJoinFiles, Typed, GhostType
<1>4. cluster'.issued = cluster.issued \cup {made + 1} /\ cluster'.tls = cluster.tls
  BY DEF SaveJoinCerts, IssueNode, Typed, ClusterType
<1>5. w \in JoinType /\ w.pc = "writing" /\ w.node = made + 1 /\ w.next = 1
  <2>1. made + 1 \in Number /\ 1 \in 1 .. Written
    BY SMTT(60), Numbers DEF SaveJoinCerts, IssueNode, Typed, Written
  <2> QED
    BY <2>1 DEF JoinType, JoinPlace
<1>6. Typed'
  <2>1. made' = made + 1 /\ made + 1 \in Number /\ made + 1 \in 0 .. MaxMade
    BY Numbers DEF SaveJoinCerts, IssueNode, Typed
  <2>2. store' \in [id : Number, ca : Number, cakey : Number, node : Number]
    BY <2>1, Numbers DEF SaveJoinCerts, Typed
  <2>3. cluster' \in ClusterType
    BY SMTT(60), <2>1 DEF SaveJoinCerts, IssueNode, Typed, ClusterType
  <2>4. ghost' \in GhostType
    BY DEF SaveJoinCerts, WriteJoinFiles, Typed, GhostType
  <2>5. join' \in [Join -> JoinType]
    BY <1>1, <1>5 DEF Typed
  <2> QED
    BY <1>1, <2>1, <2>2, <2>3, <2>4, <2>5 DEF Typed
<1>7. join'[j] = w /\ \A i \in Join \ {j} : join'[i] = join[i]
  BY <1>1 DEF Typed
<1> HIDE DEF w
<1>8. OneWriter' /\ Placed'
  BY <1>1 DEF OneWriter, Placed
<1>9. JoinsPlaced'
  <2>1. SUFFICES ASSUME ~ghost'.torn, NEW i \in Join, JoinWriting(i)' PROVE JoinPlaced(i)'
    BY DEF JoinsPlaced
  <2>2. i = j
    BY <1>3, <1>7, <2>1 DEF JoinWriting
  <2>3. \A k \in Join \ {j} : ~JoinWriting(k)'
    BY <1>3, <1>7, <2>1 DEF JoinWriting
  <2> QED
    BY SMTT(60), <1>2, <1>5, <1>7, <2>2, <2>3 DEF JoinPlaced
<1>10. FilesFollowStore' /\ IssuerConsistent'
  BY <1>2, <1>5, <1>7 DEF FilesFollowStore, Settled, JoinWriting, IssuerConsistent
<1>11. Holds'
  BY <1>2, <1>4 DEF Holds
<1>12. Trusted'
  BY <1>1, <1>3, <1>4, <1>11 DEF Trusted
<1> QED
  BY <1>6, <1>8, <1>9, <1>10, <1>12

LEMMA JoinWritesPreserves ==
  ASSUME DataDirInv, NEW j \in Join, JoinWrites(j)
  PROVE  DataDirInv'
<1> USE DEF DataDirInv
<1> DEFINE k == join[j].next
           w == [pc |-> "writing", node |-> join[j].node, next |-> k + 1]
<1>1. /\ UNCHANGED <<conf, store, cli, daemon, writing, made, kills, fails, ghost, cluster>>
      /\ join' = [join EXCEPT ![j] = w] /\ JoinWriting(j) /\ daemon.pc = "up"
      /\ WriteFile(k, Cluster, join[j].node)
  BY DEF JoinWrites, JoinWriting, bounds, OneWriter
<1>2. k \in 1 .. 3 /\ join[j].node \in Number
  BY SMTT(60) DEF JoinWrites, Typed, JoinType, Written
<1>3. /\ k = 1 => files' = [files EXCEPT !["ca"] = Cluster]
      /\ k = 2 => files' = [files EXCEPT !["cert"] = join[j].node]
      /\ k = 3 => files' = [files EXCEPT !["key"] = join[j].node]
  BY SMTT(60), <1>1, <1>2, WriteFileIs
<1>4. w \in JoinType /\ w.pc = "writing" /\ w.node = join[j].node /\ w.next = k + 1
  <2>1. k + 1 \in 1 .. Written
    BY SMTT(60), <1>2 DEF Written
  <2> QED
    BY <1>2, <2>1 DEF JoinType, JoinPlace
<1>5. join'[j] = w /\ \A i \in Join \ {j} : join'[i] = join[i]
  BY <1>1 DEF Typed
<1>6. Typed'
  <2>1. files' \in FilesType
    BY SMTT(60), <1>2, <1>3, Numbers DEF Typed, FilesType
  <2>2. join' \in [Join -> JoinType]
    BY <1>1, <1>4 DEF Typed
  <2> QED
    BY <1>1, <2>1, <2>2 DEF Typed
<1>7. \A i \in Join : JoinWriting(i)' <=> JoinWriting(i)
  BY <1>1, <1>4, <1>5 DEF JoinWriting
<1>8. OneWriter' /\ Placed' /\ IssuerConsistent'
  BY <1>1 DEF OneWriter, Placed, IssuerConsistent
<1>9. JoinsPlaced'
  <2>1. SUFFICES ASSUME ~ghost.torn, NEW i \in Join, JoinWriting(i)' PROVE JoinPlaced(i)'
    BY <1>1 DEF JoinsPlaced
  <2>2. JoinPlaced(j) /\ i = j
    BY <1>1, <1>7, <2>1 DEF JoinsPlaced, JoinPlaced
  <2>3. \A h \in Join \ {j} : ~JoinWriting(h)'
    BY <1>7, <2>2 DEF JoinPlaced
  <2>4. /\ store.ca = Cluster /\ store.node = join[j].node
        /\ k + 1 > 1 => files'["ca"] = Cluster
        /\ k + 1 > 2 => files'["cert"] = join[j].node
        /\ k + 1 > 3 => files'["key"] = join[j].node
    BY SMTT(60), <1>2, <1>3, <2>2 DEF JoinPlaced, Typed, FilesType
  <2> HIDE DEF k, w
  <2> QED
    BY <1>1, <1>4, <1>5, <2>2, <2>3, <2>4 DEF JoinPlaced
<1>10. FilesFollowStore'
  BY <1>1, <1>7 DEF FilesFollowStore, Settled
<1>11. Trusted'
  BY <1>1, <1>7 DEF Trusted, Holds, JoinWriting
<1> QED
  BY <1>6, <1>8, <1>9, <1>10, <1>11

(* A join ends, its files written or not.                                  *)
LEMMA JoinEndPreserves ==
  ASSUME DataDirInv, NEW j \in Join, JoinWriteFails(j) \/ Joined(j)
  PROVE  DataDirInv'
<1> USE DEF DataDirInv
<1>1. /\ UNCHANGED <<conf, store, cli, daemon, writing, made, kills, cluster>>
      /\ join' = [join EXCEPT ![j] = NoJoin] /\ JoinWriting(j)
      /\ daemon.pc = "up" /\ daemon.tls = cluster.tls /\ Holds
  BY DEF JoinWriteFails, Joined, JoinWriting, bounds, OneWriter, Trusted
<1>2. join'[j] = NoJoin /\ join'[j].pc = "idle" /\ \A i \in Join \ {j} : join'[i] = join[i]
  BY <1>1, QuietTypes DEF Typed
<1>3. Typed'
  <2>1. files' \in FilesType
    BY CutOffTypes DEF JoinWriteFails, Joined, Typed
  <2>2. ghost' \in GhostType
    BY DEF JoinWriteFails, Joined, Typed, GhostType
  <2>3. fails' \in 0 .. MaxFails
    BY SMTT(60), BoundAssumption DEF JoinWriteFails, Joined, Typed, bounds
  <2>4. join' \in [Join -> JoinType]
    BY <1>1, QuietTypes DEF Typed
  <2> QED
    BY <1>1, <2>1, <2>2, <2>3, <2>4 DEF Typed
<1>4. OneWriter' /\ Placed' /\ IssuerConsistent'
  BY <1>1 DEF OneWriter, Placed, IssuerConsistent
<1>5. Trusted'
  BY <1>1, <1>2 DEF Trusted, Holds
<1>6. CASE JoinWriteFails(j)
  <2>1. ghost'.torn
    BY <1>6 DEF JoinWriteFails, Typed, GhostType
  <2> QED
    BY <1>3, <1>4, <1>5, <2>1 DEF JoinsPlaced, FilesFollowStore
<1>7. CASE Joined(j)
  <2>1. ghost'.torn = ghost.torn /\ files' = files
    BY <1>7 DEF Joined, Typed, GhostType
  <2>2. ASSUME ~ghost.torn PROVE JoinPlaced(j)
    BY <1>1, <2>2 DEF JoinsPlaced
  <2>3. JoinsPlaced'
    BY <1>2, <2>1, <2>2 DEF JoinsPlaced, JoinPlaced, JoinWriting
  <2>4. ASSUME ~ghost.torn
        PROVE  files = [ca |-> store.ca, cert |-> store.node, key |-> store.node]
    <3>1. join[j].next = Written
      BY <1>7 DEF Joined
    <3>2. files["ca"] = store.ca /\ files["cert"] = store.node /\ files["key"] = store.node
      BY SMTT(60), <2>2, <2>4, <3>1 DEF JoinPlaced, Written
    <3> QED
      BY <3>2, FilesAre
  <2>5. FilesFollowStore'
    BY <1>1, <2>1, <2>4 DEF FilesFollowStore
  <2> QED
    BY <1>3, <1>4, <1>5, <2>3, <2>5
<1> QED
  BY <1>6, <1>7

--------------------------------------------------------------------------------
(* Configuration and kills                                                 *)

LEMMA ConfigPreserves ==
  ASSUME DataDirInv, WriteConfig \/ CopyClusterID
  PROVE  DataDirInv'
<1>1. Typed'
  BY SMTT(60), Numbers DEF DataDirInv, WriteConfig, CopyClusterID, Typed, bounds
<1>2. UNCHANGED <<store, files, cli, daemon, join, writing, ghost, cluster>> /\ cli.pc = "idle"
  BY DEF WriteConfig, CopyClusterID
<1> QED
  BY <1>1, <1>2, SameCerts

(* A kill may leave the files half written: then no daemon serves.         *)
LEMMA KillPreserves ==
  ASSUME DataDirInv, KillDaemon \/ KillInit
  PROVE  DataDirInv'
<1> USE DEF DataDirInv
<1>1. kills' \in 0 .. MaxKills
  <2>1. kills \in 0 .. MaxKills
    BY DEF Typed
  <2>2. kills < MaxKills /\ kills' = kills + 1
    BY DEF KillDaemon, KillInit
  <2> HIDE DEF DataDirInv
  <2> QED
    BY <2>1, <2>2, BoundAssumption, SMTT(60)
<1>2. UNCHANGED <<conf, store, made, fails, ghost, cluster>>
  BY DEF KillDaemon, KillInit
<1>3. IssuerConsistent' /\ (ghost'.joined => Holds')
  BY <1>2 DEF IssuerConsistent, Trusted, Holds
<1>4. CASE KillDaemon
  <2>1. /\ daemon' = Down /\ daemon'.pc = "down" /\ writing' = Quiet /\ writing'.next = Written
        /\ cli' = cli /\ join' = [j \in Join |-> NoJoin]
    BY <1>4, QuietTypes DEF KillDaemon
  <2>2. files' \in FilesType
    BY <1>4, CutOffTypes DEF KillDaemon
  <2>3. Typed'
    BY <1>1, <1>2, <2>1, <2>2, QuietTypes DEF Typed
  <2>4. \A j \in Join : join'[j].pc = "idle"
    BY <2>1, QuietTypes
  <2> QED
    BY <1>3, <2>1, <2>3, <2>4, NoDaemon
<1>5. CASE KillInit
  <2>1. cli'.pc = "idle" /\ cli' \in [pc : CliPlace, n : Number] /\ UNCHANGED <<daemon, join>>
    BY <1>5, Numbers DEF KillInit, CliPlace
  <2>2. CASE cli.pc = "files"
    <3>1. daemon'.pc = "down" /\ \A j \in Join : join'[j].pc = "idle"
      BY <2>1, <2>2 DEF OneWriter
    <3>2. writing' = Quiet /\ writing'.next = Written /\ files' \in FilesType
      BY <1>5, <2>2, QuietTypes, CutOffTypes DEF KillInit
    <3>3. Typed'
      BY <1>1, <1>2, <2>1, <3>2, QuietTypes DEF Typed
    <3> QED
      BY <1>3, <3>1, <3>2, <3>3, NoDaemon
  <2>3. CASE cli.pc # "files"
    <3>1. UNCHANGED <<files, writing>>
      BY <1>5, <2>3 DEF KillInit
    <3>2. Typed'
      BY <1>1, <1>2, <2>1, <3>1 DEF Typed
    <3> QED
      BY <1>2, <2>1, <2>3, <3>1, <3>2, SameCerts
  <2> QED
    BY <2>2, <2>3
<1> QED
  BY <1>4, <1>5

LEMMA NextDataDirInv == DataDirInv /\ [DataDirNext]_dataDirVars => DataDirInv'
<1> SUFFICES ASSUME DataDirInv, [DataDirNext]_dataDirVars PROVE DataDirInv'
  OBVIOUS
<1>1. CASE UNCHANGED dataDirVars
  <2>1. UNCHANGED <<conf, store, files, cli, daemon, join, writing, made, kills, fails, ghost, cluster>>
    BY <1>1 DEF dataDirVars, bounds
  <2>2. Typed'
    BY <2>1 DEF DataDirInv, Typed
  <2> QED
    BY <2>1, <2>2, SameCerts
<1>2. CASE InitCall(FALSE) \/ InitCall(TRUE)
  BY <1>2, InitCallPreserves
<1>3. CASE SaveIdentity \/ SaveCerts \/ InitDone
  BY <1>3, CommandPreserves
<1>4. CASE MainWrites \/ MainWriteFails
  BY <1>4, MainWritesPreserves, MainWriteFailsPreserves
<1>5. CASE Start \/ Serve \/ Stop
  BY <1>5, StartPreserves, ServePreserves, StopPreserves
<1>6. CASE \E j \in Join : JoinNext(j)
  BY <1>6, AskPreserves, SavePreserves, JoinWritesPreserves, JoinEndPreserves DEF JoinNext
<1>7. CASE WriteConfig \/ CopyClusterID
  BY <1>7, ConfigPreserves
<1>8. CASE KillDaemon \/ KillInit
  BY <1>8, KillPreserves
<1> QED
  BY <1>1, <1>2, <1>3, <1>4, <1>5, <1>6, <1>7, <1>8 DEF DataDirNext

--------------------------------------------------------------------------------

THEOREM DataDirInvariance == DataDirSpec => []DataDirInv
  BY InitDataDirInv, NextDataDirInv, PTL DEF DataDirSpec

(* However often init, start and join run, fail and are killed, a daemon   *)
(* that serves TLS and writes nothing has the store's CA, certificate and  *)
(* key in the PEM files, unless the last write of them failed or joins     *)
(* overlapped in it (InitGRPC, joinBoot.SaveJoinCerts).                    *)
THEOREM ServedFilesAreStored == DataDirSpec => []FilesFollowStore
<1>1. DataDirInv => FilesFollowStore
  BY DEF DataDirInv
<1> QED
  BY <1>1, DataDirInvariance, PTL

(* A stored CA key is always the key of the stored CA: SaveCerts writes    *)
(* both and SaveJoinCerts drops the key with the CA it replaces.           *)
THEOREM IssuerFitsCA == DataDirSpec => []IssuerConsistent
<1>1. DataDirInv => IssuerConsistent
  BY DEF DataDirInv
<1> QED
  BY <1>1, DataDirInvariance, PTL

(* A node that has joined and its cluster's peers accept each other's      *)
(* certificates through every restart, kill, overlapping or failed later   *)
(* join and failed write of a file, until an init replaces them            *)
(* (ReloadableServerTLS, peerTransportCreds); so do the node and its apps  *)
(* once the files have been written undisturbed.                           *)
THEOREM JoinIsTrusted == DataDirSpec => []JoinedIsTrusted
<1>1. DataDirInv => JoinedIsTrusted
  <2> SUFFICES ASSUME DataDirInv, ghost.joined, daemon.pc # "down"
               PROVE  /\ ServesPeers /\ ReachesPeers
                      /\ Settled /\ ~ghost.torn => AppReaches
    BY DEF JoinedIsTrusted
  <2>1. /\ store.ca = Cluster /\ store.node \in cluster.issued
        /\ daemon.tls = cluster.tls
    BY DEF DataDirInv, Trusted, Holds
  <2>2. store.node # None /\ Cluster # None
    BY SMTT(60), <2>1, BoundAssumption DEF DataDirInv, Typed, ClusterType, None, Cluster
  <2>3. Verifies(store.node, Cluster)
    BY <2>1, <2>2 DEF Verifies, Signer
  <2>4. ServesPeers /\ ReachesPeers
    BY <2>1, <2>2, <2>3 DEF ServesPeers, ReachesPeers, HasCerts
  <2>5. ASSUME Settled, ~ghost.torn
        PROVE  AppReaches
    <3>1. daemon.tls => /\ files["ca"] = Cluster
                        /\ files["cert"] = store.node /\ files["key"] = store.node
      BY <2>1, <2>5 DEF DataDirInv, FilesFollowStore
    <3> QED
      BY <2>1, <2>2, <2>3, <3>1 DEF AppReaches, FilesLoad, Accepts
  <2> QED
    BY <2>4, <2>5
<1> QED
  BY <1>1, DataDirInvariance, PTL

--------------------------------------------------------------------------------
(* The node id.  NodeIDKept compares the daemon with an earlier daemon; the *)
(* invariant compares both with the configuration they were started from.  *)

IdInv ==
    /\ conf.id = None => store.id = None
    /\ cli.pc # "idle" => conf.id # None
    /\ ~ghost.forced /\ ghost.id # None => conf.id = ghost.id
    /\ ~ghost.forced /\ daemon.pc # "down" /\ daemon.id # None => conf.id = daemon.id
    /\ ~ghost.forced /\ daemon.pc # "down" /\ ghost.id # None => daemon.id # None

LEMMA InitIdInv == DataDirInit => IdInv
  BY SMTT(60) DEF DataDirInit, IdInv, NoFile, Down

LEMMA CommandKeepsId ==
  ASSUME DataDirInv, IdInv, NEW force \in BOOLEAN,
         InitCall(force) \/ SaveIdentity \/ SaveCerts \/ InitDone
  PROVE  IdInv'
<1> USE DEF DataDirInv, Typed, GhostType
<1>1. CASE InitCall(force)
  <2>1. CASE conf # NoFile /\ ~force
    BY <1>1, <2>1 DEF InitCall, IdInv
  <2>2. CASE ~(conf # NoFile /\ ~force)
    <3>1. /\ conf'.id # None /\ cli'.n = made + 1
          /\ ghost' = [ghost EXCEPT !.ok = FALSE, !.forced = ghost.forced \/ force]
          /\ UNCHANGED <<store, daemon>>
      BY SMTT(60), <1>1, <2>2, BoundAssumption DEF InitCall, None
    <3>2. ghost'.id = ghost.id /\ (ghost'.forced <=> ghost.forced \/ force)
      BY <3>1
    <3>3. ~force => conf.id = None
      BY SMTT(60), <2>2 DEF NoFile
    <3> QED
      BY <3>1, <3>2, <3>3 DEF IdInv
  <2> QED
    BY <2>1, <2>2
<1>2. CASE SaveIdentity
  BY <1>2 DEF SaveIdentity, IdInv
<1>3. CASE SaveCerts
  BY <1>3 DEF SaveCerts, Generate, IdInv
<1>4. CASE InitDone
  <2>1. daemon'.pc = "down"
    BY <1>4 DEF InitDone, OneWriter
  <2> QED
    BY <1>4, <2>1 DEF InitDone, IdInv
<1> QED
  BY <1>1, <1>2, <1>3, <1>4

LEMMA DaemonKeepsId ==
  ASSUME DataDirInv, IdInv, Start \/ Serve \/ Stop
  PROVE  IdInv'
<1> USE DEF DataDirInv, Typed, DaemonType, GhostType
<1>1. CASE Start
  BY <1>1 DEF Start, IdInv
<1>2. CASE Serve
  BY <1>2 DEF Serve, IdInv
<1>3. CASE Stop
  BY <1>3 DEF Stop, Down, IdInv
<1> QED
  BY <1>1, <1>2, <1>3

LEMMA JoinKeepsId ==
  ASSUME DataDirInv, IdInv, NEW j \in Join, JoinNext(j)
  PROVE  IdInv'
<1> USE DEF DataDirInv, Typed, GhostType
<1>1. UNCHANGED <<conf, cli, daemon>>
  BY DEF JoinNext, RequestJoin, JoinCommit, JoinRefused, JoinUnanswered, SaveJoinCerts, JoinWrites,
         JoinWriteFails, Joined
<1>2. store'.id = store.id
  BY DEF JoinNext, RequestJoin, JoinCommit, JoinRefused, JoinUnanswered, SaveJoinCerts, JoinWrites,
         JoinWriteFails, Joined
<1>3. ghost'.id = ghost.id /\ ghost'.forced = ghost.forced
  BY DEF JoinNext, RequestJoin, JoinCommit, JoinRefused, JoinUnanswered, SaveJoinCerts, JoinWrites,
         JoinWriteFails, Joined, WriteJoinFiles
<1> QED
  BY <1>1, <1>2, <1>3 DEF IdInv

LEMMA NextIdInv == DataDirInv /\ IdInv /\ [DataDirNext]_dataDirVars => IdInv'
<1> SUFFICES ASSUME DataDirInv, IdInv, [DataDirNext]_dataDirVars PROVE IdInv'
  OBVIOUS
<1>1. CASE UNCHANGED dataDirVars
  BY <1>1 DEF dataDirVars, IdInv
<1>2. CASE InitCall(FALSE) \/ InitCall(TRUE) \/ SaveIdentity \/ SaveCerts \/ InitDone
  BY <1>2, CommandKeepsId
<1>3. CASE Start \/ Serve \/ Stop
  BY <1>3, DaemonKeepsId
<1>4. CASE MainWrites
  BY <1>4 DEF MainWrites, IdInv
<1>5. CASE MainWriteFails
  BY <1>5 DEF MainWriteFails, DataDirInv, Typed, GhostType, IdInv
<1>6. CASE \E j \in Join : JoinNext(j)
  BY <1>6, JoinKeepsId
<1>7. CASE WriteConfig
  BY <1>7, BoundAssumption DEF WriteConfig, DataDirInv, Typed, IdInv, NoFile, None
<1>8. CASE CopyClusterID
  BY <1>8 DEF CopyClusterID, DataDirInv, Typed, IdInv
<1>9. CASE KillDaemon \/ KillInit
  BY SMTT(60), <1>9 DEF KillDaemon, KillInit, Down, IdInv
<1> QED
  BY <1>1, <1>2, <1>3, <1>4, <1>5, <1>6, <1>7, <1>8, <1>9 DEF DataDirNext

(* A restart on the same data.dir runs under the node id of the one before *)
(* it, through every kill, join and refused init, unless an init replaced  *)
(* it (InitStore).                                                         *)
THEOREM NodeIDSurvives == DataDirSpec => []NodeIDKept
<1>1. IdInv => NodeIDKept
  BY DEF IdInv, NodeIDKept, None
<1>2. DataDirSpec => []IdInv
  BY InitIdInv, NextIdInv, DataDirInvariance, PTL DEF DataDirSpec
<1> QED
  BY <1>1, <1>2, PTL

================================================================================
