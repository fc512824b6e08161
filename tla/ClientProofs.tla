------------------------------- MODULE ClientProofs ----------------------------
(***************************************************************************)
(* What the SDK's callers rely on.                                         *)
(*                                                                         *)
(* SDKClient: for any connections, goroutines, losses, timeouts, elections *)
(* and expiries, a connection that one goroutine uses renews nothing that  *)
(* it could not release, and leaves nothing behind when it is closed.      *)
(* Neither is inductive: SDKInv says where a connection's grant is at each *)
(* place of its goroutine.                                                 *)
(*                                                                         *)
(* Publish: for any daemons, calls, cache size, retries, losses and        *)
(* restarts, an id is emitted again only after its eviction, and a peer    *)
(* that a fan-out addressed has emitted the event or has it coming.        *)
(* PublishInv says the cache is the end of what was let through, and that  *)
(* whatever was let through is being handled or emitted.                   *)
(***************************************************************************)
EXTENDS SDKClient, Publish, TLAPS

(* Most steps are first-order: Zenon first, SMT for what it does not find. *)
USE ZenonT(30), SMTT(60)

--------------------------------------------------------------------------------
(* The SDK's locks and leases.                                             *)

Pc == {"idle", "asked", "granted", "adopted", "releasing"}

Place == [pc : Pc, tok : 0 .. next]

Phase == [pc : {"open", "closing", "closed"}, tok : 0 .. next]

SDKTypes ==
    /\ next \in Nat
    /\ grant = Free \/ grant \in [holder : Conn, token : 1 .. next]
    /\ held \in [Conn -> 0 .. next]
    /\ loops \in [Conn -> SUBSET (1 .. next)]
    /\ thread \in [Thread -> Place]
    /\ phase \in [Conn -> Phase]
    /\ ghost = [over |-> ghost.over, stale |-> ghost.stale, excused |-> ghost.excused]
    /\ \A t \in Thread : thread[t].pc \in {"granted", "adopted"} => thread[t].tok # 0

(* What a goroutine alone on its connection knows: the map has nothing     *)
(* while it asks, what it was granted is what the daemon has if anything,  *)
(* what it releases is not renewed.                                        *)
ThreadInv(t) ==
    LET c == ConnOf[t] r == thread[t] IN
    /\ r.pc \in {"asked", "granted"} => held[c] = 0
    /\ r.pc = "granted" /\ grant.holder = c => grant.token = r.tok
    /\ r.pc = "adopted" /\ phase[c].pc # "closed" => held[c] = r.tok
    /\ r.pc = "releasing" => r.tok \notin loops[c]

Asks(c) == \E t \in Thread : ConnOf[t] = c /\ thread[t].pc \in {"asked", "granted"}

(* A grant of an unexcused connection is in its map or on its way there;   *)
(* Close found nothing on its way.                                         *)
Accounted(c) ==
    /\ grant.holder = c => held[c] = grant.token \/ Asks(c)
    /\ phase[c].pc # "open" => ~InFlight(c)
    /\ phase[c].pc = "closing" => held[c] = phase[c].tok
    /\ phase[c].pc = "closed" => grant.holder # c

ConnInv(c) ==
    /\ \A t \in Thread : ConnOf[t] = c => ThreadInv(t)
    /\ Releasable(c)
    /\ c \notin ghost.excused => Accounted(c)

SDKInv ==
    /\ SDKTypes
    /\ \A c \in Conn : Single(c) => ConnInv(c)

(* A step that moves neither the connection's goroutine nor its map nor    *)
(* its phase: the grant of another may come or go, its own may go.         *)
Calm(c) ==
    /\ held'[c] = held[c] /\ phase'[c] = phase[c] /\ loops'[c] \subseteq loops[c]
    /\ \A t \in Thread : ConnOf[t] = c => thread'[t] = thread[t]
    /\ ghost.excused \subseteq ghost'.excused
    /\ grant' = grant \/ grant'.holder # c

LEMMA CalmKeeps ==
    ASSUME NEW c \in Conn, ConnInv(c), Calm(c)
    PROVE  ConnInv(c)'
<1>1. ASSUME NEW t \in Thread, ConnOf[t] = c PROVE ThreadInv(t)'
  <2>1. ThreadInv(t) /\ thread'[t] = thread[t]
    BY <1>1 DEF ConnInv, Calm
  <2> QED  BY <1>1, <2>1 DEF ThreadInv, Calm
<1>2. Releasable(c)'
  BY DEF ConnInv, Calm, Releasable, Matches
<1>3. ASSUME c \notin ghost'.excused PROVE Accounted(c)'
  <2>1. Accounted(c)
    BY <1>3 DEF ConnInv, Calm
  <2>2. Asks(c) => Asks(c)'
    BY DEF Asks, Calm
  <2>3. InFlight(c)' => InFlight(c)
    BY DEF InFlight, Calm
  <2> QED  BY <2>1, <2>2, <2>3 DEF Accounted, Calm
<1> QED  BY <1>1, <1>2, <1>3 DEF ConnInv

LEMMA GotoEffect ==
    ASSUME SDKTypes, NEW t \in Thread, NEW pc \in Pc, NEW tok \in 0 .. next, Goto(t, pc, tok)
    PROVE  /\ thread' \in [Thread -> Place]
           /\ thread'[t].pc = pc /\ thread'[t].tok = tok
           /\ \A u \in Thread \ {t} : thread'[u] = thread[u]
  BY DEF SDKTypes, Goto, Place

LEMMA ExcuseEffect ==
    ASSUME SDKTypes, NEW c \in Conn, Excuse(c)
    PROVE  /\ ghost' = [over |-> ghost'.over, stale |-> ghost'.stale, excused |-> ghost'.excused]
           /\ ghost'.excused = ghost.excused \cup {c}
  BY DEF SDKTypes, Excuse

LEMMA ToldEffect ==
    ASSUME SDKTypes, NEW c \in Conn, NEW tok, Told(c, tok)
    PROVE  /\ ghost' = [over |-> ghost'.over, stale |-> ghost'.stale, excused |-> ghost'.excused]
           /\ ghost'.excused = ghost.excused
  BY DEF SDKTypes, Told

LEMMA ForgetEffect ==
    ASSUME SDKTypes, NEW c \in Conn, NEW tok, Forget(c, tok)
    PROVE  /\ held' \in [Conn -> 0 .. next]
           /\ held[c] = tok => held'[c] = 0
           /\ held[c] # tok => held'[c] = held[c]
           /\ \A d \in Conn \ {c} : held'[d] = held[d]
  BY SMTT(60) DEF SDKTypes, Forget

LEMMA StopEffect ==
    ASSUME SDKTypes, NEW c \in Conn, NEW tok, StopRenew(c, tok)
    PROVE  /\ loops' \in [Conn -> SUBSET (1 .. next)]
           /\ loops'[c] = loops[c] \ {tok}
           /\ \A d \in Conn \ {c} : loops'[d] = loops[d]
  BY DEF SDKTypes, StopRenew

LEMMA OneMoves ==
    ASSUME SDKInv, SDKTypes', NEW c \in Conn, \A d \in Conn \ {c} : Calm(d),
           Single(c) => ConnInv(c)'
    PROVE  SDKInv'
  BY CalmKeeps, ConnAssumption DEF SDKInv, Wired, Single

LEMMA NoneMoves ==
    ASSUME SDKInv, SDKTypes', \A d \in Conn : Calm(d)
    PROVE  SDKInv'
  BY CalmKeeps, ConnAssumption DEF SDKInv, Wired, Single

LEMMA SingleShape ==
    ASSUME NEW t \in Thread, Single(ConnOf[t])
    PROVE  /\ Asks(ConnOf[t]) <=> thread[t].pc \in {"asked", "granted"}
           /\ InFlight(ConnOf[t]) <=> thread[t].pc # "idle"
           /\ Asks(ConnOf[t])' <=> thread'[t].pc \in {"asked", "granted"}
           /\ InFlight(ConnOf[t])' <=> thread'[t].pc # "idle"
  BY DEF Single, Asks, InFlight

LEMMA SingleInv ==
    ASSUME NEW t \in Thread, Single(ConnOf[t]), ThreadInv(t)', Releasable(ConnOf[t])',
           ConnOf[t] \notin ghost'.excused => Accounted(ConnOf[t])'
    PROVE  ConnInv(ConnOf[t])'
  BY DEF ConnInv, Single

(* What holds before a goroutine's step.                                   *)
LEMMA ThreadTypes ==
    ASSUME SDKInv, NEW t \in Thread
    PROVE  /\ SDKTypes /\ ConnOf[t] \in Conn
           /\ "idle" \in Pc /\ "asked" \in Pc /\ "granted" \in Pc
           /\ "adopted" \in Pc /\ "releasing" \in Pc
           /\ next \in Nat /\ 0 \in 0 .. next
           /\ thread[t].pc \in Pc /\ thread[t].tok \in 0 .. next
           /\ held[ConnOf[t]] \in 0 .. next
           /\ phase[ConnOf[t]].pc \in {"open", "closing", "closed"}
           /\ loops[ConnOf[t]] \subseteq 1 .. next
           /\ Free.holder \notin Conn
           /\ grant # Free => grant.holder \in Conn /\ grant.token \in 1 .. next
           /\ Single(ConnOf[t]) => ThreadInv(t) /\ Releasable(ConnOf[t])
                 /\ (ConnOf[t] \notin ghost.excused => Accounted(ConnOf[t]))
<1>1. SDKTypes /\ Wired /\ ConnOf[t] \in Conn
  BY ConnAssumption DEF SDKInv, Wired
<1>2. thread[t] \in Place /\ phase[ConnOf[t]] \in Phase
  BY <1>1 DEF SDKTypes
<1>3. Single(ConnOf[t]) => ConnInv(ConnOf[t])
  BY <1>1 DEF SDKInv
<1>4. Free.holder \notin Conn
  BY <1>1 DEF Free, Wired
<1>5. thread[t].pc \in Pc /\ thread[t].tok \in 0 .. next
  BY <1>2 DEF Place
<1>6. phase[ConnOf[t]].pc \in {"open", "closing", "closed"}
  BY <1>2 DEF Phase
<1>7. grant # Free => grant.holder \in Conn /\ grant.token \in 1 .. next
  BY <1>1 DEF SDKTypes
<1>8. next \in Nat /\ 0 \in 0 .. next /\ held[ConnOf[t]] \in 0 .. next
      /\ loops[ConnOf[t]] \subseteq 1 .. next
  BY SMTT(60), <1>1 DEF SDKTypes
<1> QED  BY <1>1, <1>3, <1>4, <1>5, <1>6, <1>7, <1>8 DEF ConnInv, Pc

(* Lock and Lease.                                                         *)
LEMMA LockCallStep ==
    ASSUME SDKInv, NEW t \in Thread, LockCall(t)
    PROVE  SDKInv'
<1> DEFINE c == ConnOf[t]
<1>1. SDKTypes /\ c \in Conn
  BY ThreadTypes
<1>2. thread[t].pc = "idle" /\ phase[c].pc = "open"
      /\ UNCHANGED <<grant, next, leader, held, loops, phase, budget>>
  BY DEF LockCall
<1>3. CASE held[c] # 0
  <2>1. thread' = thread /\ ghost'.excused = ghost.excused
        /\ ghost' = [over |-> ghost'.over, stale |-> ghost'.stale, excused |-> ghost'.excused]
    BY <1>1, <1>3 DEF LockCall, SDKTypes
  <2>2. SDKTypes'
    BY <1>1, <1>2, <2>1 DEF SDKTypes, Place, Phase
  <2> QED  BY <1>2, <2>1, <2>2, NoneMoves DEF Calm
<1>4. CASE held[c] = 0
  <2>0. Goto(t, "asked", 0) /\ ghost' = ghost
    BY <1>4 DEF LockCall
  <2>1. /\ thread' \in [Thread -> Place] /\ thread'[t].pc = "asked" /\ thread'[t].tok = 0
        /\ \A u \in Thread \ {t} : thread'[u] = thread[u]
    BY <1>1, <2>0, ThreadTypes, GotoEffect
  <2>2. SDKTypes'
    BY <1>1, <1>2, <2>0, <2>1 DEF SDKTypes, Place, Phase
  <2>3. \A d \in Conn \ {c} : Calm(d)
    BY <1>2, <2>0, <2>1 DEF Calm
  <2>4. ASSUME Single(c) PROVE ConnInv(c)'
    <3>1. ThreadInv(t)'
      BY <1>2, <1>4, <2>1 DEF ThreadInv
    <3>2. Releasable(c)'
      BY <1>2, <2>4, ThreadTypes DEF Releasable, Matches
    <3>3. ASSUME c \notin ghost.excused PROVE Accounted(c)'
      BY <1>2, <2>1, <2>4, SingleShape DEF Accounted
    <3> QED  BY <2>0, <2>4, <3>1, <3>2, <3>3, SingleInv
  <2> QED  BY <1>1, <2>2, <2>3, <2>4, OneMoves
<1> QED  BY <1>3, <1>4

LEMMA LockServeStep ==
    ASSUME SDKInv, NEW t \in Thread, NEW a \in BOOLEAN, LockServe(t, a)
    PROVE  SDKInv'
<1> DEFINE c == ConnOf[t]
<1>1. SDKTypes /\ c \in Conn /\ next \in Nat
  BY ThreadTypes
<1>2. thread[t].pc = "asked" /\ UNCHANGED <<leader, held, loops, phase, ghost>>
  BY DEF LockServe
<1>3. /\ grant'.holder = c /\ grant'.token \in 1 .. next' /\ next' \in Nat /\ next <= next'
      /\ grant' \in [holder : Conn, token : 1 .. next']
      /\ grant' = grant \/ (grant = Free /\ grant'.token = next + 1)
  <2>1. CASE grant = Free /\ grant' = [holder |-> c, token |-> next + 1] /\ next' = next + 1
    BY <1>1, <2>1
  <2>2. CASE grant.holder = c /\ grant' = grant /\ next' = next
    <3>1. grant # Free
      BY <1>1, <2>2, ThreadTypes
    <3>2. grant \in [holder : Conn, token : 1 .. next]
      BY <1>1, <3>1 DEF SDKTypes
    <3> QED  BY <1>1, <2>2, <3>2
  <2> QED  BY <2>1, <2>2 DEF LockServe
<1>4. \/ thread' = thread
      \/ thread' = [thread EXCEPT ![t] = [pc |-> "granted", tok |-> grant'.token]]
  BY DEF LockServe, Goto
<1>5. /\ thread'[t].pc \in {"asked", "granted"}
      /\ thread'[t].pc = "granted" => thread'[t].tok = grant'.token
      /\ \A u \in Thread \ {t} : thread'[u] = thread[u]
  BY SMTT(60), <1>1, <1>2, <1>4 DEF SDKTypes
<1>6. SDKTypes'
  <2>1. 0 .. next \subseteq 0 .. next' /\ 1 .. next \subseteq 1 .. next'
    BY SMTT(60), <1>1, <1>3
  <2>2. Place \subseteq Place' /\ Phase \subseteq Phase'
    BY <2>1 DEF Place, Phase
  <2>3. [pc |-> "granted", tok |-> grant'.token] \in Place'
    BY SMTT(60), <1>3 DEF Place, Pc
  <2>4. thread' \in [Thread -> Place']
    BY <1>1, <1>4, <2>2, <2>3 DEF SDKTypes
  <2>5. held' \in [Conn -> 0 .. next'] /\ loops' \in [Conn -> SUBSET (1 .. next')]
    BY <1>1, <1>2, <2>1 DEF SDKTypes
  <2>6. phase' \in [Conn -> Phase']
    BY <1>1, <1>2, <2>2 DEF SDKTypes
  <2>7. \A u \in Thread : thread'[u].pc \in {"granted", "adopted"} => thread'[u].tok # 0
    BY SMTT(60), <1>1, <1>3, <1>5 DEF SDKTypes
  <2> QED  BY <1>1, <1>2, <1>3, <2>4, <2>5, <2>6, <2>7 DEF SDKTypes
<1>7. \A d \in Conn \ {c} : Calm(d)
  BY <1>2, <1>3, <1>5 DEF Calm
<1>8. ASSUME Single(c) PROVE ConnInv(c)'
  <2>0. ThreadInv(t) /\ Releasable(c) /\ loops[c] \subseteq 1 .. next
    BY <1>8, ThreadTypes
  <2>1. ThreadInv(t)'
    BY <1>2, <1>5, <2>0 DEF ThreadInv
  <2>2. Releasable(c)'
    <3>1. grant' # grant => \A tok \in loops[c] : tok # grant'.token
      BY <1>1, <1>3, <2>0
    <3> QED  BY <1>2, <2>0, <3>1 DEF Releasable, Matches
  <2>3. ASSUME c \notin ghost.excused PROVE Accounted(c)'
    <3>1. Accounted(c)
      BY <1>8, <2>3, ThreadTypes
    <3>2. phase[c].pc = "open"
      BY <1>2, <1>8, <3>1, SingleShape, ThreadTypes DEF Accounted
    <3> QED  BY <1>2, <1>5, <1>8, <3>2, SingleShape DEF Accounted
  <2> QED  BY <1>2, <1>8, <2>1, <2>2, <2>3, SingleInv
<1> QED  BY <1>1, <1>6, <1>7, <1>8, OneMoves

(* A call that ends: the goroutine is idle again, and whatever grant the   *)
(* connection may have is in its map.                                      *)
LEMMA CallEnds ==
    ASSUME SDKInv, NEW t \in Thread, Goto(t, "idle", 0),
           UNCHANGED <<grant, next, held, loops, phase>>,
           ghost' = ghost \/ Excuse(ConnOf[t]),
           \/ ConnOf[t] \in ghost'.excused
           \/ grant.holder # ConnOf[t]
           \/ thread[t].pc \in {"idle", "adopted", "releasing"}
    PROVE  SDKInv'
<1> DEFINE c == ConnOf[t]
<1>1. SDKTypes /\ c \in Conn
  BY ThreadTypes
<1>2. /\ thread' \in [Thread -> Place] /\ thread'[t].pc = "idle" /\ thread'[t].tok = 0
      /\ \A u \in Thread \ {t} : thread'[u] = thread[u]
  BY <1>1, ThreadTypes, GotoEffect
<1>3. /\ ghost' = [over |-> ghost'.over, stale |-> ghost'.stale, excused |-> ghost'.excused]
      /\ ghost.excused \subseteq ghost'.excused
  BY <1>1, ExcuseEffect DEF SDKTypes
<1>4. SDKTypes'
  BY <1>1, <1>2, <1>3 DEF SDKTypes, Place, Phase
<1>5. \A d \in Conn \ {c} : Calm(d)
  BY <1>2, <1>3 DEF Calm
<1>6. ASSUME Single(c) PROVE ConnInv(c)'
  <2>1. ThreadInv(t)'
    BY <1>2 DEF ThreadInv
  <2>2. Releasable(c)'
    BY <1>6, ThreadTypes DEF Releasable, Matches
  <2>3. ASSUME c \notin ghost'.excused PROVE Accounted(c)'
    <3>1. Accounted(c)
      BY <1>3, <1>6, <2>3, ThreadTypes
    <3>2. grant.holder = c => held[c] = grant.token
      BY <1>6, <2>3, <3>1, SingleShape DEF Accounted
    <3> QED  BY <1>2, <1>6, <3>1, <3>2, SingleShape DEF Accounted
  <2> QED  BY <1>6, <2>1, <2>2, <2>3, SingleInv
<1> QED  BY <1>1, <1>4, <1>5, <1>6, OneMoves

LEMMA LockEndsStep ==
    ASSUME SDKInv, NEW t \in Thread, LockRefused(t) \/ LockTimeout(t)
    PROVE  SDKInv'
<1>1. SDKTypes /\ ConnOf[t] \in Conn
  BY ThreadTypes
<1>2. /\ Goto(t, "idle", 0) /\ UNCHANGED <<grant, next, held, loops, phase>>
      /\ Excuse(ConnOf[t]) \/ (ghost' = ghost /\ grant.holder # ConnOf[t])
  BY DEF LockRefused, LockTimeout
<1>3. Excuse(ConnOf[t]) => ConnOf[t] \in ghost'.excused
  BY <1>1, ExcuseEffect
<1> QED  BY <1>2, <1>3, CallEnds

LEMMA UnlockTimeoutStep ==
    ASSUME SDKInv, NEW t \in Thread, UnlockTimeout(t)
    PROVE  SDKInv'
  BY CallEnds DEF UnlockTimeout

(* A call that the closed connection fails was in flight at Close.         *)
LEMMA CancelStep ==
    ASSUME SDKInv, NEW t \in Thread, Cancel(t)
    PROVE  SDKInv'
<1> DEFINE c == ConnOf[t]
<1>1. /\ Goto(t, "idle", 0) /\ UNCHANGED <<grant, next, held, loops, phase, ghost>>
      /\ phase[c].pc = "closed" /\ thread[t].pc # "idle"
  BY DEF Cancel
<1>2. CASE Single(c)
  <2>1. c \in ghost.excused
    BY <1>1, <1>2, ThreadTypes, SingleShape DEF Accounted
  <2> QED  BY <1>1, <2>1, CallEnds
<1>3. CASE ~Single(c)
  <2>1. SDKTypes /\ c \in Conn
    BY ThreadTypes
  <2>2. /\ thread' \in [Thread -> Place] /\ thread'[t].pc = "idle" /\ thread'[t].tok = 0
        /\ \A u \in Thread \ {t} : thread'[u] = thread[u]
    BY SMTT(60), <1>1, <2>1, ThreadTypes, GotoEffect
  <2>3. SDKTypes'
    BY <1>1, <2>1, <2>2 DEF SDKTypes, Place, Phase
  <2>4. \A d \in Conn \ {c} : Calm(d)
    BY <1>1, <2>2 DEF Calm
  <2> QED  BY <1>3, <2>1, <2>3, <2>4, OneMoves
<1> QED  BY <1>2, <1>3

LEMMA AdoptStep ==
    ASSUME SDKInv, NEW t \in Thread, Adopt(t)
    PROVE  SDKInv'
<1> DEFINE c == ConnOf[t]
           tok == thread[t].tok
<1>1. SDKTypes /\ c \in Conn /\ tok \in 0 .. next /\ tok # 0
  BY ThreadTypes DEF SDKTypes, Adopt
<1>2. thread[t].pc = "granted" /\ UNCHANGED <<grant, next, leader, loops, phase, ghost, budget>>
  BY DEF Adopt
<1>3. ASSUME NEW pc \in {"idle", "adopted"}, NEW k \in {0, tok}, Goto(t, pc, k), held'[c] = tok,
             pc = "adopted" => k = tok,
             held' \in [Conn -> 0 .. next], \A d \in Conn \ {c} : held'[d] = held[d]
      PROVE  SDKInv'
  <2>1. /\ thread' \in [Thread -> Place] /\ thread'[t].pc = pc /\ thread'[t].tok = k
        /\ \A u \in Thread \ {t} : thread'[u] = thread[u]
    <3>1. pc \in Pc /\ k \in 0 .. next
      BY <1>1, <1>3, ThreadTypes
    <3> QED  BY SMTT(60), <1>1, <1>3, <3>1, GotoEffect
  <2>2. SDKTypes'
    BY <1>1, <1>2, <1>3, <2>1 DEF SDKTypes, Place, Phase
  <2>3. \A d \in Conn \ {c} : Calm(d)
    BY <1>2, <1>3, <2>1 DEF Calm
  <2>4. ASSUME Single(c) PROVE ConnInv(c)'
    <3>0. ThreadInv(t) /\ Releasable(c) /\ loops[c] \subseteq 1 .. next
      BY <2>4, ThreadTypes
    <3>1. ThreadInv(t)'
      BY <1>3, <2>1 DEF ThreadInv
    <3>2. Releasable(c)'
      <4>1. held[c] = 0
        BY <1>2, <3>0 DEF ThreadInv
      <4>2. ASSUME phase[c].pc # "closed", NEW k2 \in loops[c], Matches(c, k2) PROVE FALSE
        BY SMTT(60), <1>1, <3>0, <4>1, <4>2 DEF Releasable, SDKTypes
      <4> QED  BY <1>2, <4>2 DEF Releasable, Matches
    <3>3. ASSUME c \notin ghost.excused PROVE Accounted(c)'
      <4>1. Accounted(c)
        BY <2>4, <3>3, ThreadTypes
      <4>2. phase[c].pc = "open"
        BY <1>2, <2>4, <4>1, SingleShape, ThreadTypes DEF Accounted
      <4>3. grant.holder = c => grant.token = tok
        BY <1>2, <3>0 DEF ThreadInv
      <4> QED  BY <1>2, <1>3, <4>2, <4>3 DEF Accounted
    <3> QED  BY <1>2, <2>4, <3>1, <3>2, <3>3, SingleInv
  <2> QED  BY <1>1, <2>2, <2>3, <2>4, OneMoves
<1>4. CASE held[c] = tok
  BY <1>1, <1>3, <1>4 DEF Adopt, SDKTypes
<1>5. CASE held[c] # tok
  <2>1. held' = [held EXCEPT ![c] = tok] /\ Goto(t, "adopted", tok)
    BY <1>5 DEF Adopt
  <2>2. /\ held' \in [Conn -> 0 .. next] /\ held'[c] = tok
        /\ \A d \in Conn \ {c} : held'[d] = held[d]
    BY <1>1, <2>1 DEF SDKTypes
  <2> QED  BY <1>3, <2>1, <2>2
<1> QED  BY <1>4, <1>5

LEMMA StartRenewStep ==
    ASSUME SDKInv, NEW t \in Thread, StartRenew(t)
    PROVE  SDKInv'
<1> DEFINE c == ConnOf[t]
           tok == thread[t].tok
<1>1. SDKTypes /\ c \in Conn /\ tok \in 0 .. next /\ tok # 0 /\ tok \in 1 .. next
  BY SMTT(60), ThreadTypes DEF SDKTypes, StartRenew
<1>2. /\ thread[t].pc = "adopted" /\ Goto(t, "idle", 0)
      /\ UNCHANGED <<grant, next, leader, held, phase, ghost, budget>>
  BY DEF StartRenew
<1>3. /\ loops' \in [Conn -> SUBSET (1 .. next)] /\ loops'[c] = loops[c] \cup {tok}
      /\ \A d \in Conn \ {c} : loops'[d] = loops[d]
  BY <1>1 DEF StartRenew, SDKTypes
<1>4. /\ thread' \in [Thread -> Place] /\ thread'[t].pc = "idle" /\ thread'[t].tok = 0
      /\ \A u \in Thread \ {t} : thread'[u] = thread[u]
  BY <1>1, <1>2, ThreadTypes, GotoEffect
<1>5. SDKTypes'
  BY <1>1, <1>2, <1>3, <1>4 DEF SDKTypes, Place, Phase
<1>6. \A d \in Conn \ {c} : Calm(d)
  BY <1>2, <1>3, <1>4 DEF Calm
<1>7. ASSUME Single(c) PROVE ConnInv(c)'
  <2>0. ThreadInv(t) /\ Releasable(c)
    BY <1>7, ThreadTypes
  <2>1. ThreadInv(t)'
    BY <1>4 DEF ThreadInv
  <2>2. phase[c].pc # "closed" => held[c] = tok
    BY <1>2, <2>0 DEF ThreadInv
  <2>3. Releasable(c)'
    BY <1>2, <1>3, <2>0, <2>2 DEF Releasable, Matches
  <2>4. ASSUME c \notin ghost.excused PROVE Accounted(c)'
    <3>1. Accounted(c)
      BY <1>7, <2>4, ThreadTypes
    <3> QED  BY <1>2, <1>4, <1>7, <3>1, SingleShape DEF Accounted
  <2> QED  BY <1>2, <1>7, <2>1, <2>3, <2>4, SingleInv
<1> QED  BY <1>1, <1>5, <1>6, <1>7, OneMoves

(* Unlock and Revoke.                                                      *)
LEMMA UnlockCallStep ==
    ASSUME SDKInv, NEW t \in Thread, UnlockCall(t)
    PROVE  SDKInv'
<1> DEFINE c == ConnOf[t]
<1>1. SDKTypes /\ c \in Conn /\ held[c] \in 0 .. next
  BY ThreadTypes
<1>2. /\ thread[t].pc = "idle" /\ phase[c].pc = "open" /\ StopRenew(c, held[c])
      /\ Goto(t, "releasing", held[c])
      /\ UNCHANGED <<grant, next, leader, held, phase, ghost, budget>>
  BY DEF UnlockCall
<1>3. /\ loops' \in [Conn -> SUBSET (1 .. next)] /\ loops'[c] = loops[c] \ {held[c]}
      /\ \A d \in Conn \ {c} : loops'[d] = loops[d]
  BY <1>1, <1>2, StopEffect
<1>4. /\ thread' \in [Thread -> Place] /\ thread'[t].pc = "releasing" /\ thread'[t].tok = held[c]
      /\ \A u \in Thread \ {t} : thread'[u] = thread[u]
  BY SMTT(60), <1>1, <1>2, ThreadTypes, GotoEffect
<1>5. SDKTypes'
  BY <1>1, <1>2, <1>3, <1>4 DEF SDKTypes, Place, Phase
<1>6. \A d \in Conn \ {c} : Calm(d)
  BY <1>2, <1>3, <1>4 DEF Calm
<1>7. ASSUME Single(c) PROVE ConnInv(c)'
  <2>1. ThreadInv(t)'
    BY <1>3, <1>4 DEF ThreadInv
  <2>2. Releasable(c)'
    BY <1>2, <1>3, <1>7, ThreadTypes DEF Releasable, Matches
  <2>3. ASSUME c \notin ghost.excused PROVE Accounted(c)'
    <3>1. Accounted(c)
      BY <1>7, <2>3, ThreadTypes
    <3>2. grant.holder = c => held[c] = grant.token
      BY <1>2, <1>7, <3>1, SingleShape DEF Accounted
    <3> QED  BY <1>2, <3>2 DEF Accounted
  <2> QED  BY <1>2, <1>7, <2>1, <2>2, <2>3, SingleInv
<1> QED  BY <1>1, <1>5, <1>6, <1>7, OneMoves

(* The daemon's side of a release: afterwards the token is not granted.    *)
LEMMA ReleaseEffect ==
    ASSUME SDKInv, NEW c \in Conn, NEW tok,
           grant' = IF Matches(c, tok) THEN Free ELSE grant, next' = next
    PROVE  /\ grant' = Free \/ grant' \in [holder : Conn, token : 1 .. next]
           /\ \A d \in Conn : grant' = grant \/ grant'.holder # d
           /\ ~(grant'.holder = c /\ grant'.token = tok)
<1>1. SDKTypes /\ Free.holder \notin Conn
  BY ConnAssumption DEF SDKInv, Wired, Free
<1>2. CASE Matches(c, tok)
  BY <1>1, <1>2
<1>3. CASE ~Matches(c, tok)
  <2>1. grant' = grant
    BY <1>3
  <2>2. ~(grant.holder = c /\ grant.token = tok)
    <3>1. CASE grant = Free
      BY <1>1, <3>1
    <3>2. CASE grant # Free
      <4>1. grant \in [holder : Conn, token : 1 .. next]
        BY <1>1, <3>2 DEF SDKTypes
      <4> QED  BY <1>3, <4>1 DEF Matches
    <3> QED  BY <3>1, <3>2
  <2> QED  BY <1>1, <2>1, <2>2 DEF SDKTypes
<1> QED  BY <1>2, <1>3

(* The answer of Unlock, the grant gone or the connection excused: the map *)
(* forgets the handle.                                                     *)
LEMMA Forgotten ==
    ASSUME SDKInv, NEW t \in Thread, thread[t].pc = "releasing",
           Forget(ConnOf[t], thread[t].tok), Goto(t, "idle", 0),
           UNCHANGED <<next, loops, phase>>,
           ghost' = [over |-> ghost'.over, stale |-> ghost'.stale, excused |-> ghost'.excused],
           ghost.excused \subseteq ghost'.excused,
           grant' = Free \/ grant' \in [holder : Conn, token : 1 .. next],
           \A d \in Conn : grant' = grant \/ grant'.holder # d,
           \/ ConnOf[t] \in ghost'.excused
           \/ ~(grant'.holder = ConnOf[t] /\ grant'.token = thread[t].tok)
    PROVE  SDKInv'
<1> DEFINE c == ConnOf[t]
           tok == thread[t].tok
<1>1. SDKTypes /\ c \in Conn
  BY ThreadTypes
<1>2. /\ held' \in [Conn -> 0 .. next]
      /\ held[c] = tok => held'[c] = 0
      /\ held[c] # tok => held'[c] = held[c]
      /\ \A d \in Conn \ {c} : held'[d] = held[d]
  BY <1>1, ForgetEffect
<1>3. /\ thread' \in [Thread -> Place] /\ thread'[t].pc = "idle" /\ thread'[t].tok = 0
      /\ \A u \in Thread \ {t} : thread'[u] = thread[u]
  BY <1>1, ThreadTypes, GotoEffect
<1>4. SDKTypes'
  <2>1. Place' = Place /\ Phase' = Phase
    BY DEF Place, Phase
  <2>2. \A u \in Thread : thread'[u].pc \in {"granted", "adopted"} => thread'[u].tok # 0
    BY <1>1, <1>3 DEF SDKTypes
  <2>3. /\ next' \in Nat /\ loops' \in [Conn -> SUBSET (1 .. next')]
        /\ phase' \in [Conn -> Phase]
    BY <1>1 DEF SDKTypes
  <2> QED  BY <1>2, <1>3, <2>1, <2>2, <2>3 DEF SDKTypes
<1>5. \A d \in Conn \ {c} : Calm(d)
  BY <1>2, <1>3 DEF Calm
<1>6. ASSUME Single(c) PROVE ConnInv(c)'
  <2>0. ThreadInv(t) /\ Releasable(c) /\ tok \notin loops[c]
    BY <1>6, ThreadTypes DEF ThreadInv
  <2>1. ThreadInv(t)'
    BY <1>3 DEF ThreadInv
  <2>2. Releasable(c)'
    <3>1. ASSUME phase[c].pc # "closed", NEW k \in loops[c], grant' = [holder |-> c, token |-> k]
          PROVE  held'[c] = k
      <4>1. grant' = grant /\ k # tok
        BY <1>1, <2>0, <3>1
      <4>2. held[c] = k
        BY <2>0, <3>1, <4>1 DEF Releasable, Matches
      <4> QED  BY <1>2, <4>1, <4>2
    <3> QED  BY <3>1 DEF Releasable, Matches
  <2>3. ASSUME c \notin ghost'.excused PROVE Accounted(c)'
    <3>1. Accounted(c)
      BY <1>6, <2>3, ThreadTypes
    <3>2. phase[c].pc = "open"
      BY <1>6, <3>1, SingleShape, ThreadTypes DEF Accounted
    <3>3. grant'.holder = c => grant' = grant /\ held[c] = grant.token /\ held[c] # tok
      BY <1>1, <1>6, <2>3, <3>1, SingleShape DEF Accounted
    <3> QED  BY <1>2, <3>2, <3>3 DEF Accounted
  <2> QED  BY <1>6, <2>1, <2>2, <2>3, SingleInv
<1> QED  BY <1>1, <1>4, <1>5, <1>6, OneMoves

LEMMA UnlockServeStep ==
    ASSUME SDKInv, NEW t \in Thread, NEW a \in BOOLEAN, UnlockServe(t, a)
    PROVE  SDKInv'
<1> DEFINE c == ConnOf[t]
           tok == thread[t].tok
<1>1. SDKTypes /\ c \in Conn
  BY ThreadTypes
<1>2. /\ thread[t].pc = "releasing" /\ UNCHANGED <<next, leader, loops, phase>>
      /\ grant' = IF Matches(c, tok) THEN Free ELSE grant
  BY DEF UnlockServe
<1>3. /\ grant' = Free \/ grant' \in [holder : Conn, token : 1 .. next]
      /\ \A d \in Conn : grant' = grant \/ grant'.holder # d
      /\ ~(grant'.holder = c /\ grant'.token = tok)
  BY <1>1, <1>2, ReleaseEffect
<1>4. CASE a
  <2>1. Forget(c, tok) /\ Goto(t, "idle", 0) /\ Told(c, tok)
    BY <1>4 DEF UnlockServe
  <2>2. /\ ghost' = [over |-> ghost'.over, stale |-> ghost'.stale, excused |-> ghost'.excused]
        /\ ghost'.excused = ghost.excused
    BY <1>1, <2>1, ToldEffect
  <2> QED  BY <1>2, <1>3, <2>1, <2>2, Forgotten
<1>5. CASE ~a
  <2>1. UNCHANGED <<held, thread, ghost>>
    BY <1>5 DEF UnlockServe
  <2>2. SDKTypes'
    BY <1>1, <1>2, <1>3, <2>1 DEF SDKTypes, Place, Phase
  <2>3. \A d \in Conn : Calm(d)
    BY <1>2, <1>3, <2>1 DEF Calm
  <2> QED  BY <2>2, <2>3, NoneMoves
<1> QED  BY <1>4, <1>5

LEMMA UnlockRefusedStep ==
    ASSUME SDKInv, NEW t \in Thread, UnlockRefused(t)
    PROVE  SDKInv'
<1>1. SDKTypes /\ ConnOf[t] \in Conn
  BY ThreadTypes
<1>2. /\ thread[t].pc = "releasing" /\ UNCHANGED <<grant, next, loops, phase>>
      /\ Forget(ConnOf[t], thread[t].tok) /\ Goto(t, "idle", 0) /\ Excuse(ConnOf[t])
  BY DEF UnlockRefused
<1>3. /\ ghost' = [over |-> ghost'.over, stale |-> ghost'.stale, excused |-> ghost'.excused]
      /\ ghost'.excused = ghost.excused \cup {ConnOf[t]}
  BY <1>1, <1>2, ExcuseEffect
<1>4. grant = Free \/ grant \in [holder : Conn, token : 1 .. next]
  BY <1>1 DEF SDKTypes
<1> QED  BY <1>2, <1>3, <1>4, Forgotten

(* Close.                                                                  *)
LEMMA ConnTypes ==
    ASSUME SDKInv, NEW c \in Conn
    PROVE  /\ SDKTypes /\ held[c] \in 0 .. next /\ phase[c] \in Phase
           /\ Free.holder \notin Conn
           /\ grant # Free => grant.holder \in Conn /\ grant.token \in 1 .. next
           /\ Single(c) => ConnInv(c)
<1>1. SDKTypes /\ Wired /\ (Single(c) => ConnInv(c))
  BY ConnAssumption DEF SDKInv
<1>2. Free.holder \notin Conn
  BY <1>1 DEF Free, Wired
<1>3. grant # Free => grant.holder \in Conn /\ grant.token \in 1 .. next
  BY <1>1 DEF SDKTypes
<1> QED  BY <1>1, <1>2, <1>3 DEF SDKTypes

(* The phase moves while no goroutine does.                                *)
LEMMA PhaseStep ==
    ASSUME SDKInv, NEW c \in Conn, NEW q \in Phase, phase' = [phase EXCEPT ![c] = q],
           UNCHANGED <<next, thread>>,
           loops' \in [Conn -> SUBSET (1 .. next)], loops'[c] \subseteq loops[c],
           \A d \in Conn \ {c} : loops'[d] = loops[d],
           held' \in [Conn -> 0 .. next], \A d \in Conn \ {c} : held'[d] = held[d],
           held'[c] \in {0, held[c]}, q.pc # "closed" => held'[c] = held[c],
           phase[c].pc # "closed",
           ghost' = [over |-> ghost'.over, stale |-> ghost'.stale, excused |-> ghost'.excused],
           ghost.excused \subseteq ghost'.excused,
           grant' = Free \/ grant' \in [holder : Conn, token : 1 .. next],
           \A d \in Conn : grant' = grant \/ grant'.holder # d,
           Single(c) /\ c \notin ghost'.excused => Accounted(c)'
    PROVE  SDKInv'
<1>1. SDKTypes /\ (Single(c) => ConnInv(c))
  BY ConnTypes
<1>2. phase' \in [Conn -> Phase] /\ phase'[c] = q /\ \A d \in Conn \ {c} : phase'[d] = phase[d]
  BY <1>1 DEF SDKTypes
<1>3. SDKTypes'
  BY <1>1, <1>2 DEF SDKTypes, Place, Phase
<1>4. \A d \in Conn \ {c} : Calm(d)
  BY <1>2 DEF Calm
<1>5. ASSUME Single(c) PROVE ConnInv(c)'
  <2>1. ASSUME NEW t \in Thread, ConnOf[t] = c PROVE ThreadInv(t)'
    <3>1. ThreadInv(t)
      BY <1>1, <1>5, <2>1 DEF ConnInv
    <3> QED  BY <1>2, <2>1, <3>1 DEF ThreadInv
  <2>2. Releasable(c)'
    <3>1. Releasable(c)
      BY <1>1, <1>5 DEF ConnInv
    <3>2. grant'.holder = c => grant' = grant
      OBVIOUS
    <3>3. ASSUME q.pc # "closed", NEW k \in loops'[c], grant' = [holder |-> c, token |-> k]
          PROVE  held'[c] = k
      BY <3>1, <3>2, <3>3 DEF Releasable, Matches
    <3> QED  BY <1>2, <3>3 DEF Releasable, Matches
  <2> QED  BY <1>5, <2>1, <2>2 DEF ConnInv
<1> QED  BY <1>1, <1>3, <1>4, <1>5, OneMoves

LEMMA CloseStep ==
    ASSUME SDKInv, NEW c \in Conn, Close(c)
    PROVE  SDKInv'
<1> DEFINE q == [pc |-> IF held[c] # 0 THEN "closing" ELSE "closed", tok |-> held[c]]
<1>1. SDKTypes /\ held[c] \in 0 .. next
  BY ConnTypes
<1>2. /\ phase[c].pc = "open" /\ phase' = [phase EXCEPT ![c] = q] /\ StopRenew(c, held[c])
      /\ Overlaps(c) /\ UNCHANGED <<grant, next, held, thread>>
  BY DEF Close
<1>3. /\ q \in Phase /\ q.tok = held[c]
      /\ q.pc = (IF held[c] # 0 THEN "closing" ELSE "closed")
  BY <1>1 DEF Phase
<1> HIDE DEF q
<1>4. /\ loops' \in [Conn -> SUBSET (1 .. next)] /\ loops'[c] = loops[c] \ {held[c]}
      /\ \A d \in Conn \ {c} : loops'[d] = loops[d]
  BY <1>1, <1>2, StopEffect
<1>5. /\ ghost' = [over |-> ghost'.over, stale |-> ghost'.stale, excused |-> ghost'.excused]
      /\ ghost.excused \subseteq ghost'.excused
      /\ InFlight(c) => c \in ghost'.excused
  BY SMTT(60), <1>1, <1>2, ExcuseEffect DEF Overlaps, SDKTypes
<1>6. ASSUME Single(c), c \notin ghost'.excused PROVE Accounted(c)'
  <2>1. Accounted(c)
    BY <1>5, <1>6, ConnTypes DEF ConnInv
  <2>2. ~InFlight(c) /\ ~Asks(c) /\ ~InFlight(c)'
    BY <1>2, <1>5, <1>6 DEF InFlight, Asks
  <2>3. grant.holder = c => held[c] = grant.token /\ grant.token # 0
    BY <2>1, <2>2, ConnTypes DEF Accounted
  <2>4. phase'[c] = q
    BY <1>1, <1>2 DEF SDKTypes
  <2> QED  BY <1>2, <1>3, <2>2, <2>3, <2>4 DEF Accounted
<1>7. grant = Free \/ grant \in [holder : Conn, token : 1 .. next]
  BY <1>1 DEF SDKTypes
<1>8. held \in [Conn -> 0 .. next]
  BY <1>1 DEF SDKTypes
<1> QED  BY <1>2, <1>3, <1>4, <1>5, <1>6, <1>7, <1>8, PhaseStep

LEMMA CloseServeStep ==
    ASSUME SDKInv, NEW c \in Conn, NEW a \in BOOLEAN, CloseServe(c, a)
    PROVE  SDKInv'
<1> DEFINE tok == phase[c].tok
           q == [phase[c] EXCEPT !.pc = "closed"]
<1>1. SDKTypes /\ phase[c] \in Phase
  BY ConnTypes
<1>2. phase[c].pc = "closing" /\ UNCHANGED <<next, leader, loops, thread>>
  BY DEF CloseServe
<1>3. /\ grant' = Free \/ grant' \in [holder : Conn, token : 1 .. next]
      /\ \A d \in Conn : grant' = grant \/ grant'.holder # d
      /\ leader => ~(grant'.holder = c /\ grant'.token = tok) /\ ghost' = ghost
      /\ ~leader => a /\ Excuse(c) /\ grant' = grant
  <2>1. CASE leader
    <3>1. grant' = (IF Matches(c, tok) THEN Free ELSE grant) /\ ghost' = ghost
      BY <2>1 DEF CloseServe
    <3> QED  BY <1>2, <2>1, <3>1, ReleaseEffect
  <2>2. CASE ~leader
    BY <1>1, <2>2 DEF CloseServe, SDKTypes
  <2> QED  BY <2>1, <2>2
<1>4. /\ ghost' = [over |-> ghost'.over, stale |-> ghost'.stale, excused |-> ghost'.excused]
      /\ ghost.excused \subseteq ghost'.excused
      /\ ~leader => c \in ghost'.excused
  BY <1>1, <1>3, ExcuseEffect DEF SDKTypes
<1>5. CASE ~a
  <2>1. leader /\ UNCHANGED <<phase, held>>
    BY <1>3, <1>5 DEF CloseServe
  <2>2. SDKTypes'
    BY <1>1, <1>2, <1>3, <1>4, <2>1 DEF SDKTypes, Place, Phase
  <2>3. \A d \in Conn : Calm(d)
    BY <1>2, <1>3, <1>4, <2>1 DEF Calm
  <2> QED  BY <2>2, <2>3, NoneMoves
<1>6. CASE a
  <2>1. phase' = [phase EXCEPT ![c] = q] /\ Forget(c, tok)
    BY <1>1, <1>6 DEF CloseServe, SDKTypes
  <2>2. q \in Phase /\ q.pc = "closed"
    BY <1>1 DEF Phase
  <2> HIDE DEF q
  <2>3. /\ held' \in [Conn -> 0 .. next] /\ held'[c] \in {0, held[c]}
        /\ \A d \in Conn \ {c} : held'[d] = held[d]
    BY <1>1, <2>1, ForgetEffect
  <2>4. ASSUME Single(c), c \notin ghost'.excused PROVE Accounted(c)'
    <3>1. Accounted(c) /\ leader
      BY <1>4, <2>4, ConnTypes DEF ConnInv
    <3>2. ~InFlight(c) /\ ~Asks(c) /\ ~InFlight(c)' /\ held[c] = tok
      BY <1>2, <3>1 DEF Accounted, InFlight, Asks
    <3>3. grant'.holder # c
      BY <1>3, <3>1, <3>2 DEF Accounted
    <3>4. phase'[c] = q
      BY <1>1, <2>1 DEF SDKTypes
    <3> QED  BY <2>2, <3>2, <3>3, <3>4 DEF Accounted
  <2>5. loops \in [Conn -> SUBSET (1 .. next)]
    BY <1>1 DEF SDKTypes
  <2> QED  BY <1>2, <1>3, <1>4, <2>1, <2>2, <2>3, <2>4, <2>5, PhaseStep
<1> QED  BY <1>5, <1>6

LEMMA CloseTimeoutStep ==
    ASSUME SDKInv, NEW c \in Conn, CloseTimeout(c)
    PROVE  SDKInv'
<1> DEFINE q == [phase[c] EXCEPT !.pc = "closed"]
<1>1. SDKTypes /\ phase[c] \in Phase
  BY ConnTypes
<1>2. /\ phase[c].pc = "closing" /\ UNCHANGED <<grant, next, held, loops, thread>>
      /\ Excuse(c) /\ phase' = [phase EXCEPT ![c] = q]
  BY <1>1 DEF CloseTimeout, SDKTypes
<1>3. q \in Phase
  BY <1>1 DEF Phase
<1> HIDE DEF q
<1>4. /\ ghost' = [over |-> ghost'.over, stale |-> ghost'.stale, excused |-> ghost'.excused]
      /\ ghost'.excused = ghost.excused \cup {c}
  BY <1>1, <1>2, ExcuseEffect
<1>5. /\ grant = Free \/ grant \in [holder : Conn, token : 1 .. next]
      /\ held \in [Conn -> 0 .. next] /\ loops \in [Conn -> SUBSET (1 .. next)]
  BY <1>1 DEF SDKTypes
<1> QED  BY <1>2, <1>3, <1>4, <1>5, PhaseStep

(* The renewals and the cluster.                                           *)
LEMMA RenewalStep ==
    ASSUME SDKInv, NEW c \in Conn, NEW tok, RenewFails(c, tok) \/ LifeEnds(c, tok)
    PROVE  SDKInv'
<1>1. SDKTypes
  BY ConnTypes
<1>2. StopRenew(c, tok) /\ UNCHANGED <<grant, next, held, thread, phase>>
  BY DEF RenewFails, LifeEnds
<1>3. /\ loops' \in [Conn -> SUBSET (1 .. next)] /\ loops'[c] = loops[c] \ {tok}
      /\ \A d \in Conn \ {c} : loops'[d] = loops[d]
  BY <1>1, <1>2, StopEffect
<1>4. ghost' = ghost \/ Told(c, tok)
  BY DEF RenewFails, LifeEnds
<1>5. /\ ghost' = [over |-> ghost'.over, stale |-> ghost'.stale, excused |-> ghost'.excused]
      /\ ghost'.excused = ghost.excused
  BY <1>1, <1>4, ToldEffect DEF SDKTypes
<1>6. SDKTypes'
  BY <1>1, <1>2, <1>3, <1>5 DEF SDKTypes, Place, Phase
<1>7. \A d \in Conn : Calm(d)
  BY <1>2, <1>3, <1>5 DEF Calm
<1> QED  BY <1>6, <1>7, NoneMoves

LEMMA ClusterStep ==
    ASSUME SDKInv, Expire \/ LoseLeader \/ Elect \/ UNCHANGED vars
    PROVE  SDKInv'
<1>1. SDKTypes /\ Wired
  BY ConnAssumption DEF SDKInv
<1>2. UNCHANGED <<next, held, loops, thread, phase, ghost>>
  BY DEF Expire, LoseLeader, Elect, vars
<1>3. grant' = grant \/ grant' = Free
  BY DEF Expire, LoseLeader, Elect, vars
<1>4. SDKTypes'
  BY <1>1, <1>2, <1>3 DEF SDKTypes, Place, Phase
<1>5. Free.holder \notin Conn
  BY <1>1 DEF Free, Wired
<1>6. \A d \in Conn : Calm(d)
  BY <1>2, <1>3, <1>5 DEF Calm
<1> QED  BY <1>4, <1>6, NoneMoves

LEMMA SDKInit == Init => SDKInv
<1> SUFFICES ASSUME Init PROVE SDKInv
  OBVIOUS
<1>1. /\ \A t \in Thread : thread[t].pc = "idle"
      /\ \A c \in Conn : phase[c].pc = "open" /\ loops[c] = {}
  BY DEF Init, Idle
<1>2. grant.holder \notin Conn
  BY ConnAssumption DEF Init, Free, Wired
<1>3. SDKTypes
  <2>1. thread \in [Thread -> Place]
    BY DEF Init, Idle, Place, Pc
  <2>2. phase \in [Conn -> Phase]
    BY DEF Init, Phase
  <2>3. /\ held \in [Conn -> 0 .. next] /\ loops \in [Conn -> SUBSET (1 .. next)]
        /\ next \in Nat /\ grant = Free
        /\ ghost = [over |-> ghost.over, stale |-> ghost.stale, excused |-> ghost.excused]
    BY DEF Init
  <2> QED  BY <1>1, <2>1, <2>2, <2>3 DEF SDKTypes
<1>4. ASSUME NEW c \in Conn PROVE ConnInv(c)
  <2>1. \A t \in Thread : ThreadInv(t)
    BY <1>1 DEF ThreadInv
  <2>2. Releasable(c)
    BY <1>1 DEF Releasable
  <2>3. Accounted(c)
    BY <1>1, <1>2 DEF Accounted
  <2> QED  BY <2>1, <2>2, <2>3 DEF ConnInv
<1> QED  BY <1>3, <1>4 DEF SDKInv

LEMMA SDKNext == SDKInv /\ [Next]_vars => SDKInv'
<1> SUFFICES ASSUME SDKInv, [Next]_vars PROVE SDKInv'
  OBVIOUS
<1>1. ASSUME NEW t \in Thread,
             \/ LockCall(t) \/ LockRefused(t) \/ LockTimeout(t)
             \/ Adopt(t) \/ StartRenew(t)
             \/ UnlockCall(t) \/ UnlockRefused(t) \/ UnlockTimeout(t) \/ Cancel(t)
      PROVE  SDKInv'
  BY <1>1, LockCallStep, LockEndsStep, AdoptStep, StartRenewStep, UnlockCallStep,
     UnlockRefusedStep, UnlockTimeoutStep, CancelStep
<1>2. ASSUME NEW t \in Thread, NEW a \in BOOLEAN, LockServe(t, a) \/ UnlockServe(t, a)
      PROVE  SDKInv'
  BY <1>2, LockServeStep, UnlockServeStep
<1>3. ASSUME NEW c \in Conn, Close(c) \/ CloseTimeout(c) PROVE SDKInv'
  BY <1>3, CloseStep, CloseTimeoutStep
<1>4. ASSUME NEW c \in Conn, NEW a \in BOOLEAN, CloseServe(c, a) PROVE SDKInv'
  BY <1>4, CloseServeStep
<1>5. ASSUME NEW c \in Conn, NEW tok \in loops[c], RenewFails(c, tok) \/ LifeEnds(c, tok)
      PROVE  SDKInv'
  BY <1>5, RenewalStep
<1>6. ASSUME Expire \/ LoseLeader \/ Elect \/ UNCHANGED vars PROVE SDKInv'
  BY <1>6, ClusterStep
<1> QED  BY <1>1, <1>2, <1>3, <1>4, <1>5, <1>6 DEF Next

LEMMA SDKInvHolds == Spec => []SDKInv
  BY SDKInit, SDKNext, PTL DEF Spec

(* adopt, startRenew, release and forget (lock.go, lease.go): for any      *)
(* connections, those that one goroutine uses never renew a grant that is  *)
(* not in their map, whatever answers are lost or late and whenever Close  *)
(* comes.                                                                  *)
THEOREM RenewedHolds == Spec => []RenewedIsReleasable
<1>1. SDKInv => RenewedIsReleasable
  BY DEF SDKInv, ConnInv, RenewedIsReleasable
<1> QED  BY <1>1, SDKInvHolds, PTL

(* releaseHeld and releaseLeases (lock.go, lease.go): for any connections, *)
(* one that is used by one goroutine, was closed between calls and was     *)
(* told of no failure has left no grant on the daemons.                    *)
THEOREM CloseHolds == Spec => []CloseReleases
<1>1. SDKInv => CloseReleases
  BY DEF SDKInv, ConnInv, Accounted, CloseReleases
<1> QED  BY <1>1, SDKInvHolds, PTL

--------------------------------------------------------------------------------
(* Custom events, their fan-out and the cache of seen ids.                 *)

Id == Call \X Nat

RelayCall == [from : Daemon, to : Daemon, id : Id, n : Nat]

Handlers == [at : Daemon, id : Id, n : Nat, relay : BOOLEAN]

Event == [id : Id, n : Nat]

Calls == [Call -> [pc : {"idle", "done"}, at : Daemon \cup {NoDaemon}, tries : Nat]]

PublishTypes ==
    /\ seen \in [Daemon -> Seq(Id)]
    /\ admitted \in [Daemon -> Seq(Id)]
    /\ handling \subseteq Handlers
    /\ emitted \in [Daemon -> SUBSET Event]
    /\ alive \in [Daemon -> SUBSET Daemon]
    /\ relays \subseteq RelayCall
    /\ owed \subseteq RelayCall
    /\ call \in Calls

(* The cache holds the last ids that were let through, as many as fit.     *)
Window(s, e) ==
    /\ Len(s) <= Len(e)
    /\ Len(s) <= Capacity
    /\ Len(s) < Capacity => Len(s) = Len(e)
    /\ \A i \in 1 .. Len(s) : s[i] = e[Len(e) - Len(s) + i]

(* Equal ids lie more than a cache apart.                                  *)
Spread(e) == \A i, j \in DOMAIN e : i < j /\ e[i] = e[j] => j - i > Capacity

LEMMA AddKeepsWindow ==
  ASSUME NEW s \in Seq(Id), NEW e \in Seq(Id), NEW id \in Id, Window(s, e), Capacity \in Nat \ {0}
  PROVE  Add(s, id) \in Seq(Id) /\ Window(Add(s, id), Append(e, id))
<1>1. Len(s) \in Nat /\ Len(e) \in Nat /\ Capacity \in Nat \ {0}
  OBVIOUS
<1>2. /\ Append(e, id) \in Seq(Id) /\ Len(Append(e, id)) = Len(e) + 1
      /\ \A i \in 1 .. Len(e) : Append(e, id)[i] = e[i]
      /\ Append(e, id)[Len(e) + 1] = id
  OBVIOUS
<1>3. CASE Len(s) >= Capacity
  <2> DEFINE t == Tail(s)
  <2>1. /\ t \in Seq(Id) /\ Len(t) = Len(s) - 1
        /\ \A i \in 1 .. Len(s) - 1 : t[i] = s[i + 1]
    BY <1>1, <1>3
  <2> HIDE DEF t
  <2>2. /\ Append(t, id) \in Seq(Id) /\ Len(Append(t, id)) = Len(t) + 1
        /\ \A i \in 1 .. Len(t) : Append(t, id)[i] = t[i]
        /\ Append(t, id)[Len(t) + 1] = id
    BY <2>1
  <2>3. Add(s, id) = Append(t, id)
    BY <1>3 DEF Add, t
  <2>4. ASSUME NEW i \in 1 .. Len(s)
        PROVE  Append(t, id)[i] = Append(e, id)[Len(e) + 1 - Len(s) + i]
    <3>1. CASE i = Len(s)
      BY SMTT(60), <1>1, <1>2, <2>1, <2>2, <3>1
    <3>2. CASE i # Len(s)
      <4>1. Append(t, id)[i] = s[i + 1] /\ i + 1 \in 1 .. Len(s)
        BY <1>1, <2>1, <2>2, <3>2
      <4>2. s[i + 1] = e[Len(e) - Len(s) + (i + 1)]
        BY <4>1 DEF Window
      <4>3. Len(e) - Len(s) + (i + 1) = Len(e) + 1 - Len(s) + i /\ Len(e) + 1 - Len(s) + i \in 1 .. Len(e)
        BY <1>1, <3>2 DEF Window
      <4> QED  BY <1>2, <4>1, <4>2, <4>3
    <3> QED  BY <3>1, <3>2
  <2>5. Len(Append(t, id)) = Len(s)
    BY <1>1, <2>1, <2>2
  <2>6. \A i \in 1 .. Len(Append(t, id)) :
            Append(t, id)[i] = Append(e, id)[Len(Append(e, id)) - Len(Append(t, id)) + i]
    <3> SUFFICES ASSUME NEW i \in 1 .. Len(Append(t, id))
                 PROVE  Append(t, id)[i] = Append(e, id)[Len(Append(e, id)) - Len(Append(t, id)) + i]
      OBVIOUS
    <3>1. i \in 1 .. Len(s) /\ Len(Append(e, id)) - Len(Append(t, id)) + i = Len(e) + 1 - Len(s) + i
      BY <1>2, <2>5
    <3> QED  BY <2>4, <3>1
  <2>7. /\ Len(Append(t, id)) <= Len(Append(e, id)) /\ Len(Append(t, id)) <= Capacity
        /\ ~(Len(Append(t, id)) < Capacity)
    BY <1>1, <1>2, <1>3, <2>5 DEF Window
  <2> QED  BY <2>2, <2>3, <2>6, <2>7 DEF Window
<1>4. CASE Len(s) < Capacity
  <2>1. /\ Append(s, id) \in Seq(Id) /\ Len(Append(s, id)) = Len(s) + 1
        /\ \A i \in 1 .. Len(s) : Append(s, id)[i] = s[i]
        /\ Append(s, id)[Len(s) + 1] = id
    OBVIOUS
  <2>2. Add(s, id) = Append(s, id)
    BY <1>1, <1>4 DEF Add
  <2>3. Len(s) = Len(e) /\ \A i \in 1 .. Len(s) : s[i] = e[i]
    BY <1>1, <1>4 DEF Window
  <2> QED  BY SMTT(60), <1>1, <1>2, <1>4, <2>1, <2>2, <2>3 DEF Window
<1> QED  BY <1>1, <1>3, <1>4

LEMMA AddKeepsSpread ==
  ASSUME NEW s \in Seq(Id), NEW e \in Seq(Id), NEW id \in Id,
         Window(s, e), Spread(e), \A i \in 1 .. Len(s) : s[i] # id, Capacity \in Nat \ {0}
  PROVE  Spread(Append(e, id))
<1>1. Len(s) \in Nat /\ Len(e) \in Nat /\ Capacity \in Nat \ {0} /\ DOMAIN e = 1 .. Len(e)
  OBVIOUS
<1>2. /\ DOMAIN Append(e, id) = 1 .. Len(e) + 1
      /\ \A i \in 1 .. Len(e) : Append(e, id)[i] = e[i]
      /\ Append(e, id)[Len(e) + 1] = id
  OBVIOUS
<1>3. SUFFICES ASSUME NEW i \in 1 .. Len(e) + 1, NEW j \in 1 .. Len(e) + 1,
                      i < j, Append(e, id)[i] = Append(e, id)[j]
               PROVE  j - i > Capacity
  BY <1>2 DEF Spread
<1>4. CASE j # Len(e) + 1
  BY SMTT(60), <1>1, <1>2, <1>3, <1>4 DEF Spread
<1>5. CASE j = Len(e) + 1
  <2>1. i \in 1 .. Len(e) /\ e[i] = id
    BY <1>1, <1>2, <1>3, <1>5
  <2>2. i <= Len(e) - Len(s)
    <3>1. SUFFICES ASSUME i > Len(e) - Len(s) PROVE FALSE
      BY <1>1
    <3> DEFINE k == i - (Len(e) - Len(s))
    <3>2. k \in 1 .. Len(s) /\ Len(e) - Len(s) + k = i
      BY <1>1, <2>1, <3>1
    <3>3. s[k] = id
      BY <2>1, <3>2 DEF Window
    <3> QED  BY <3>2, <3>3
  <2>3. Len(s) = Capacity
    BY <1>1, <2>1, <2>2 DEF Window
  <2> QED  BY <1>1, <1>5, <2>1, <2>2, <2>3
<1> QED  BY <1>4, <1>5

--------------------------------------------------------------------------------

(* The n-th id that d let through.                                         *)
Names(d, id, n) == n \in 1 .. Len(admitted[d]) /\ admitted[d][n] = id

(* The daemon has emitted the event or is about to.                        *)
Heard(d, id) ==
    \/ \E h \in handling : h.at = d /\ h.id = id
    \/ \E e \in emitted[d] : e.id = id

CacheInv == \A d \in Daemon : Window(seen[d], admitted[d]) /\ Spread(admitted[d])

NumberInv ==
    /\ \A h \in handling : Names(h.at, h.id, h.n)
    /\ \A d \in Daemon : \A e \in emitted[d] : Names(d, e.id, e.n)

HeardInv == \A d \in Daemon : \A i \in 1 .. Len(admitted[d]) : Heard(d, admitted[d][i])

OwedInv == \A r \in owed : r \in relays \/ Heard(r.to, r.id)

PublishInv == PublishTypes /\ CacheInv /\ NumberInv /\ HeardInv /\ OwedInv

LEMMA PublishInvInit == PublishInit => PublishInv
<1> SUFFICES ASSUME PublishInit PROVE PublishInv
  OBVIOUS
<1>1. <<>> \in Seq(Id) /\ Len(<<>>) = 0 /\ DOMAIN <<>> = {}
  OBVIOUS
<1>2. CacheInv /\ HeardInv
  BY SMTT(60), <1>1, CapacityAssumption DEF PublishInit, CacheInv, HeardInv, Window, Spread
<1>3. NumberInv /\ OwedInv
  BY DEF PublishInit, NumberInv, OwedInv
<1>4. PublishTypes
  <2>1. seen \in [Daemon -> Seq(Id)] /\ admitted \in [Daemon -> Seq(Id)]
    BY <1>1 DEF PublishInit
  <2>2. call \in Calls
    BY DEF PublishInit, Calls
  <2> QED  BY <2>1, <2>2 DEF PublishInit, PublishTypes
<1> QED  BY <1>2, <1>3, <1>4 DEF PublishInv

(* What a daemon remembers it has emitted or is about to emit.             *)
LEMMA SeenIsHeard ==
  ASSUME PublishInv, NEW d \in Daemon, NEW id, Seen(d, id)
  PROVE  Heard(d, id)
<1>1. PICK k \in 1 .. Len(seen[d]) : seen[d][k] = id
  BY DEF Seen, Range
<1>2. /\ seen[d] \in Seq(Id) /\ admitted[d] \in Seq(Id)
      /\ Len(seen[d]) \in Nat /\ Len(admitted[d]) \in Nat /\ Len(seen[d]) <= Len(admitted[d])
      /\ seen[d][k] = admitted[d][Len(admitted[d]) - Len(seen[d]) + k]
  BY SMTT(60) DEF PublishInv, PublishTypes, CacheInv, Window
<1>3. Len(admitted[d]) - Len(seen[d]) + k \in 1 .. Len(admitted[d])
  <2>1. ASSUME NEW m \in Nat, NEW n \in Nat, m <= n, NEW j \in 1 .. m
        PROVE  n - m + j \in 1 .. n
    BY <2>1
  <2>2. Len(seen[d]) \in Nat /\ Len(admitted[d]) \in Nat /\ Len(seen[d]) <= Len(admitted[d])
    BY <1>2
  <2> QED  BY ZenonT(30), <1>1, <2>1, <2>2
<1> QED  BY <1>1, <1>2, <1>3 DEF PublishInv, HeardInv

(* A call that is let through or refused, from a client or a relay.        *)
LEMMA PublishEventKeeps ==
  ASSUME PublishInv, NEW d \in Daemon, NEW id \in Id, NEW relay \in BOOLEAN,
         PublishEvent(d, id, relay), UNCHANGED <<emitted, alive, owed>>, call' \in Calls,
         relays' \subseteq relays, \A r \in relays \ relays' : r.to = d /\ r.id = id
  PROVE  PublishInv'
<1>1. CASE Seen(d, id) /\ UNCHANGED <<seen, admitted, handling>>
  <2>1. Heard(d, id)
    BY <1>1, SeenIsHeard
  <2>2. OwedInv'
    BY <1>1, <2>1 DEF PublishInv, OwedInv, Heard
  <2>3. CacheInv' /\ NumberInv' /\ HeardInv'
    BY <1>1 DEF PublishInv, CacheInv, NumberInv, Names, HeardInv, Heard
  <2>4. PublishTypes'
    BY <1>1 DEF PublishInv, PublishTypes
  <2> QED  BY <2>2, <2>3, <2>4 DEF PublishInv
<1>2. CASE ~Seen(d, id)
  <2> DEFINE n == Len(admitted[d]) + 1
             h == [at |-> d, id |-> id, n |-> n, relay |-> relay]
  <2>1. /\ seen' = [seen EXCEPT ![d] = Add(seen[d], id)]
        /\ admitted' = [admitted EXCEPT ![d] = Append(admitted[d], id)]
        /\ handling' = handling \cup {h}
    BY <1>2 DEF PublishEvent
  <2>2. /\ seen[d] \in Seq(Id) /\ admitted[d] \in Seq(Id) /\ Len(admitted[d]) \in Nat
        /\ Window(seen[d], admitted[d]) /\ Spread(admitted[d])
        /\ Capacity \in Nat \ {0}
    BY SMTT(60), CapacityAssumption DEF PublishInv, PublishTypes, CacheInv
  <2>3. h \in Handlers /\ h.at = d /\ h.id = id /\ h.n = n
    BY SMTT(60), <2>2 DEF Handlers
  <2>4. \A i \in 1 .. Len(seen[d]) : seen[d][i] # id
    <3>1. DOMAIN seen[d] = 1 .. Len(seen[d])
      BY <2>2
    <3> QED  BY <1>2, <3>1 DEF Seen, Range
  <2>5. /\ Add(seen[d], id) \in Seq(Id) /\ Append(admitted[d], id) \in Seq(Id)
        /\ Window(Add(seen[d], id), Append(admitted[d], id)) /\ Spread(Append(admitted[d], id))
    <3>1. Add(seen[d], id) \in Seq(Id) /\ Window(Add(seen[d], id), Append(admitted[d], id))
      BY <2>2, AddKeepsWindow
    <3>2. Spread(Append(admitted[d], id))
      BY <2>2, <2>4, AddKeepsSpread
    <3>3. Append(admitted[d], id) \in Seq(Id)
      BY SMTT(60), <2>2
    <3> QED  BY <3>1, <3>2, <3>3
  <2>6. /\ seen'[d] = Add(seen[d], id) /\ admitted'[d] = Append(admitted[d], id)
        /\ \A p \in Daemon \ {d} : seen'[p] = seen[p] /\ admitted'[p] = admitted[p]
    BY <2>1 DEF PublishInv, PublishTypes
  <2>7. /\ Len(admitted'[d]) = n /\ admitted'[d][n] = id
        /\ \A i \in 1 .. n : i \in 1 .. Len(admitted[d]) \/ i = n
        /\ \A i \in 1 .. Len(admitted[d]) : i \in 1 .. n /\ admitted'[d][i] = admitted[d][i]
        /\ n \in 1 .. n
    BY SMTT(60), <2>2, <2>6
  <2> HIDE DEF n, h
  <2>8. PublishTypes'
    BY <2>1, <2>3, <2>5 DEF PublishInv, PublishTypes
  <2>9. CacheInv'
    BY <2>5, <2>6 DEF PublishInv, CacheInv
  <2>10. \A p \in Daemon, x \in Id : Heard(p, x) => Heard(p, x)'
    BY <2>1 DEF Heard
  <2>11. Heard(d, id)'
    BY <2>1, <2>3 DEF Heard
  <2>12. ASSUME NEW p \in Daemon, NEW x \in Id, NEW m, Names(p, x, m) PROVE Names(p, x, m)'
    <3>1. CASE p = d
      BY <2>7, <2>12, <3>1 DEF Names
    <3>2. CASE p # d
      BY <2>6, <2>12, <3>2 DEF Names
    <3> QED  BY <3>1, <3>2
  <2>13. NumberInv'
    <3>1. ASSUME NEW g \in handling' PROVE Names(g.at, g.id, g.n)'
      <4>1. CASE g = h
        BY <2>3, <2>7, <4>1 DEF Names
      <4>2. CASE g \in handling
        BY <2>12, <4>2 DEF PublishInv, PublishTypes, NumberInv, Handlers
      <4> QED  BY <2>1, <4>1, <4>2
    <3>2. ASSUME NEW p \in Daemon, NEW e \in emitted'[p] PROVE Names(p, e.id, e.n)'
      <4>1. e \in emitted[p] /\ e.id \in Id
        BY SMTT(60) DEF PublishInv, PublishTypes, Event
      <4> QED  BY <2>12, <4>1 DEF PublishInv, NumberInv
    <3> QED  BY <3>1, <3>2 DEF NumberInv
  <2>14. HeardInv'
    <3>1. ASSUME NEW p \in Daemon, NEW i \in 1 .. Len(admitted'[p]) PROVE Heard(p, admitted[p][i])'
      <4>1. CASE p = d /\ i = n
        BY <2>7, <2>11, <4>1 DEF Heard
      <4>2. CASE p = d /\ i # n
        <5>1. i \in 1 .. Len(admitted[d]) /\ admitted'[d][i] = admitted[d][i] /\ admitted[d][i] \in Id
          BY SMTT(60), <2>2, <2>7, <3>1, <4>2
        <5>2. Heard(d, admitted[d][i])
          BY <5>1 DEF PublishInv, HeardInv
        <5> QED  BY SMTT(60), <2>10, <4>2, <5>1, <5>2 DEF Heard
      <4>3. CASE p # d
        <5>1. admitted'[p] = admitted[p] /\ admitted[p] \in Seq(Id)
          BY <2>6, <4>3 DEF PublishInv, PublishTypes
        <5>2. i \in 1 .. Len(admitted[p]) /\ admitted[p][i] \in Id
          BY <3>1, <5>1
        <5>3. Heard(p, admitted[p][i])
          BY <5>2 DEF PublishInv, HeardInv
        <5> QED  BY SMTT(60), <2>10, <5>1, <5>2, <5>3 DEF Heard
      <4> QED  BY <4>1, <4>2, <4>3
    <3> QED  BY <3>1 DEF HeardInv
  <2>15. OwedInv'
    <3>1. SUFFICES ASSUME NEW r \in owed, r \notin relays'
                   PROVE  Heard(r.to, r.id)'
      BY DEF OwedInv
    <3>2. r.to \in Daemon /\ r.id \in Id
      BY DEF PublishInv, PublishTypes, RelayCall
    <3>3. CASE r \in relays
      BY <2>11, <3>1, <3>3
    <3>4. CASE r \notin relays
      BY <2>10, <3>2, <3>4 DEF PublishInv, OwedInv
    <3> QED  BY <3>3, <3>4
  <2> QED  BY <2>8, <2>9, <2>13, <2>14, <2>15 DEF PublishInv
<1> QED  BY <1>1, <1>2 DEF PublishEvent

(* The event of a handler goes on the bus and to the peers.                *)
LEMMA EmitKeeps ==
  ASSUME PublishInv, NEW h \in handling, Emit(h)
  PROVE  PublishInv'
<1> DEFINE d == h.at
           e == [id |-> h.id, n |-> h.n]
           new == FanoutTo(h)
<1>1. /\ handling' = handling \ {h} /\ emitted' = [emitted EXCEPT ![d] = emitted[d] \cup {e}]
      /\ relays' = relays \cup new /\ owed' = owed \cup new
      /\ UNCHANGED <<seen, admitted, alive, call>>
  BY DEF Emit
<1>2. h \in Handlers /\ d \in Daemon /\ h.id \in Id /\ h.n \in Nat
  BY DEF PublishInv, PublishTypes, Handlers
<1>3. e \in Event /\ e.id = h.id /\ e.n = h.n
  BY <1>2 DEF Event
<1>4. new \subseteq RelayCall
  <2>1. alive[d] \subseteq Daemon
    BY <1>2 DEF PublishInv, PublishTypes
  <2>2. ASSUME NEW r \in new PROVE r \in RelayCall
    <3>1. PICK p \in alive[d] \ {d} : r = [from |-> d, to |-> p, id |-> h.id, n |-> h.n]
      BY <2>2 DEF FanoutTo
    <3> QED  BY <1>2, <2>1, <3>1 DEF RelayCall
  <2> QED  BY <2>2
<1> HIDE DEF d, e, new
<1>5. emitted'[d] = emitted[d] \cup {e} /\ \A p \in Daemon \ {d} : emitted'[p] = emitted[p]
  BY <1>1, <1>2 DEF PublishInv, PublishTypes
<1>6. PublishTypes'
  BY <1>1, <1>2, <1>3, <1>4 DEF PublishInv, PublishTypes
<1>7. CacheInv'
  BY <1>1 DEF PublishInv, CacheInv
<1>8. NumberInv'
  <2>1. Names(d, h.id, h.n)
    BY DEF PublishInv, NumberInv, d
  <2>2. \A g \in handling' : Names(g.at, g.id, g.n)'
    BY <1>1 DEF PublishInv, NumberInv, Names
  <2>3. ASSUME NEW p \in Daemon, NEW f \in emitted'[p] PROVE Names(p, f.id, f.n)'
    <3>1. f \in emitted[p] \/ (p = d /\ f = e)
      BY <1>5, <2>3
    <3> QED  BY <1>1, <1>3, <2>1, <3>1 DEF PublishInv, NumberInv, Names
  <2> QED  BY <2>2, <2>3 DEF NumberInv
<1>9. ASSUME NEW p \in Daemon, NEW x, Heard(p, x) PROVE Heard(p, x)'
  <2>1. CASE \E g \in handling : g.at = p /\ g.id = x
    <3>1. PICK g \in handling : g.at = p /\ g.id = x
      BY <2>1
    <3>2. CASE g = h
      BY <1>3, <1>5, <3>1, <3>2 DEF Heard, d
    <3>3. CASE g # h
      BY <1>1, <3>1, <3>3 DEF Heard
    <3> QED  BY <3>2, <3>3
  <2>2. CASE \E f \in emitted[p] : f.id = x
    BY <1>5, <2>2 DEF Heard
  <2> QED  BY <1>9, <2>1, <2>2 DEF Heard
<1>10. HeardInv'
  BY <1>1, <1>9 DEF PublishInv, HeardInv
<1>11. OwedInv'
  <2>1. SUFFICES ASSUME NEW r \in owed, r \notin relays' PROVE Heard(r.to, r.id)'
    BY <1>1 DEF OwedInv
  <2>2. r.to \in Daemon /\ Heard(r.to, r.id)
    BY <1>1, <2>1 DEF PublishInv, PublishTypes, RelayCall, OwedInv
  <2> QED  BY <1>9, <2>2
<1> QED  BY <1>6, <1>7, <1>8, <1>10, <1>11 DEF PublishInv

LEMMA PublishInvNext == PublishInv /\ [PublishNext]_publishVars => PublishInv'
<1> SUFFICES ASSUME PublishInv, [PublishNext]_publishVars PROVE PublishInv'
  OBVIOUS
<1>1. ASSUME NEW c \in Call, NEW d \in Daemon, NEW a \in BOOLEAN, Attempt(c, d, a) PROVE PublishInv'
  <2>1. EventID(c) \in Id
    <3>1. (IF c \in Identified THEN 0 ELSE call[c].tries + 1) \in Nat
      BY SMTT(60) DEF PublishInv, PublishTypes, Calls
    <3> QED  BY <3>1 DEF EventID, Id
  <2>2. /\ PublishEvent(d, EventID(c), FALSE) /\ UNCHANGED <<emitted, alive, relays, owed>>
        /\ call' \in Calls
    <3>1. call' = [call EXCEPT ![c] = [pc |-> IF a THEN "done" ELSE "idle",
                                       at |-> IF c \in Identified THEN NoDaemon ELSE d,
                                       tries |-> call[c].tries + 1]]
      BY <1>1 DEF Attempt
    <3>2. call \in Calls /\ call[c].tries + 1 \in Nat
      BY SMTT(60) DEF PublishInv, PublishTypes, Calls
    <3>3. call' \in Calls
      BY <3>1, <3>2 DEF Calls
    <3> QED  BY <1>1, <3>3 DEF Attempt
  <2>3. FALSE \in BOOLEAN
    OBVIOUS
  <2> QED  BY <2>1, <2>2, <2>3, PublishEventKeeps
<1>2. ASSUME NEW r \in relays, Relay(r) PROVE PublishInv'
  <2>1. r \in RelayCall /\ r.to \in Daemon /\ r.id \in Id
    BY DEF PublishInv, PublishTypes, RelayCall
  <2>2. /\ PublishEvent(r.to, r.id, TRUE) /\ UNCHANGED <<emitted, alive, owed>> /\ call' = call
        /\ relays' = relays \ {r}
    BY ZenonT(30), <1>2 DEF Relay
  <2>3. TRUE \in BOOLEAN /\ relays' \subseteq relays /\ \A q \in relays \ relays' : q.to = r.to /\ q.id = r.id
    BY <2>2
  <2>4. call' \in Calls
    BY <2>2 DEF PublishInv, PublishTypes
  <2> QED  BY ZenonT(30), <2>1, <2>2, <2>3, <2>4, PublishEventKeeps
<1>3. ASSUME NEW h \in handling, Emit(h) PROVE PublishInv'
  BY <1>3, EmitKeeps
<1>4. ASSUME NEW r \in relays, LoseRelay(r) PROVE PublishInv'
  <2>1. /\ UNCHANGED <<seen, admitted, handling, emitted, alive, call>>
        /\ relays' = relays \ {r} /\ owed' = owed \ {r}
    BY <1>4 DEF LoseRelay
  <2>2. PublishTypes' /\ CacheInv' /\ NumberInv' /\ HeardInv'
    BY <2>1 DEF PublishInv, PublishTypes, CacheInv, NumberInv, Names, HeardInv, Heard
  <2>3. OwedInv'
    BY <2>1 DEF PublishInv, OwedInv, Heard
  <2> QED  BY <2>2, <2>3 DEF PublishInv
<1>5. ASSUME NEW d \in Daemon, NEW p \in Daemon, MarkDead(d, p) PROVE PublishInv'
  <2>1. /\ UNCHANGED <<seen, admitted, handling, emitted, relays, call, owed>>
        /\ alive' = [alive EXCEPT ![d] = alive[d] \ {p}]
    BY <1>5 DEF MarkDead
  <2>2. PublishTypes'
    BY <2>1 DEF PublishInv, PublishTypes
  <2>3. CacheInv' /\ NumberInv' /\ HeardInv' /\ OwedInv'
    BY <2>1 DEF PublishInv, CacheInv, NumberInv, Names, HeardInv, Heard, OwedInv
  <2> QED  BY <2>2, <2>3 DEF PublishInv
<1>6. ASSUME NEW d \in Daemon, Crash(d) PROVE PublishInv'
  <2>1. /\ seen' = [seen EXCEPT ![d] = <<>>] /\ admitted' = [admitted EXCEPT ![d] = <<>>]
        /\ handling' = {h \in handling : h.at # d} /\ emitted' = [emitted EXCEPT ![d] = {}]
        /\ relays' = {r \in relays : r.from # d}
        /\ owed' = {r \in owed : r.from # d /\ r.to # d}
        /\ UNCHANGED <<alive, call>>
    BY <1>6 DEF Crash
  <2>2. <<>> \in Seq(Id) /\ Len(<<>>) = 0 /\ Window(<<>>, <<>>) /\ Spread(<<>>)
    BY SMTT(60), CapacityAssumption DEF Window, Spread
  <2>3. /\ seen'[d] = <<>> /\ admitted'[d] = <<>> /\ emitted'[d] = {}
        /\ \A p \in Daemon \ {d} : seen'[p] = seen[p] /\ admitted'[p] = admitted[p] /\ emitted'[p] = emitted[p]
    BY <2>1 DEF PublishInv, PublishTypes
  <2>4. PublishTypes'
    BY <2>1, <2>2 DEF PublishInv, PublishTypes
  <2>5. CacheInv'
    BY <2>2, <2>3 DEF PublishInv, CacheInv
  <2>6. \A h \in handling' : h \in handling /\ h.at \in Daemon \ {d}
    BY <2>1 DEF PublishInv, PublishTypes, Handlers
  <2>7. NumberInv'
    BY <2>3, <2>6 DEF PublishInv, NumberInv, Names
  <2>8. ASSUME NEW p \in Daemon \ {d}, NEW x, Heard(p, x) PROVE Heard(p, x)'
    BY <2>1, <2>3, <2>8 DEF Heard
  <2>9. HeardInv'
    <3>1. ASSUME NEW p \in Daemon, NEW i \in 1 .. Len(admitted'[p]) PROVE Heard(p, admitted[p][i])'
      <4>1. p # d
        BY SMTT(60), <2>2, <2>3, <3>1
      <4>2. admitted'[p] = admitted[p]
        BY <2>3, <4>1
      <4>3. Heard(p, admitted[p][i])
        BY <3>1, <4>2 DEF PublishInv, HeardInv
      <4> QED  BY <2>8, <4>1, <4>2, <4>3 DEF Heard
    <3> QED  BY <3>1 DEF HeardInv
  <2>10. ASSUME NEW r \in owed' PROVE r \in relays' \/ Heard(r.to, r.id)'
    <3>1. r \in owed /\ r.from # d /\ r.to \in Daemon \ {d}
      BY <2>1 DEF PublishInv, PublishTypes, RelayCall
    <3>2. r \in relays \/ Heard(r.to, r.id)
      BY <3>1 DEF PublishInv, OwedInv
    <3> QED  BY <2>1, <2>8, <3>1, <3>2
  <2>11. OwedInv'
    BY <2>10 DEF OwedInv
  <2> QED  BY <2>4, <2>5, <2>7, <2>9, <2>11 DEF PublishInv
<1>7. CASE UNCHANGED publishVars
  <2>1. UNCHANGED <<seen, admitted, handling, emitted, alive, relays, call, owed>>
    BY <1>7 DEF publishVars
  <2>2. PublishTypes'
    BY <2>1 DEF PublishInv, PublishTypes
  <2>3. CacheInv' /\ NumberInv' /\ HeardInv' /\ OwedInv'
    BY <2>1 DEF PublishInv, CacheInv, NumberInv, Names, HeardInv, Heard, OwedInv
  <2> QED  BY <2>2, <2>3 DEF PublishInv
<1>8. CASE \E c \in Call, d \in Daemon, a \in BOOLEAN : Attempt(c, d, a)
  BY <1>1, <1>8
<1>9. CASE \E h \in handling : Emit(h)
  BY <1>3, <1>9
<1>10. CASE \E r \in relays : Relay(r) \/ LoseRelay(r)
  BY <1>2, <1>4, <1>10
<1>11. CASE \E d \in Daemon : Crash(d) \/ \E p \in Daemon : MarkDead(d, p)
  BY <1>5, <1>6, <1>11
<1> QED  BY <1>7, <1>8, <1>9, <1>10, <1>11 DEF PublishNext

LEMMA PublishInvariance == PublishSpec => []PublishInv
  BY PublishInvInit, PublishInvNext, PTL DEF PublishSpec

(* seenOrAdd (events.go): for any cache size, retries, relays, restarts    *)
(* and handlers that overtake each other, a daemon emits an id again only  *)
(* when its cache has let more than a cacheful of ids through in between.  *)
THEOREM RepeatsAreEvicted == PublishSpec => []SecondOnlyAfterEviction
<1>1. PublishInv => SecondOnlyAfterEviction
  <2>1. SUFFICES ASSUME PublishInv, NEW d \in Daemon, NEW e \in emitted[d], NEW f \in emitted[d],
                        e.id = f.id, e.n < f.n
                 PROVE  f.n - e.n > Capacity
    BY DEF SecondOnlyAfterEviction
  <2>2. Names(d, e.id, e.n) /\ Names(d, f.id, f.n)
    BY <2>1 DEF PublishInv, NumberInv
  <2>3. admitted[d] \in Seq(Id) /\ Spread(admitted[d])
    BY <2>1 DEF PublishInv, PublishTypes, CacheInv
  <2>4. DOMAIN admitted[d] = 1 .. Len(admitted[d])
    BY <2>3
  <2> QED  BY <2>1, <2>2, <2>3, <2>4 DEF Names, Spread
<1> QED  BY <1>1, PublishInvariance, PTL

(* fanout (events.go): for any daemons and calls, a peer that was          *)
(* addressed has emitted the event, is about to, or its relay is under     *)
(* way, unless the relay was lost or one of the two daemons restarted.     *)
THEOREM AddressedPeersHear == PublishSpec => []PeersHear
<1>1. PublishInv => PeersHear
  BY DEF PublishInv, OwedInv, Heard, PeersHear
<1> QED  BY <1>1, PublishInvariance, PTL

================================================================================
