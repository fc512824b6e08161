----------------------------- MODULE OperatorProofs ----------------------------
(***************************************************************************)
(* Proofs about Operator, for any hosts, reconcilers, faults and edits.    *)
(***************************************************************************)
EXTENDS Operator, FiniteSetTheorems, TLAPS

(* Most steps are first-order: Zenon first, SMT for what it does not find. *)
USE ZenonT(30), SMTT(60)

--------------------------------------------------------------------------------
(* The least element of a finite set: the first Ready node.                *)

LEMMA MinExists ==
  ASSUME NEW S, IsFiniteSet(S), S \subseteq Int, S # {}
  PROVE  Min(S) \in S
<1> DEFINE Below(m) == {x \in S : x <= m}
           T == {Below(m) : m \in S}
<1>1. T \subseteq FiniteSubsetsOf(S)
  <2>1. \A m \in S : Below(m) \in SUBSET S /\ IsFiniteSet(Below(m))
    BY FS_Subset
  <2> QED  BY <2>1 DEF FiniteSubsetsOf
<1>2. T # {}
  OBVIOUS
<1>3. IsWellFoundedOn(StrictSubsetOrdering(S), FiniteSubsetsOf(S))
  BY FS_StrictSubsetOrderingWellFounded
<1>4. PICK U \in T : \A V \in T : <<V, U>> \notin StrictSubsetOrdering(S)
  <2> HIDE DEF T
  <2> QED  BY <1>1, <1>2, <1>3, WFMin
<1>5. PICK m \in S : U = Below(m)
  OBVIOUS
<1>6. ASSUME NEW y \in S, y < m
      PROVE  FALSE
  <2>0. /\ m <= m /\ ~(m <= y)
        /\ \A x \in S : x <= y => x <= m
    <3> m \in Int /\ y \in Int
      OBVIOUS
    <3> QED  BY <1>6
  <2>1. Below(y) \in T
    OBVIOUS
  <2>2. m \in Below(m) /\ m \notin Below(y) /\ Below(y) \subseteq Below(m)
    BY <2>0, Zenon
  <2>3. <<Below(y), Below(m)>> \in StrictSubsetOrdering(S)
    <3> Below(y) \in SUBSET S /\ Below(m) \in SUBSET S
      OBVIOUS
    <3> HIDE DEF Below
    <3> QED  BY <2>2 DEF StrictSubsetOrdering
  <2> QED  BY <1>4, <1>5, <2>1, <2>3
<1>7. \A y \in S : m <= y
  BY <1>6
<1> QED  BY <1>7 DEF Min

--------------------------------------------------------------------------------
(* The inductive invariant                                                 *)

Fields == {"pc", "seed", "phase", "claim"}
Run == [ok : BOOLEAN, token : BOOLEAN]
Place == Host \cup {0}
Stage == {"empty", "config", "identity"}

(* Which fields the records have, which hosts are chosen and what is on    *)
(* their disks.                                                            *)
ShapeInv ==
    /\ DOMAIN cr = {"topology", "voterCount", "seed", "status", "phase"}
    /\ DOMAIN obj = {"prepare", "job", "token", "seed", "up", "set"}
    /\ DOMAIN obj.job = {"on", "runs", "up", "deleting"}
    /\ obj.job.runs \in Seq(Run)
    /\ ready \subseteq Host
    /\ disk \in [Place -> Stage]
    /\ cr.seed \in Place /\ cr.status \in Place
    /\ \A w \in DOMAIN rec : DOMAIN rec[w] = Fields /\ rec[w].seed \in Place

(* Places past the claim, and places past the completed init Job.          *)
Decided == {"prepare", "job", "complete", "token", "logs", "put", "deploy", "addr",
            "set", "snap"}
Initialised == Decided \ {"prepare", "job", "complete"}

Chosen == Daemon /\ cr.seed = None
Identified == {h \in Place : disk[h] = "identity"}

(* A reconciler past the claim works for the seed in the status; one that  *)
(* still has to claim is stale or finds the status empty.                  *)
Claimed(w) ==
    /\ ~rec[w].claim
    /\ rec[w].pc \in {"idle", "gone", "seed", "claim", "patch"} \cup Decided
    /\ rec[w].pc = "seed" =>
          \/ rec[w].seed = None /\ (w \in fresh => cr.status = None)
          \/ rec[w].seed = cr.status /\ cr.status # None
    /\ rec[w].pc = "claim" => rec[w].seed # None /\ (w \in fresh => cr.status = None)
    /\ rec[w].pc = "patch" => rec[w].seed \in {None, cr.status}
    /\ rec[w].pc \in Decided => rec[w].seed = cr.status /\ cr.status # None
ClaimInv == Chosen => \A w \in DOMAIN rec : Claimed(w)

(* The init Job is on the claimed seed, and what follows its completion    *)
(* finds the identity on that node's disk.                                 *)
JobInv ==
    Chosen =>
        /\ ~obj.job.deleting
        /\ obj.job.on = -1 => obj.job = NoJob
        /\ obj.job.on # -1 => obj.job.on = cr.status /\ cr.status # None
        /\ (\E i \in DOMAIN obj.job.runs : obj.job.runs[i].ok) => obj.job.on \in Identified
        /\ \A w \in DOMAIN rec :
              rec[w].pc \in Initialised => obj.job.on = cr.status /\ cr.status \in Identified
        /\ obj.seed # None =>
              obj.seed = cr.status /\ obj.job.on = cr.status /\ cr.status \in Identified

(* Only one reconciler works on a Sidecar cluster.                         *)
SidecarAlone == \A s \in Created : s.topology # "DaemonSet" => Old[s.topology] = {}

(* The StatefulSet exists only once the token is stored and the bootstrap  *)
(* Job is gone, and no reconciler is on the way to another Job.            *)
VolumeInv ==
    SidecarAlone /\ ~Daemon =>
        /\ DOMAIN rec = {New}
        /\ obj.set => obj.token /\ obj.job = NoJob
        /\ 0 \in DOMAIN pods => obj.set
        /\ rec[New].pc \in {"job", "complete", "logs", "put"} => ~obj.set
        /\ rec[New].pc \in {"deploy", "addr", "set", "snap"} =>
              obj.token /\ obj.job = NoJob
        /\ rec[New].pc = "exists" => obj.token
        /\ rec[New].pc \notin {"seed", "claim", "prepare"}

IInv == ShapeInv /\ ClaimInv /\ JobInv /\ VolumeInv

--------------------------------------------------------------------------------
(* What a step of a reconciler does to its record                          *)

Others(w) == DOMAIN rec' = DOMAIN rec /\ \A v \in DOMAIN rec : v # w => rec'[v] = rec[v]

Carries(w) == Others(w) /\ DOMAIN rec'[w] = Fields /\ rec'[w].claim = rec[w].claim

LEMMA Goes ==
  ASSUME ShapeInv, NEW w \in DOMAIN rec, NEW p, Goto(w, p)
  PROVE  Carries(w) /\ rec'[w].pc = p /\ rec'[w].seed = rec[w].seed
<1>1. Others(w) /\ rec'[w] = [rec[w] EXCEPT !.pc = p]
  BY DEF Goto, Others
<1>2. DOMAIN rec[w] = Fields
  BY DEF ShapeInv
<1> QED  BY <1>1, <1>2 DEF Carries, Fields

LEMMA Finishes ==
  ASSUME ShapeInv, NEW w \in DOMAIN rec, NEW p, Finish(w, p)
  PROVE  Carries(w) /\ rec'[w].pc = "patch" /\ rec'[w].seed = rec[w].seed
<1>1. Others(w) /\ rec'[w] = [[rec[w] EXCEPT !.pc = "patch"] EXCEPT !.phase = p]
  BY DEF Finish, Others
<1>2. DOMAIN rec[w] = Fields
  BY DEF ShapeInv
<1> QED  BY <1>1, <1>2 DEF Carries, Fields

LEMMA Rests ==
  ASSUME NEW w \in DOMAIN rec, rec' = [rec EXCEPT ![w] = Rest(w)]
  PROVE  /\ Others(w)
         /\ DOMAIN rec'[w] = Fields /\ rec'[w].pc \in {"idle", "gone"}
         /\ rec'[w].seed = None /\ ~rec'[w].claim
<1>1. Others(w) /\ rec'[w] = Rest(w)
  BY DEF Others
<1>2. /\ DOMAIN Idle = Fields /\ Idle.pc = "idle" /\ Idle.seed = None
      /\ ~Idle.claim
  BY DEF Idle, Fields
<1>3. CASE w = New
  BY <1>1, <1>2, <1>3 DEF Rest
<1>4. CASE w # New
  <2>1. rec'[w] = [Idle EXCEPT !.pc = "gone"]
    BY <1>1, <1>4 DEF Rest
  <2> QED  BY <1>1, <1>2, <2>1 DEF Fields
<1> QED  BY <1>3, <1>4

LEMMA InitIInv == Init => IInv
<1> SUFFICES ASSUME Init PROVE IInv
  OBVIOUS
<1>1. PICK s \in Created :
          cr = [topology |-> s.topology, voterCount |-> s.voterCount, seed |-> None,
                status |-> None, phase |-> ""]
  BY DEF Init
<1>2. PICK old \in SUBSET Old[cr.topology] : rec = [w \in {New} \cup old |-> Idle]
  BY DEF Init
<1>3. /\ DOMAIN Idle = Fields /\ Idle.pc = "idle" /\ Idle.seed = None
      /\ ~Idle.claim
  BY DEF Idle, Fields
<1>4. DOMAIN rec = {New} \cup old /\ \A w \in DOMAIN rec : rec[w] = Idle
  BY <1>2
<1>5. DOMAIN <<>> = {}
  BY SMTT(60)
<1>6. ShapeInv
  <2>1. ready \subseteq Host /\ disk \in [Place -> Stage]
    BY DEF Init, Place, Stage
  <2>2. /\ DOMAIN obj = {"prepare", "job", "token", "seed", "up", "set"}
        /\ DOMAIN obj.job = {"on", "runs", "up", "deleting"}
        /\ obj.job.runs \in Seq(Run)
    <3>1. <<>> \in Seq(Run)
      OBVIOUS
    <3> QED  BY <3>1 DEF Init, NoJob
  <2>3. /\ DOMAIN cr = {"topology", "voterCount", "seed", "status", "phase"}
        /\ cr.seed \in Place /\ cr.status \in Place
    BY <1>1 DEF None, Place
  <2> QED  BY SMTT(60), <1>3, <1>4, <1>5, <2>1, <2>2, <2>3 DEF ShapeInv, None, Place
<1>7. ClaimInv
  BY <1>3, <1>4 DEF ClaimInv, Claimed, Decided
<1>8. JobInv
  <2>1. obj.job = NoJob /\ obj.seed = None
    BY DEF Init
  <2>2. NoJob.on = -1 /\ NoJob.runs = <<>> /\ ~NoJob.deleting
    BY DEF NoJob
  <2> QED  BY <1>3, <1>4, <1>5, <2>1, <2>2 DEF JobInv, Initialised, Decided
<1>9. VolumeInv
  <2> SUFFICES ASSUME SidecarAlone, ~Daemon
               PROVE  DOMAIN rec = {New} /\ rec[New].pc = "idle" /\ ~obj.set /\ pods = <<>>
    BY <1>5 DEF VolumeInv
  <2>1. cr.topology = s.topology
    BY <1>1
  <2>2. Old[cr.topology] = {}
    BY <2>1 DEF SidecarAlone, Daemon
  <2>3. old = {}
    BY <2>2
  <2>4. ~obj.set /\ pods = <<>>
    BY DEF Init
  <2> QED  BY <1>3, <1>4, <2>3, <2>4
<1> QED  BY <1>6, <1>7, <1>8, <1>9 DEF IInv

--------------------------------------------------------------------------------
(* The records keep their fields                                           *)

(* Steps of a reconciler that leave the object alone.                      *)
Reads(w) ==
    \/ Sync(w) \/ ResolveSeed(w) \/ Prepare(w) \/ EnsureJob(w) \/ JobComplete(w)
    \/ ReadToken(w) \/ JobLogs(w) \/ PutToken(w) \/ JobExists(w) \/ DeleteJob(w)
    \/ EnsureSeed(w) \/ SeedReadyAddr(w) \/ EnsureDaemonSet(w) \/ Snapshot(w)

(* Steps of the cluster, which no reconciler notices at once.              *)
Surroundings ==
    \/ PrepareDone \/ RunInit \/ BootstrapServes \/ JobGone \/ SeedStarts
    \/ InitKilled \/ BootstrapExits \/ SeedStops
    \/ \E k \in Member : PodReady(k) \/ PodDeleted(k) \/ PodCreated(k)
    \/ \E h \in Host : NodeFlips(h)

LEMMA Cases ==
  ASSUME [Next]_vars
  PROVE  \/ UNCHANGED vars
         \/ Surroundings
         \/ \E h \in Host : EditSeed(h)
         \/ EditSpec
         \/ \E w \in DOMAIN rec : Reads(w) \/ ClaimSeed(w) \/ PatchStatus(w) \/ Abort(w)
  BY DEF Next, Controllers, Disturbances, Reconcile, Surroundings, Reads

LEMMA ReadsLeave ==
  ASSUME NEW w, Reads(w)
  PROVE  UNCHANGED <<cr, pods, ready, disk, faults>>
  BY DEF Reads, Sync, ResolveSeed, Prepare, EnsureJob, JobComplete, ReadToken, JobLogs,
         PutToken, JobExists, DeleteJob, EnsureSeed, SeedReadyAddr, EnsureDaemonSet,
         Snapshot, Quiet, Keeps, kube

LEMMA SurroundingsLeave ==
  ASSUME Surroundings
  PROVE  UNCHANGED <<cr, fresh, rec>>
  BY DEF Surroundings, PrepareDone, RunInit, BootstrapServes, JobGone, SeedStarts,
         InitKilled, BootstrapExits, SeedStops, PodReady, PodDeleted, PodCreated, NodeFlips,
         Keeps, Calm

(* The object keeps its fields, its topology and its voterCount; what is   *)
(* read from it depends on nothing else.                                   *)
LEMMA ObjectKept ==
  ASSUME ShapeInv, [Next]_vars
  PROVE  /\ DOMAIN cr' = DOMAIN cr
         /\ cr'.topology = cr.topology /\ cr'.voterCount = cr.voterCount
         /\ cr'.seed \in Place /\ cr'.status \in Place
         /\ Daemon' = Daemon /\ Member' = Member
         /\ Chosen' => Chosen
<1>1. /\ DOMAIN cr' = DOMAIN cr
      /\ cr'.topology = cr.topology /\ cr'.voterCount = cr.voterCount
      /\ cr'.seed \in Place /\ cr'.status \in Place
      /\ cr'.seed = None => cr.seed = None
  <2> USE DEF ShapeInv
  <2>1. CASE UNCHANGED cr
    BY <2>1
  <2>2. CASE \E h \in Host : EditSeed(h)
    BY <2>2, HostAssumption DEF EditSeed, None, Place
  <2>3. CASE EditSpec
    BY <2>3 DEF EditSpec
  <2>4. ASSUME NEW w \in DOMAIN rec, ClaimSeed(w) \/ PatchStatus(w)
        PROVE  /\ DOMAIN cr' = DOMAIN cr
               /\ cr'.topology = cr.topology /\ cr'.voterCount = cr.voterCount
               /\ cr'.seed \in Place /\ cr'.status \in Place
               /\ cr'.seed = None => cr.seed = None
    BY <2>4 DEF ClaimSeed, PatchStatus
  <2>5. UNCHANGED vars => UNCHANGED cr
    BY DEF vars
  <2>6. \A w \in DOMAIN rec : Abort(w) => UNCHANGED cr
    BY DEF Abort
  <2> QED
    BY <2>1, <2>2, <2>3, <2>4, <2>5, <2>6, Cases, ReadsLeave, SurroundingsLeave
<1> QED  BY <1>1 DEF Daemon, Member, Chosen

(* Steps that only move a reconciler on, or end its pass.                  *)
Plain(w) ==
    \/ Prepare(w) \/ EnsureJob(w) \/ JobComplete(w) \/ ReadToken(w) \/ PutToken(w)
    \/ JobExists(w) \/ DeleteJob(w) \/ EnsureSeed(w) \/ SeedReadyAddr(w)
    \/ EnsureDaemonSet(w) \/ Snapshot(w)

Places == Decided \cup {"exists", "delete"}

LEMMA PlainMoves ==
  ASSUME ShapeInv, NEW w \in DOMAIN rec, Plain(w)
  PROVE  /\ Carries(w) /\ rec'[w].seed = rec[w].seed
         /\ rec[w].pc \in Places /\ rec'[w].pc \in Places \cup {"patch"}
         /\ Daemon /\ rec[w].pc \in Decided => rec'[w].pc \in Decided \cup {"patch"}
<1> USE DEF Decided
<1>1. CASE Prepare(w)
  BY SMTT(60), <1>1, Goes, Finishes DEF Prepare, At, Places
<1>2. CASE EnsureJob(w)
  BY SMTT(60), <1>2, Goes, Finishes DEF EnsureJob, At, Places
<1>3. CASE JobComplete(w)
  BY SMTT(60), <1>3, Goes, Finishes DEF JobComplete, At, Places
<1>4. CASE ReadToken(w)
  BY SMTT(60), <1>4, Goes, Finishes DEF ReadToken, At, Places
<1>5. CASE PutToken(w)
  BY SMTT(60), <1>5, Goes, Finishes DEF PutToken, At, Places
<1>6. CASE JobExists(w)
  BY SMTT(60), <1>6, Goes, Finishes DEF JobExists, At, Places
<1>7. CASE DeleteJob(w)
  BY <1>7, Goes, Finishes DEF DeleteJob, At, Places
<1>8. CASE EnsureSeed(w)
  BY SMTT(60), <1>8, Goes, Finishes DEF EnsureSeed, At, Places
<1>9. CASE SeedReadyAddr(w)
  BY SMTT(60), <1>9, Goes, Finishes DEF SeedReadyAddr, At, Places
<1>10. CASE EnsureDaemonSet(w)
  BY <1>10, Goes DEF EnsureDaemonSet, At, Places
<1>11. CASE Snapshot(w)
  BY <1>11, Finishes DEF Snapshot, At, Places
<1> QED  BY <1>1, <1>2, <1>3, <1>4, <1>5, <1>6, <1>7, <1>8, <1>9, <1>10, <1>11 DEF Plain

LEMMA SyncMoves ==
  ASSUME NEW w \in DOMAIN rec, Sync(w)
  PROVE  /\ Others(w) /\ DOMAIN rec'[w] = Fields
         /\ rec'[w].pc = (IF Daemon THEN "seed" ELSE "token")
         /\ rec'[w].seed = (IF cr.seed # None THEN cr.seed ELSE cr.status)
         /\ rec'[w].claim = (cr.seed \notin {None, cr.status})
<1> DEFINE p == IF Daemon THEN "seed" ELSE "token"
           d == IF cr.seed # None THEN cr.seed ELSE cr.status
           c == cr.seed \notin {None, cr.status}
<1> HIDE DEF p, d, c
<1>1. Others(w) /\ rec'[w] = [Idle EXCEPT !.pc = p, !.seed = d, !.claim = c]
  BY DEF Sync, Others, p, d, c
<1>2. DOMAIN Idle = Fields
  BY DEF Idle, Fields
<1>3. /\ rec'[w].pc = p /\ rec'[w].seed = d /\ rec'[w].claim = c
      /\ DOMAIN rec'[w] = Fields
  BY <1>1, <1>2 DEF Fields
<1> QED  BY <1>1, <1>3 DEF p, d, c

LEMMA ResolveMoves ==
  ASSUME ShapeInv, NEW w \in DOMAIN rec, ResolveSeed(w)
  PROVE  /\ Carries(w) /\ rec[w].pc = "seed"
         /\ \/ /\ rec[w].seed # None /\ rec'[w].seed = rec[w].seed
               /\ rec'[w].pc = IF rec[w].claim THEN "claim" ELSE "prepare"
            \/ rec[w].seed = None /\ rec'[w].seed = None /\ rec'[w].pc = "patch"
            \/ rec[w].seed = None /\ rec'[w].seed \in ready /\ rec'[w].pc = "claim"
<1>1. CASE rec[w].seed # None
  BY <1>1, Goes DEF ResolveSeed, At
<1>2. CASE rec[w].seed = None /\ ready = {}
  BY <1>2, Finishes DEF ResolveSeed, At
<1>3. CASE rec[w].seed = None /\ ready # {}
  <2>1. ready \subseteq Host /\ IsFiniteSet(ready)
    BY HostAssumption, FS_Subset DEF ShapeInv
  <2>2. Min(ready) \in ready
    <3> ready \subseteq Int
      BY <2>1, HostAssumption
    <3> QED  BY <1>3, <2>1, MinExists
  <2>3. /\ Others(w)
        /\ rec'[w] = [[rec[w] EXCEPT !.pc = "claim"] EXCEPT !.seed = Min(ready)]
    BY <1>3 DEF ResolveSeed, Others
  <2>4. DOMAIN rec[w] = Fields
    BY DEF ShapeInv
  <2>5. Carries(w) /\ rec'[w].pc = "claim" /\ rec'[w].seed = Min(ready)
    BY <2>3, <2>4 DEF Carries, Fields
  <2> QED  BY <1>3, <2>2, <2>5 DEF ResolveSeed, At
<1> QED  BY <1>1, <1>2, <1>3

LEMMA LogsMove ==
  ASSUME ShapeInv, NEW w \in DOMAIN rec, JobLogs(w)
  PROVE  /\ rec[w].pc = "logs" /\ fresh' \subseteq fresh /\ UNCHANGED obj
         /\ \/ rec' = [rec EXCEPT ![w] = Rest(w)]
            \/ /\ Carries(w) /\ rec'[w].seed = rec[w].seed
               /\ rec'[w].pc \in {"put", "patch"}
  BY Goes, Finishes DEF JobLogs, At, kube

(* A pod of the init Job adds a record of how it went.                     *)
LEMMA RunIs ==
  ASSUME ShapeInv, RunInit \/ InitKilled
  PROVE  \E r \in Run :
            /\ obj' = [obj EXCEPT !.job.runs = Append(@, r)]
            /\ disk' \in [Place -> Stage] /\ Identified \subseteq Identified'
            /\ obj.job.on \in Place /\ r.ok => disk'[obj.job.on] = "identity"
<1> USE DEF ShapeInv, Place, Stage, Identified
<1>1. CASE RunInit
  <2> DEFINE r == [ok |-> InitDisk # "config", token |-> InitDisk = "empty"]
  <2>1. r \in Run /\ r.ok = (InitDisk # "config")
    BY DEF Run
  <2>2. obj' = [obj EXCEPT !.job.runs = Append(@, r)]
    BY <1>1 DEF RunInit, Ran
  <2> HIDE DEF r
  <2>3. disk' = [disk EXCEPT ![obj.job.on] =
                    IF disk[obj.job.on] = "empty" THEN "identity" ELSE disk[obj.job.on]]
    BY <1>1 DEF RunInit
  <2>4. disk' \in [Place -> Stage] /\ Identified \subseteq Identified'
    BY <2>3
  <2>5. obj.job.on \in Place /\ r.ok => disk'[obj.job.on] = "identity"
    BY <2>1, <2>3 DEF InitDisk
  <2> QED  BY <2>1, <2>2, <2>4, <2>5
<1>2. CASE InitKilled
  <2>1. PICK done \in Stage, printed \in BOOLEAN :
          /\ InitDisk # "empty" => done = InitDisk
          /\ disk' = [disk EXCEPT ![obj.job.on] = done]
          /\ Ran(FALSE, printed)
    BY <1>2 DEF InitKilled
  <2> DEFINE r == [ok |-> FALSE, token |-> printed]
  <2>2. r \in Run /\ ~r.ok
    BY DEF Run
  <2>3. obj' = [obj EXCEPT !.job.runs = Append(@, r)]
    BY <2>1 DEF Ran
  <2> HIDE DEF r
  <2>4. disk' \in [Place -> Stage] /\ Identified \subseteq Identified'
    BY <2>1 DEF InitDisk
  <2> QED  BY <2>2, <2>3, <2>4
<1> QED  BY <1>1, <1>2

LEMMA JobKept ==
  ASSUME ShapeInv, [Next]_vars
  PROVE  /\ DOMAIN obj' = DOMAIN obj /\ DOMAIN obj'.job = DOMAIN obj.job
         /\ obj'.job.runs \in Seq(Run)
<1> DEFINE Fit == /\ DOMAIN obj' = DOMAIN obj /\ DOMAIN obj'.job = DOMAIN obj.job
                  /\ obj'.job.runs \in Seq(Run)
<1> USE DEF ShapeInv
<1>1. CASE UNCHANGED obj
  BY <1>1
<1>2. ASSUME NEW w \in DOMAIN rec, Reads(w), obj' # obj
      PROVE  Fit
  <2>1. \/ Prepare(w) \/ EnsureJob(w) \/ PutToken(w) \/ DeleteJob(w) \/ EnsureSeed(w)
        \/ EnsureDaemonSet(w)
    BY <1>2, LogsMove DEF Reads, Sync, ResolveSeed, JobComplete, ReadToken, JobExists,
       SeedReadyAddr, Snapshot, Quiet, kube
  <2>2. CASE Prepare(w) \/ PutToken(w) \/ EnsureSeed(w) \/ EnsureDaemonSet(w)
    BY <2>2 DEF Prepare, PutToken, EnsureSeed, EnsureDaemonSet
  <2>3. CASE EnsureJob(w)
    BY <2>3, <1>2 DEF EnsureJob
  <2>4. CASE DeleteJob(w)
    BY <2>4, <1>2 DEF DeleteJob
  <2> QED  BY <2>1, <2>2, <2>3, <2>4
<1>3. CASE PrepareDone \/ BootstrapServes \/ SeedStarts \/ SeedStops
  BY SMTT(60), <1>3 DEF PrepareDone, BootstrapServes, SeedStarts, SeedStops
<1>4. CASE JobGone
  <2>1. DOMAIN NoJob = {"on", "runs", "up", "deleting"} /\ NoJob.runs = <<>>
    BY DEF NoJob
  <2>2. DOMAIN obj' = DOMAIN obj /\ obj'.job = NoJob
    BY <1>4 DEF JobGone
  <2>3. <<>> \in Seq(Run)
    BY SMTT(60)
  <2> QED  BY <2>1, <2>2, <2>3
<1>5. ASSUME NEW r \in Run, obj' = [obj EXCEPT !.job.runs = Append(@, r)]
      PROVE  Fit
  <2>1. DOMAIN obj' = DOMAIN obj /\ DOMAIN obj'.job = DOMAIN obj.job
        /\ obj'.job.runs = Append(obj.job.runs, r)
    BY <1>5
  <2> QED  BY SMTT(60), <2>1
<1>6. CASE RunInit \/ InitKilled
  <2>1. PICK r \in Run : obj' = [obj EXCEPT !.job.runs = Append(@, r)]
    BY <1>6, RunIs
  <2> QED  BY <2>1, <1>5
<1>7. CASE BootstrapExits
  <2>1. /\ DOMAIN obj' = DOMAIN obj /\ DOMAIN obj'.job = DOMAIN obj.job
        /\ obj'.job.runs = [i \in DOMAIN obj.job.runs |->
                               [ok |-> FALSE, token |-> obj.job.runs[i].token]]
    BY <1>7 DEF BootstrapExits
  <2>2. \A i \in DOMAIN obj.job.runs : [ok |-> FALSE, token |-> obj.job.runs[i].token] \in Run
    <3>1. \A i \in DOMAIN obj.job.runs : obj.job.runs[i] \in Run
      BY SMTT(60)
    <3> QED  BY <3>1 DEF Run
  <2>3. obj.job.runs \in Seq(Run)
    OBVIOUS
  <2> QED  BY SMTT(60), <2>1, <2>2, <2>3
<1>8. ASSUME Surroundings, obj' # obj
      PROVE  Fit
  BY <1>3, <1>4, <1>6, <1>8, <1>7 DEF Surroundings, PodReady, PodDeleted, PodCreated, NodeFlips
<1>9. \/ UNCHANGED obj \/ Surroundings \/ \E w \in DOMAIN rec : Reads(w)
  <2>1. UNCHANGED vars => UNCHANGED obj
    BY DEF vars
  <2>2. \A w \in DOMAIN rec : ClaimSeed(w) \/ PatchStatus(w) \/ Abort(w) => UNCHANGED obj
    BY DEF ClaimSeed, PatchStatus, Abort, kube
  <2>3. \A h : EditSeed(h) \/ EditSpec => UNCHANGED obj
    BY DEF EditSeed, EditSpec, kube
  <2> QED  BY Cases, <2>1, <2>2, <2>3
<1> QED  BY <1>1, <1>2, <1>8, <1>9

LEMMA ClusterKept ==
  ASSUME ShapeInv, [Next]_vars
  PROVE  ready' \subseteq Host /\ disk' \in [Place -> Stage]
<1> USE DEF ShapeInv
<1>1. CASE UNCHANGED <<ready, disk>>
  BY <1>1
<1>2. ASSUME NEW h \in Host, NodeFlips(h)
      PROVE  ready' \subseteq Host /\ UNCHANGED disk
  BY <1>2 DEF NodeFlips
<1>3. CASE RunInit \/ InitKilled
  <2>1. UNCHANGED ready
    BY <1>3 DEF RunInit, InitKilled
  <2> QED  BY <1>3, <2>1, RunIs
<1>4. CASE Surroundings
  <2>1. CASE PrepareDone \/ BootstrapServes \/ JobGone \/ SeedStarts \/ BootstrapExits \/ SeedStops
    BY <1>1, <2>1 DEF PrepareDone, BootstrapServes, JobGone, SeedStarts, BootstrapExits,
       SeedStops, Keeps
  <2>2. \A k \in Member : PodReady(k) \/ PodDeleted(k) \/ PodCreated(k) => UNCHANGED <<ready, disk>>
    BY DEF PodReady, PodDeleted, PodCreated
  <2> QED  BY <1>1, <1>2, <1>3, <1>4, <2>1, <2>2 DEF Surroundings
<1>5. UNCHANGED <<ready, disk>> \/ Surroundings
  <2>1. UNCHANGED vars => UNCHANGED <<ready, disk>>
    BY DEF vars
  <2>2. \A w \in DOMAIN rec : ClaimSeed(w) \/ PatchStatus(w) \/ Abort(w) =>
           UNCHANGED <<ready, disk>>
    BY DEF ClaimSeed, PatchStatus, Abort, kube
  <2>3. \A h : EditSeed(h) \/ EditSpec => UNCHANGED <<ready, disk>>
    BY DEF EditSeed, EditSpec, kube
  <2> QED  BY Cases, ReadsLeave, <2>1, <2>2, <2>3
<1> QED  BY <1>1, <1>4, <1>5

LEMMA LocalsKept ==
  ASSUME ShapeInv, [Next]_vars
  PROVE  \A w \in DOMAIN rec' : DOMAIN rec'[w] = Fields /\ rec'[w].seed \in Place
<1> DEFINE Good(r) == DOMAIN r = Fields /\ r.seed \in Place
<1>0. \A w \in DOMAIN rec : Good(rec[w])
  BY DEF ShapeInv
<1> SUFFICES \A w \in DOMAIN rec' : Good(rec'[w])
  OBVIOUS
<1>1. CASE UNCHANGED rec
  BY <1>0, <1>1
<1>2. ASSUME NEW w \in DOMAIN rec, Others(w), Good(rec'[w])
      PROVE  \A v \in DOMAIN rec' : Good(rec'[v])
  BY <1>0, <1>2 DEF Others
<1>3. \A w \in DOMAIN rec : Carries(w) /\ rec'[w].seed \in Place => Good(rec'[w]) /\ Others(w)
  BY <1>0 DEF Carries
<1>5. ASSUME NEW w \in DOMAIN rec, rec' = [rec EXCEPT ![w] = Rest(w)]
      PROVE  Good(rec'[w]) /\ Others(w)
  BY <1>5, Rests DEF None, Place
<1>6. ASSUME NEW w \in DOMAIN rec, Reads(w)
      PROVE  Good(rec'[w]) /\ Others(w)
  <2>1. CASE Plain(w)
    BY <2>1, <1>0, <1>3, PlainMoves
  <2>2. CASE Sync(w)
    <3> rec'[w].seed \in Place
      BY <2>2, SyncMoves DEF ShapeInv
    <3> QED  BY <2>2, SyncMoves
  <2>3. CASE ResolveSeed(w)
    <3> rec'[w].seed \in Place
      BY <2>3, <1>0, ResolveMoves DEF ShapeInv, Place
    <3> QED  BY <2>3, <1>3, ResolveMoves
  <2>4. CASE JobLogs(w)
    BY <2>4, <1>0, <1>3, <1>5, LogsMove
  <2> QED  BY <1>6, <2>1, <2>2, <2>3, <2>4 DEF Reads, Plain
<1>7. ASSUME NEW w \in DOMAIN rec, ClaimSeed(w)
      PROVE  Good(rec'[w]) /\ Others(w)
  BY <1>0, <1>3, <1>5, <1>7, Goes DEF ClaimSeed
<1>8. ASSUME NEW w \in DOMAIN rec, PatchStatus(w) \/ Abort(w)
      PROVE  Good(rec'[w]) /\ Others(w)
  BY <1>5, <1>8 DEF PatchStatus, Abort
<1>9. UNCHANGED rec \/ \E w \in DOMAIN rec :
          Reads(w) \/ ClaimSeed(w) \/ PatchStatus(w) \/ Abort(w)
  <2>1. UNCHANGED vars => UNCHANGED rec
    BY DEF vars
  <2>2. \A h : EditSeed(h) \/ EditSpec => UNCHANGED rec
    BY DEF EditSeed, EditSpec
  <2> QED  BY Cases, SurroundingsLeave, <2>1, <2>2
<1> HIDE DEF Good
<1> QED  BY <1>1, <1>2, <1>6, <1>7, <1>8, <1>9

LEMMA ShapeStep == ShapeInv /\ [Next]_vars => ShapeInv'
  BY ObjectKept, JobKept, ClusterKept, LocalsKept DEF ShapeInv

--------------------------------------------------------------------------------
(* One seed is claimed                                                     *)

LEMMA ClaimStep ==
  ASSUME ShapeInv, ClaimInv, [Next]_vars
  PROVE  ClaimInv'
<1> SUFFICES ASSUME Chosen'
             PROVE  \A v \in DOMAIN rec' : Claimed(v)'
  BY DEF ClaimInv
<1>1. Chosen /\ Daemon /\ cr.seed = None
  BY ObjectKept DEF Chosen
<1>2. \A v \in DOMAIN rec : Claimed(v)
  BY <1>1 DEF ClaimInv
<1>3. ASSUME NEW v \in DOMAIN rec, rec'[v] = rec[v], cr'.status = cr.status,
             v \in fresh' => v \in fresh
      PROVE  Claimed(v)'
  BY <1>2, <1>3 DEF Claimed
<1>4. ASSUME NEW w \in DOMAIN rec, Others(w), cr'.status = cr.status,
             fresh' \subseteq fresh \cup {w}, Claimed(w)'
      PROVE  \A v \in DOMAIN rec' : Claimed(v)'
  BY <1>3, <1>4 DEF Others
<1>5. CASE UNCHANGED <<rec, fresh>> /\ cr'.status = cr.status
  BY <1>3, <1>5
<1>6. CASE EditSpec
  BY <1>3, <1>6 DEF EditSpec
<1>7. ASSUME NEW h \in Host, EditSeed(h)
      PROVE  FALSE
  <2>1. cr'.seed = h
    BY <1>7 DEF EditSeed, ShapeInv
  <2> QED  BY <2>1, HostAssumption DEF Chosen, None
<1>8. ASSUME NEW w \in DOMAIN rec, rec' = [rec EXCEPT ![w] = Rest(w)]
      PROVE  Others(w) /\ Claimed(w)'
  BY <1>8, Rests DEF Claimed, Decided
<1>9. ASSUME NEW w \in DOMAIN rec, Reads(w)
      PROVE  Others(w) /\ Claimed(w)' /\ fresh' \subseteq fresh \cup {w}
  <2>1. CASE Plain(w)
    <3>1. fresh' = fresh /\ cr' = cr
      BY <2>1 DEF Plain, Prepare, EnsureJob, JobComplete, ReadToken, PutToken, JobExists,
         DeleteJob, EnsureSeed, SeedReadyAddr, EnsureDaemonSet, Snapshot, Quiet, Keeps
    <3>2. rec[w].pc \in Decided
      BY <2>1, <1>2, PlainMoves DEF Claimed, Places, Decided
    <3>3. rec'[w].pc \in Decided \cup {"patch"}
      BY <2>1, <3>2, <1>1, PlainMoves
    <3> QED  BY <2>1, <1>2, <3>1, <3>2, <3>3, PlainMoves DEF Claimed, Carries, Decided
  <2>2. CASE Sync(w)
    <3>1. cr' = cr /\ fresh' = fresh \cup {w}
      BY <2>2 DEF Sync
    <3> QED  BY <2>2, <1>1, <3>1, SyncMoves DEF Claimed, Decided
  <2>3. CASE ResolveSeed(w)
    <3>1. cr' = cr /\ fresh' = fresh
      BY <2>3 DEF ResolveSeed, Quiet
    <3>2. \A h \in ready : h # None
      BY HostAssumption DEF ShapeInv, None
    <3> QED  BY <2>3, <1>2, <3>1, <3>2, ResolveMoves DEF Claimed, Carries, Decided
  <2>4. CASE JobLogs(w)
    <3>1. cr' = cr
      BY <2>4 DEF JobLogs
    <3> QED  BY <2>4, <1>2, <1>8, <3>1, LogsMove DEF Claimed, Carries, Decided
  <2> QED  BY <1>9, <2>1, <2>2, <2>3, <2>4 DEF Reads, Plain
<1>10. ASSUME NEW w \in DOMAIN rec, ClaimSeed(w)
       PROVE  \A v \in DOMAIN rec' : Claimed(v)'
  <2>1. CASE w \in fresh
    <3>1. cr.status = None /\ rec[w].seed # None
      BY <1>2, <1>10, <2>1 DEF ClaimSeed, At, Claimed
    <3>2. cr'.status = rec[w].seed /\ fresh' = {}
      BY <1>10, <2>1 DEF ClaimSeed, ShapeInv
    <3>3. Carries(w) /\ rec'[w].pc = "prepare" /\ rec'[w].seed = rec[w].seed
      BY <1>10, <2>1, Goes DEF ClaimSeed
    <3>4. Claimed(w)'
      BY <1>2, <3>1, <3>2, <3>3 DEF Claimed, Carries, Decided
    <3>5. ASSUME NEW v \in DOMAIN rec, v # w
          PROVE  Claimed(v)'
      <4>1. rec'[v] = rec[v]
        BY <3>3, <3>5 DEF Carries, Others
      <4> QED  BY <1>2, <3>1, <3>2, <4>1 DEF Claimed
    <3> QED  BY <3>3, <3>4, <3>5 DEF Carries, Others
  <2>2. CASE w \notin fresh
    BY <1>4, <1>8, <1>10, <2>2 DEF ClaimSeed
  <2> QED  BY <2>1, <2>2
<1>11. ASSUME NEW w \in DOMAIN rec, PatchStatus(w)
       PROVE  \A v \in DOMAIN rec' : Claimed(v)'
  <2>1. rec[w].seed \in {None, cr.status}
    BY <1>2, <1>11 DEF PatchStatus, At, Claimed
  <2>2. cr'.status = cr.status /\ fresh' \subseteq fresh
    BY <1>11, <2>1 DEF PatchStatus, ShapeInv
  <2> QED  BY <1>4, <1>8, <1>11, <2>2 DEF PatchStatus
<1>12. ASSUME NEW w \in DOMAIN rec, Abort(w)
       PROVE  \A v \in DOMAIN rec' : Claimed(v)'
  BY <1>4, <1>8, <1>12 DEF Abort
<1>13. UNCHANGED vars => UNCHANGED <<rec, fresh>> /\ cr'.status = cr.status
  BY DEF vars
<1>14. CASE Surroundings
  BY <1>5, <1>14, SurroundingsLeave
<1>15. ASSUME NEW w \in DOMAIN rec, Reads(w)
       PROVE  \A v \in DOMAIN rec' : Claimed(v)'
  BY <1>4, <1>9, <1>15, ReadsLeave
<1> QED
  BY Cases, <1>5, <1>6, <1>7, <1>10, <1>11, <1>12, <1>13, <1>14, <1>15

--------------------------------------------------------------------------------
(* The init Job and the seed Deployment are on that seed                   *)

(* The conjuncts of JobInv about the objects alone.                        *)
JobPlaced ==
    /\ ~obj.job.deleting
    /\ obj.job.on = -1 => obj.job = NoJob
    /\ obj.job.on # -1 => obj.job.on = cr.status /\ cr.status # None
    /\ (\E i \in DOMAIN obj.job.runs : obj.job.runs[i].ok) => obj.job.on \in Identified
    /\ obj.seed # None =>
          obj.seed = cr.status /\ obj.job.on = cr.status /\ cr.status \in Identified

LEMMA JobInvParts ==
  JobInv <=> (Chosen => /\ JobPlaced
                        /\ \A w \in DOMAIN rec : rec[w].pc \in Initialised =>
                              obj.job.on = cr.status /\ cr.status \in Identified)
  BY DEF JobInv, JobPlaced

(* No identity is lost, and the Job stays in its place.                    *)
LEMMA JobFrame ==
  ASSUME JobPlaced, obj'.job.on = obj.job.on, cr'.status = cr.status, Identified \subseteq Identified',
         \A w \in DOMAIN rec : rec[w].pc \in Initialised =>
             obj.job.on = cr.status /\ cr.status \in Identified,
         NEW w \in DOMAIN rec, Others(w),
         rec'[w].pc \in Initialised => obj.job.on = cr.status /\ cr.status \in Identified
  PROVE  \A v \in DOMAIN rec' : rec'[v].pc \in Initialised =>
             obj'.job.on = cr'.status /\ cr'.status \in Identified'
<1> SUFFICES ASSUME NEW v \in DOMAIN rec', rec'[v].pc \in Initialised
             PROVE  obj.job.on = cr.status /\ cr.status \in Identified
  OBVIOUS
<1>1. CASE v = w
  BY <1>1
<1>2. CASE v # w
  BY <1>2 DEF Others
<1> QED  BY <1>1, <1>2

(* Steps that touch neither the Job nor its place nor the Deployment.      *)
LEMMA PlacedFrame ==
  ASSUME JobPlaced, obj'.job = obj.job, obj'.seed = obj.seed, cr'.status = cr.status,
         disk' = disk
  PROVE  JobPlaced'
  BY DEF JobPlaced, NoJob, Identified

LEMMA JobPlacedBySurroundings ==
  ASSUME ShapeInv, JobPlaced, Surroundings
  PROVE  JobPlaced' /\ obj'.job.on = obj.job.on /\ Identified \subseteq Identified'
<1>0. cr' = cr
  BY SurroundingsLeave
<1>1. CASE obj'.job = obj.job /\ obj'.seed = obj.seed /\ disk' = disk
  BY <1>0, <1>1, PlacedFrame DEF Identified
<1>2. CASE JobGone
  BY <1>2 DEF JobGone, JobPlaced
<1>3. CASE PrepareDone \/ SeedStarts \/ SeedStops
  <2> obj'.job = obj.job /\ obj'.seed = obj.seed /\ disk' = disk
    BY <1>3 DEF PrepareDone, SeedStarts, SeedStops, Keeps, ShapeInv
  <2> QED  BY <1>1
<1>4. CASE BootstrapServes
  <2>1. /\ obj'.job.on = obj.job.on /\ obj'.job.runs = obj.job.runs
        /\ obj'.job.deleting = obj.job.deleting /\ obj'.seed = obj.seed /\ disk' = disk
    BY <1>4 DEF BootstrapServes, ShapeInv
  <2>2. obj.job.runs # <<>>
    BY <1>4 DEF BootstrapServes
  <2>3. obj.job.on # -1
    BY <2>2 DEF JobPlaced, NoJob
  <2> QED  BY <1>0, <2>1, <2>3 DEF JobPlaced, Identified
<1>5. CASE BootstrapExits
  <2>1. /\ obj'.job.on = obj.job.on
        /\ \A i \in DOMAIN obj'.job.runs : ~obj'.job.runs[i].ok
        /\ obj'.job.deleting = obj.job.deleting /\ obj'.seed = obj.seed /\ disk' = disk
    BY <1>5 DEF BootstrapExits, ShapeInv
  <2>2. obj.job.on # -1
    BY <1>5 DEF BootstrapExits, JobPlaced
  <2> QED  BY <1>0, <2>1, <2>2 DEF JobPlaced, Identified
<1>6. ASSUME NEW r \in Run, CanRun, obj' = [obj EXCEPT !.job.runs = Append(@, r)],
             Identified \subseteq Identified',
             obj.job.on \in Place /\ r.ok => disk'[obj.job.on] = "identity"
      PROVE  JobPlaced' /\ obj'.job.on = obj.job.on
  <2>1. /\ obj'.job.on = obj.job.on /\ obj'.job.runs = Append(obj.job.runs, r)
        /\ obj'.job.deleting = obj.job.deleting /\ obj'.seed = obj.seed
    BY <1>6 DEF ShapeInv
  <2>2. obj.job.on # -1
    BY <1>6 DEF JobPlaced, CanRun
  <2>3. r.ok => obj.job.on \in Identified'
    BY <1>6, <2>2 DEF JobPlaced, ShapeInv, Identified
  <2>4. (\E i \in DOMAIN obj'.job.runs : obj'.job.runs[i].ok) => obj.job.on \in Identified'
    <3>1. \A i \in DOMAIN obj'.job.runs :
             \/ i \in DOMAIN obj.job.runs /\ obj'.job.runs[i] = obj.job.runs[i]
             \/ obj'.job.runs[i] = r
      BY SMTT(60), <2>1 DEF ShapeInv
    <3> QED  BY <3>1, <1>6, <2>3 DEF JobPlaced
  <2> QED  BY <1>0, <1>6, <2>1, <2>2, <2>4 DEF JobPlaced
<1>7. CASE RunInit \/ InitKilled
  <2>1. PICK r \in Run :
          /\ obj' = [obj EXCEPT !.job.runs = Append(@, r)]
          /\ Identified \subseteq Identified'
          /\ obj.job.on \in Place /\ r.ok => disk'[obj.job.on] = "identity"
    BY <1>7, RunIs
  <2>2. CanRun
    BY <1>7 DEF RunInit, InitKilled
  <2> QED  BY <2>1, <2>2, <1>6
<1>8. ASSUME NEW k \in Member, PodReady(k) \/ PodDeleted(k) \/ PodCreated(k)
      PROVE  obj' = obj /\ disk' = disk
  BY <1>8 DEF PodReady, PodDeleted, PodCreated
<1>9. ASSUME NEW h \in Host, NodeFlips(h)
      PROVE  obj' = obj /\ disk' = disk
  BY <1>9 DEF NodeFlips
<1> QED  BY <1>1, <1>2, <1>3, <1>4, <1>7, <1>8, <1>9, <1>5 DEF Surroundings

LEMMA JobStep ==
  ASSUME ShapeInv, ClaimInv, JobInv, [Next]_vars
  PROVE  JobInv'
<1> DEFINE Served == \A w \in DOMAIN rec : rec[w].pc \in Initialised =>
                        obj.job.on = cr.status /\ cr.status \in Identified
<1> SUFFICES ASSUME Chosen'
             PROVE  JobPlaced' /\ Served'
  BY DEF JobInv, JobPlaced, Chosen
<1>1. Chosen /\ Daemon /\ cr.seed = None /\ cr.status \in Place
  BY ObjectKept DEF Chosen, ShapeInv
<1>2. JobPlaced /\ Served /\ \A w \in DOMAIN rec : Claimed(w)
  BY <1>1, JobInvParts DEF ClaimInv
<1>3. CASE UNCHANGED <<obj, disk, rec>> /\ cr'.status = cr.status
  BY <1>2, <1>3, PlacedFrame DEF Identified
<1>4. CASE Surroundings
  <2>1. JobPlaced' /\ obj'.job.on = obj.job.on /\ Identified \subseteq Identified' /\ cr' = cr /\ rec' = rec
    BY <1>2, <1>4, JobPlacedBySurroundings, SurroundingsLeave
  <2> QED  BY <1>2, <2>1
<1>5. ASSUME NEW h \in Host, EditSeed(h)
      PROVE  FALSE
  <2>1. cr'.seed = h
    BY <1>5 DEF EditSeed, ShapeInv
  <2> QED  BY <2>1, HostAssumption DEF Chosen, None
<1>6. CASE EditSpec
  BY <1>3, <1>6 DEF EditSpec, kube
<1>7. ASSUME NEW w \in DOMAIN rec, Others(w), obj'.job.on = obj.job.on,
             cr'.status = cr.status, disk' = disk,
             rec'[w].pc \in Initialised => obj.job.on = cr.status /\ cr.status \in Identified
      PROVE  Served'
  BY <1>2, <1>7, JobFrame DEF Identified
<1>8. ASSUME NEW w \in DOMAIN rec, rec' = [rec EXCEPT ![w] = Rest(w)],
             UNCHANGED <<obj, disk>>, cr'.status = cr.status
      PROVE  JobPlaced' /\ Served'
  <2>1. Others(w) /\ rec'[w].pc \notin Initialised
    BY <1>8, Rests DEF Initialised, Decided
  <2> QED  BY <1>2, <1>7, <1>8, <2>1, PlacedFrame
<1>9. ASSUME NEW w \in DOMAIN rec, Others(w), obj'.job = obj.job, obj'.seed = obj.seed,
             cr' = cr, disk' = disk,
             rec'[w].pc \in Initialised => rec[w].pc \in Initialised
      PROVE  JobPlaced' /\ Served'
  <2>1. rec'[w].pc \in Initialised => obj.job.on = cr.status /\ cr.status \in Identified
    BY <1>2, <1>9
  <2> QED  BY <1>2, <1>7, <1>9, <2>1, PlacedFrame
<1>10. ASSUME NEW w \in DOMAIN rec, Reads(w)
       PROVE  JobPlaced' /\ Served'
  <2>0. cr' = cr /\ disk' = disk
    BY <1>10, ReadsLeave
  <2>1. CASE EnsureJob(w)
    <3>1. Others(w) /\ rec'[w].pc = "complete"
      BY <2>1, Goes DEF EnsureJob, Carries
    <3>2. rec'[w].pc \notin Initialised
      BY <3>1 DEF Initialised, Decided
    <3>3. CASE obj.job # NoJob
      BY <1>9, <2>0, <2>1, <3>1, <3>2, <3>3 DEF EnsureJob
    <3>4. CASE obj.job = NoJob
      <4>1. rec[w].seed = cr.status /\ cr.status # None
        BY <1>2, <2>1 DEF Claimed, EnsureJob, At, Decided
      <4>2. /\ obj'.job.on = cr.status /\ obj'.job.runs = obj.job.runs
            /\ obj'.job.deleting = obj.job.deleting /\ obj'.seed = obj.seed
        BY <1>1, <2>1, <3>4, <4>1 DEF EnsureJob, ShapeInv
      <4>3. obj.job.on = -1 /\ obj.job.runs = <<>>
        BY <3>4 DEF NoJob
      <4>4. cr.status # -1
        BY <1>1, HostAssumption DEF Place
      <4>5. obj.seed = None
        BY <1>2, <4>3, <4>4 DEF JobPlaced
      <4>6. JobPlaced'
        BY <1>2, <2>0, <4>1, <4>2, <4>3, <4>4, <4>5 DEF JobPlaced
      <4>7. \A v \in DOMAIN rec : rec[v].pc \notin Initialised
        BY <1>2, <4>3, <4>4
      <4> QED  BY <3>1, <3>2, <4>6, <4>7 DEF Others
    <3> QED  BY <3>3, <3>4
  <2>2. CASE EnsureSeed(w)
    <3>1. Others(w) /\ rec'[w].pc = "addr" /\ rec[w].pc = "deploy"
      BY <2>2, Goes DEF EnsureSeed, Carries, At
    <3>2. rec[w].seed = cr.status /\ cr.status # None
      BY <1>2, <3>1 DEF Claimed, Decided
    <3>3. obj.job.on = cr.status /\ cr.status \in Identified
      BY <1>2, <3>1 DEF Initialised, Decided
    <3>4. obj'.job = obj.job /\ obj'.seed = IF obj.seed = None THEN rec[w].seed ELSE obj.seed
      BY <1>1, <2>2 DEF EnsureSeed, ShapeInv
    <3>5. JobPlaced'
      BY <1>2, <2>0, <3>2, <3>3, <3>4 DEF JobPlaced, NoJob, Identified
    <3> QED  BY <1>7, <2>0, <3>1, <3>3, <3>4, <3>5
  <2>3. CASE DeleteJob(w) \/ JobExists(w)
    BY <1>2, <2>3 DEF Claimed, Decided, DeleteJob, JobExists, At
  <2>4. CASE JobComplete(w)
    <3>1. Others(w) /\ obj' = obj
      BY <2>4, Goes, Finishes DEF JobComplete, Carries, Quiet
    <3>2. CASE \E i \in DOMAIN obj.job.runs : obj.job.runs[i].ok
      <4>1. obj.job.on \in Identified
        BY <1>2, <3>2 DEF JobPlaced
      <4>2. obj.job.on = cr.status
        BY <1>2, <3>2 DEF JobPlaced, NoJob
      <4> QED  BY <1>2, <1>7, <2>0, <3>1, <4>1, <4>2, PlacedFrame
    <3>3. CASE ~\E i \in DOMAIN obj.job.runs : obj.job.runs[i].ok
      <4>1. rec'[w].pc \notin Initialised
        BY <1>1, <2>4, <3>3, Finishes DEF JobComplete, Initialised, Decided
      <4> QED  BY <1>9, <2>0, <3>1, <4>1
    <3> QED  BY <3>2, <3>3
  <2>5. CASE Prepare(w) \/ PutToken(w) \/ EnsureDaemonSet(w)
    <3>1. obj'.job = obj.job /\ obj'.seed = obj.seed
      BY <2>5 DEF Prepare, PutToken, EnsureDaemonSet, ShapeInv
    <3>2. Others(w) /\ (rec'[w].pc \in Initialised => rec[w].pc \in Initialised)
      BY <2>5, Goes, Finishes DEF Prepare, PutToken, EnsureDaemonSet, At, Carries, Initialised,
         Decided
    <3> QED  BY <1>9, <2>0, <3>1, <3>2
  <2>6. CASE ReadToken(w) \/ SeedReadyAddr(w) \/ Snapshot(w)
    <3>1. obj' = obj
      BY <2>6 DEF ReadToken, SeedReadyAddr, Snapshot, Quiet
    <3>2. Others(w) /\ rec[w].pc \in Initialised
      BY <2>6, Goes, Finishes DEF ReadToken, SeedReadyAddr, Snapshot, At, Carries,
         Initialised, Decided
    <3> QED  BY <1>9, <2>0, <3>1, <3>2
  <2>7. CASE Sync(w)
    <3>1. Others(w) /\ rec'[w].pc \notin Initialised
      BY <1>1, <2>7, SyncMoves DEF Initialised, Decided
    <3> QED  BY <1>9, <2>0, <2>7, <3>1 DEF Sync, kube
  <2>8. CASE ResolveSeed(w)
    <3>1. Others(w) /\ rec'[w].pc \notin Initialised
      BY <2>8, ResolveMoves DEF Initialised, Decided, Carries
    <3> QED  BY <1>9, <2>0, <2>8, <3>1 DEF ResolveSeed, Quiet
  <2>9. CASE JobLogs(w)
    <3>1. obj' = obj /\ rec[w].pc \in Initialised
      BY <2>9, LogsMove DEF Initialised, Decided
    <3> QED  BY <1>8, <1>9, <2>0, <2>9, <3>1, LogsMove DEF Carries
  <2> QED  BY <1>10, <2>1, <2>2, <2>3, <2>4, <2>5, <2>6, <2>7, <2>8, <2>9 DEF Reads
<1>11. ASSUME NEW w \in DOMAIN rec, ClaimSeed(w)
       PROVE  JobPlaced' /\ Served'
  <2>0. UNCHANGED <<obj, disk>>
    BY <1>11 DEF ClaimSeed, kube
  <2>1. CASE w \in fresh
    <3>1. cr.status = None /\ cr'.status \in Place
      BY <1>2, <1>11, <2>1, ObjectKept DEF ClaimSeed, At, Claimed
    <3>2. obj.job.on = -1 /\ obj.seed = None
      BY <1>2, <3>1 DEF JobPlaced
    <3>3. JobPlaced'
      BY <1>2, <2>0, <3>2 DEF JobPlaced, NoJob
    <3>4. \A v \in DOMAIN rec : rec[v].pc \notin Initialised
      BY <1>2, <3>1 DEF Claimed, Initialised
    <3>5. Others(w) /\ rec'[w].pc = "prepare"
      BY <1>11, <2>1, Goes DEF ClaimSeed, Carries
    <3> QED  BY <3>3, <3>4, <3>5 DEF Others, Initialised, Decided
  <2>2. CASE w \notin fresh
    BY <1>8, <1>11, <2>0, <2>2 DEF ClaimSeed
  <2> QED  BY <2>1, <2>2
<1>12. ASSUME NEW w \in DOMAIN rec, PatchStatus(w)
       PROVE  JobPlaced' /\ Served'
  <2>1. rec[w].seed \in {None, cr.status}
    BY <1>2, <1>12 DEF PatchStatus, At, Claimed
  <2>2. cr'.status = cr.status
    BY <1>12, <2>1 DEF PatchStatus, ShapeInv
  <2> QED  BY <1>8, <1>12, <2>2 DEF PatchStatus, kube
<1>13. ASSUME NEW w \in DOMAIN rec, Abort(w)
       PROVE  JobPlaced' /\ Served'
  BY <1>8, <1>13 DEF Abort, kube
<1>14. CASE UNCHANGED vars
  BY <1>3, <1>14 DEF vars
<1> HIDE DEF Served
<1> QED
  BY Cases, <1>4, <1>5, <1>6, <1>10, <1>11, <1>12, <1>13, <1>14

--------------------------------------------------------------------------------
(* One daemon on the volume of sidecar 0                                   *)

(* VolumeInv for a Sidecar cluster with one reconciler.                    *)
Guarded ==
    /\ obj.set => obj.token /\ obj.job = NoJob
    /\ 0 \in DOMAIN pods => obj.set
    /\ rec[New].pc \in {"job", "complete", "logs", "put"} => ~obj.set
    /\ rec[New].pc \in {"deploy", "addr", "set", "snap"} =>
          obj.token /\ obj.job = NoJob
    /\ rec[New].pc = "exists" => obj.token
    /\ rec[New].pc \notin {"seed", "claim", "prepare"}

(* The cluster runs and ends a Job, it does not make one.                  *)
LEMMA GuardedBySurroundings ==
  ASSUME ShapeInv, Guarded, Surroundings
  PROVE  Guarded'
<1>0. rec' = rec
  BY SurroundingsLeave
<1>1. ASSUME obj'.set = obj.set, obj'.token = obj.token,
             obj'.job = obj.job \/ obj.job # NoJob \/ obj'.job = NoJob,
             0 \in DOMAIN pods' => 0 \in DOMAIN pods \/ obj.set
      PROVE  Guarded'
  <2>1. obj.job = NoJob => obj'.job = NoJob
    BY <1>1
  <2> QED  BY <1>0, <1>1, <2>1 DEF Guarded, NoJob
<1>2. CASE PrepareDone \/ SeedStarts \/ SeedStops
  BY <1>1, <1>2 DEF PrepareDone, SeedStarts, SeedStops, Keeps, ShapeInv
<1>3. CASE JobGone
  BY <1>1, <1>3 DEF JobGone, Keeps, ShapeInv
<1>4. CASE BootstrapServes
  <2>1. obj.job.runs # <<>>
    BY <1>4 DEF BootstrapServes
  <2>2. obj.job # NoJob
    BY <2>1 DEF NoJob
  <2>3. obj'.set = obj.set /\ obj'.token = obj.token /\ pods' = pods
    BY <1>4 DEF BootstrapServes, ShapeInv
  <2> QED  BY <1>1, <2>2, <2>3
<1>5. CASE RunInit \/ InitKilled
  <2>1. obj.job # NoJob /\ pods' = pods
    BY <1>5 DEF RunInit, InitKilled, CanRun
  <2>2. obj'.set = obj.set /\ obj'.token = obj.token
    BY <1>5, RunIs DEF ShapeInv
  <2> QED  BY <1>1, <2>1, <2>2
<1>6. CASE BootstrapExits
  <2>1. obj.job # NoJob /\ pods' = pods
    BY <1>6 DEF BootstrapExits
  <2>2. obj'.set = obj.set /\ obj'.token = obj.token
    BY <1>6 DEF BootstrapExits, ShapeInv
  <2> QED  BY <1>1, <2>1, <2>2
<1>7. ASSUME NEW k \in Member, PodReady(k) \/ PodDeleted(k) \/ PodCreated(k)
      PROVE  obj' = obj /\ (0 \in DOMAIN pods' => 0 \in DOMAIN pods \/ obj.set)
  BY <1>7 DEF PodReady, PodDeleted, PodCreated
<1>8. ASSUME NEW h \in Host, NodeFlips(h)
      PROVE  obj' = obj /\ pods' = pods
  BY <1>8 DEF NodeFlips
<1> QED  BY <1>1, <1>2, <1>3, <1>4, <1>5, <1>7, <1>8, <1>6 DEF Surroundings

LEMMA GuardedByReads ==
  ASSUME ShapeInv, Guarded, ~Daemon, New \in DOMAIN rec, Reads(New)
  PROVE  Guarded'
<1>0. pods' = pods
  BY ReadsLeave
<1>1. CASE Sync(New)
  <2>1. obj' = obj /\ rec'[New].pc = "token"
    BY <1>1, SyncMoves DEF Sync, kube
  <2> QED  BY <1>0, <2>1 DEF Guarded, NoJob
<1>2. CASE ResolveSeed(New) \/ Prepare(New)
  BY <1>2 DEF ResolveSeed, Prepare, At, Guarded
<1>3. CASE EnsureJob(New)
  <2>1. rec[New].pc = "job" /\ rec'[New].pc = "complete"
    BY <1>3, Goes DEF EnsureJob, At
  <2>2. obj'.set = obj.set /\ obj'.token = obj.token
    BY <1>3 DEF EnsureJob, ShapeInv
  <2> QED  BY <1>0, <2>1, <2>2 DEF Guarded
<1>4. CASE JobComplete(New)
  BY SMTT(60), <1>0, <1>4, Goes, Finishes DEF JobComplete, At, Guarded, Quiet
<1>5. CASE ReadToken(New)
  BY SMTT(60), <1>0, <1>5, Goes DEF ReadToken, At, Guarded, Quiet
<1>6. CASE JobLogs(New)
  <2>1. obj' = obj /\ rec[New].pc = "logs" /\ rec'[New].pc \in {"idle", "gone", "put", "patch"}
    BY <1>6, LogsMove, Rests
  <2> QED  BY <1>0, <2>1 DEF Guarded
<1>7. CASE PutToken(New)
  <2>1. rec[New].pc = "put" /\ rec'[New].pc = "delete"
    BY <1>7, Goes DEF PutToken, At
  <2>2. obj'.set = obj.set
    BY <1>7 DEF PutToken, ShapeInv
  <2> QED  BY <1>0, <2>1, <2>2 DEF Guarded
<1>8. CASE JobExists(New)
  <2>1. obj' = obj /\ rec'[New].pc = IF obj.job # NoJob THEN "delete" ELSE "deploy"
    BY <1>8, Goes DEF JobExists, Quiet
  <2>2. rec[New].pc = "exists"
    BY <1>8 DEF JobExists, At
  <2> QED  BY <1>0, <2>1, <2>2 DEF Guarded
<1>9. CASE DeleteJob(New)
  <2>1. rec'[New].pc = "patch" /\ obj'.set = obj.set /\ obj'.token = obj.token
    BY <1>9, Finishes DEF DeleteJob, ShapeInv
  <2>2. obj.job = NoJob => obj'.job = NoJob
    BY <1>9 DEF DeleteJob
  <2> QED  BY <1>0, <2>1, <2>2 DEF Guarded, NoJob
<1>10. CASE EnsureSeed(New) \/ EnsureDaemonSet(New)
  <2>1. rec[New].pc \in {"deploy", "set"} /\ rec'[New].pc \in {"addr", "snap"}
    BY <1>10, Goes DEF EnsureSeed, EnsureDaemonSet, At
  <2>2. obj'.set = TRUE /\ obj'.token = obj.token /\ obj'.job = obj.job
    BY <1>10 DEF EnsureSeed, EnsureDaemonSet, ShapeInv
  <2> QED  BY <1>0, <2>1, <2>2 DEF Guarded, NoJob
<1>11. CASE SeedReadyAddr(New) \/ Snapshot(New)
  <2>1. obj' = obj /\ rec[New].pc \in {"addr", "snap"} /\ rec'[New].pc \in {"set", "patch"}
    BY <1>11, Goes, Finishes DEF SeedReadyAddr, Snapshot, At, Quiet
  <2> QED  BY <1>0, <2>1 DEF Guarded
<1> QED
  BY <1>1, <1>2, <1>3, <1>4, <1>5, <1>6, <1>7, <1>8, <1>9, <1>10, <1>11 DEF Reads

LEMMA VolumeStep ==
  ASSUME ShapeInv, VolumeInv, [Next]_vars
  PROVE  VolumeInv'
<1> SUFFICES ASSUME SidecarAlone, ~Daemon'
             PROVE  DOMAIN rec' = {New} /\ Guarded'
  BY DEF VolumeInv, Guarded, SidecarAlone
<1>1. ~Daemon
  BY ObjectKept
<1>2. DOMAIN rec = {New} /\ Guarded
  BY <1>1 DEF VolumeInv, Guarded
<1>3. CASE UNCHANGED <<obj, pods, rec>>
  BY <1>2, <1>3 DEF Guarded, NoJob
<1>4. CASE Surroundings
  BY <1>2, <1>4, SurroundingsLeave, GuardedBySurroundings
<1>5. \A h : EditSeed(h) \/ EditSpec => UNCHANGED <<obj, pods, rec>>
  BY DEF EditSeed, EditSpec, kube
<1>6. UNCHANGED vars => UNCHANGED <<obj, pods, rec>>
  BY DEF vars
<1>7. CASE Reads(New)
  <2>1. DOMAIN rec' = DOMAIN rec
    BY <1>2, <1>7, PlainMoves, SyncMoves, ResolveMoves, LogsMove, Rests
       DEF Reads, Plain, Carries, Others
  <2> QED  BY <1>1, <1>2, <1>7, <2>1, GuardedByReads
<1>8. CASE ClaimSeed(New)
  BY <1>2, <1>8 DEF ClaimSeed, At, Guarded
<1>9. CASE PatchStatus(New) \/ Abort(New)
  <2>1. UNCHANGED <<obj, pods>> /\ rec' = [rec EXCEPT ![New] = Rest(New)]
    BY <1>9 DEF PatchStatus, Abort, kube
  <2>2. DOMAIN rec' = DOMAIN rec /\ rec'[New].pc \in {"idle", "gone"}
    BY <1>2, <2>1, Rests DEF Others
  <2> QED  BY <1>2, <2>1, <2>2 DEF Guarded, NoJob
<1> QED  BY Cases, <1>2, <1>3, <1>4, <1>5, <1>6, <1>7, <1>8, <1>9

--------------------------------------------------------------------------------
(* Theorems                                                                *)

LEMMA Invariance == Spec => []IInv
<1>1. IInv /\ [Next]_vars => IInv'
  BY ShapeStep, ClaimStep, JobStep, VolumeStep DEF IInv
<1> QED  BY InitIInv, <1>1, PTL DEF Spec

(* resolveSeed, ClaimSeed, EnsureJob and EnsureSeed: for any number of     *)
(* hosts and overlapping reconcilers, whatever fails, restarts or changes  *)
(* readiness, the seed Deployment is on the node whose disk the init Job   *)
(* initialised, as long as the user leaves the choice to the operator.     *)
THEOREM SeedIsWhereInitRan == Spec => []InitAndBootstrapTogether
<1>1. IInv => InitAndBootstrapTogether
  BY DEF IInv, JobInv, Chosen, InitAndBootstrapTogether, BootstrapOnInitNode,
         Identified
<1> QED  BY <1>1, Invariance, PTL

(* reconcileSidecar: for any voterCount, faults and edits, a single        *)
(* reconciler never has the bootstrap daemon and the StatefulSet's pod 0   *)
(* on one volume.                                                          *)
THEOREM VolumeHasOneDaemon ==
  ASSUME SidecarAlone
  PROVE  Spec => []OneDaemonOnVolume
<1>1. IInv => OneDaemonOnVolume
  BY DEF IInv, VolumeInv, OneDaemonOnVolume, NoJob
<1> QED  BY <1>1, Invariance, PTL

================================================================================
