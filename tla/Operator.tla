-------------------------------- MODULE Operator -------------------------------
(***************************************************************************)
(* The Kubernetes operator (internal/operator): reconcileDaemon and        *)
(* reconcileSidecar as the sequence of API calls they make, one step each, *)
(* run by one or more reconcilers (an operator rollout overlaps two pods)  *)
(* against one ClusdrCluster object, its Jobs, workloads and daemons.      *)
(*                                                                         *)
(* A pass ends at the first Snapshot: Runtime dials without a certificate, *)
(* and a daemon answers such a caller only Join and Health.  The rest of   *)
(* the pass (the second Snapshot, Leave, Join, phase Ready) is not reached *)
(* and not modelled.                                                       *)
(*                                                                         *)
(* A member pod is known by the number of its host, or in the Sidecar      *)
(* topology by its ordinal.  A resource version is the set of reconcilers  *)
(* whose copy of the object is current.  The warning column, labels and    *)
(* manifests' details are left out, and voterCount, which the API server   *)
(* keeps odd, does not change.                                             *)
(***************************************************************************)
EXTENDS Integers, Sequences, FiniteSets, FiniteSetsExt

CONSTANTS
    Created,       \* the specs users create: sets of [topology, voterCount]
    New,           \* the operator's reconciler
    Old,           \* Old[topology]: reconcilers of pods that may be being replaced;
                   \* each makes one pass
    Host,          \* Kubernetes nodes, positive numbers
    MaxFaults      \* bound: errors, timeouts and restarts of a reconciler, changes
                   \* of a node's readiness, failed init pods, restarts of seed and
                   \* member pods, old reconcilers and edits of the spec, together

ASSUME HostAssumption == IsFiniteSet(Host) /\ Host \subseteq Nat \ {0}

VARIABLES
    cr,        \* the object: spec.topology, voterCount and seedNodeName, status seed
               \* and phase
    fresh,     \* reconcilers whose resourceVersion is the object's
    obj,       \* prepare, job, token, seed workload, seed readiness, member set
    pods,      \* member pods: are they ready
    ready,     \* Ready, schedulable hosts
    disk,      \* what clusdr init left on a host (0: on the volume of sidecar 0)
    rec,       \* rec[w]: a reconciler's place and local variables
    faults     \* how many of MaxFaults have happened

vars == <<cr, fresh, obj, pods, ready, disk, rec, faults>>
kube == <<obj, pods, ready, disk>>

Daemon == cr.topology = "DaemonSet"
None == 0
NoJob == [on |-> -1, runs |-> <<>>, up |-> FALSE, deleting |-> FALSE]
Member == IF Daemon THEN Host ELSE 0 .. (cr.voterCount - 1)
Backoff == IF Daemon THEN 1 ELSE 0
Idle == [pc |-> "idle", seed |-> None, phase |-> "", claim |-> FALSE]

Init ==
    /\ \E s \in Created :
           cr = [topology |-> s.topology, voterCount |-> s.voterCount, seed |-> None,
                 status |-> None, phase |-> ""]
    /\ fresh = {}
    /\ obj = [prepare |-> "none", job |-> NoJob, token |-> FALSE,
              seed |-> None, up |-> FALSE, set |-> FALSE]
    /\ pods = <<>>
    /\ ready = Host
    /\ disk = [h \in Host \cup {0} |-> "empty"]
    /\ \E old \in SUBSET Old[cr.topology] :
          /\ rec = [w \in {New} \cup old |-> Idle]
          /\ faults = Cardinality(old)

Fault == faults < MaxFaults /\ faults' = faults + 1

Rest(w) == IF w = New THEN Idle ELSE [Idle EXCEPT !.pc = "gone"]

At(w, pc) == rec[w].pc = pc
Busy(w) == rec[w].pc \notin {"idle", "gone"}
Goto(w, pc) == rec' = [rec EXCEPT ![w].pc = pc]
Finish(w, phase) == rec' = [rec EXCEPT ![w].pc = "patch", ![w].phase = phase]

(* Everything but the reconciler's place is left alone.                    *)
Quiet == UNCHANGED <<cr, fresh, obj, pods, ready, disk, faults>>

(* A step that changes only the objects.                                   *)
Keeps == UNCHANGED <<cr, fresh, pods, ready, disk, faults>>

SeedReady == IF Daemon THEN obj.up ELSE 0 \in DOMAIN pods /\ pods[0]

--------------------------------------------------------------------------------
(* The reconciler                                                          *)

(* sync reads the object afresh and reconciles that copy.                  *)
Sync(w) ==
    /\ At(w, "idle")
    /\ rec' = [rec EXCEPT ![w] =
                  [Idle EXCEPT !.pc = IF Daemon THEN "seed" ELSE "token",
                               !.seed = IF cr.seed # None THEN cr.seed ELSE cr.status,
                               !.claim = cr.seed \notin {None, cr.status}]]
    /\ fresh' = fresh \cup {w}
    /\ UNCHANGED <<cr, faults>> /\ UNCHANGED kube

(* resolveSeed: spec, else a prior claim, else the first Ready node.       *)
ResolveSeed(w) ==
    /\ At(w, "seed")
    /\ \/ /\ rec[w].seed # None
          /\ Goto(w, IF rec[w].claim THEN "claim" ELSE "prepare")
       \/ /\ rec[w].seed = None
          /\ ready = {}
          /\ Finish(w, "Pending")
       \/ /\ rec[w].seed = None
          /\ ready # {}
          /\ rec' = [rec EXCEPT ![w].pc = "claim", ![w].seed = Min(ready)]
    /\ Quiet

(* Slip: the update carries the resourceVersion just read.                 *)
ClaimSeedBlindly(w) ==
    /\ At(w, "claim")
    /\ cr' = [cr EXCEPT !.status = rec[w].seed]
    /\ fresh' = {}
    /\ Goto(w, "prepare")
    /\ UNCHANGED faults /\ UNCHANGED kube

(* The status update is refused when the object has moved on.              *)
ClaimSeed(w) ==
    /\ At(w, "claim")
    /\ IF w \in fresh
       THEN /\ cr' = [cr EXCEPT !.status = rec[w].seed]
            /\ fresh' = {}
            /\ Goto(w, "prepare")
       ELSE /\ rec' = [rec EXCEPT ![w] = Rest(w)]
            /\ UNCHANGED <<cr, fresh>>
    /\ UNCHANGED faults /\ UNCHANGED kube

Prepare(w) ==
    /\ At(w, "prepare")
    /\ obj' = [obj EXCEPT !.prepare = IF @ = "none" THEN "made" ELSE @]
    /\ IF obj.prepare = "ready" THEN Goto(w, "job") ELSE Finish(w, "Pending")
    /\ Keeps

(* Get, and create when absent: an existing Job is never changed.          *)
EnsureJob(w) ==
    /\ At(w, "job")
    /\ obj' = IF obj.job = NoJob
              THEN [obj EXCEPT !.job.on = IF Daemon THEN rec[w].seed ELSE 0]
              ELSE obj
    /\ Goto(w, "complete")
    /\ Keeps

(* JobComplete: one pod succeeded.  BootstrapReady: its daemon serves.     *)
JobComplete(w) ==
    /\ At(w, "complete")
    /\ IF Daemon
       THEN IF \E i \in DOMAIN obj.job.runs : obj.job.runs[i].ok
            THEN Goto(w, "token") ELSE Finish(w, "Pending")
       ELSE IF obj.job.up THEN Goto(w, "logs") ELSE Finish(w, "Pending")
    /\ Quiet

ReadToken(w) ==
    /\ At(w, "token")
    /\ Goto(w, IF obj.token THEN (IF Daemon THEN "deploy" ELSE "exists")
               ELSE IF Daemon THEN "logs" ELSE "job")
    /\ Quiet

(* The log of the first pod listed, whichever pod that is.                 *)
JobLogs(w) ==
    /\ At(w, "logs")
    /\ IF obj.job.runs = <<>>
       THEN rec' = [rec EXCEPT ![w] = Rest(w)] /\ fresh' = fresh \ {w}
       ELSE /\ \E i \in DOMAIN obj.job.runs :
                  IF obj.job.runs[i].token THEN Goto(w, "put") ELSE Finish(w, "Error")
            /\ UNCHANGED fresh
    /\ UNCHANGED <<cr, faults>> /\ UNCHANGED kube

PutToken(w) ==
    /\ At(w, "put")
    /\ obj' = [obj EXCEPT !.token = TRUE]
    /\ Goto(w, IF Daemon THEN "deploy" ELSE "delete")
    /\ Keeps

(* Slip: having the token is taken for the Job being gone.                 *)
JobExistsUnasked(w) == At(w, "exists") /\ Goto(w, "deploy") /\ Quiet

(* Slip: a Job that a stopped pass left behind is waited for.              *)
JobExistsWaits(w) ==
    /\ At(w, "exists")
    /\ IF obj.job # NoJob THEN Finish(w, "Pending") ELSE Goto(w, "deploy")
    /\ Quiet

JobExists(w) ==
    /\ At(w, "exists")
    /\ Goto(w, IF obj.job # NoJob THEN "delete" ELSE "deploy")
    /\ Quiet

(* Foreground: the Job outlives its pod.                                   *)
DeleteJob(w) ==
    /\ At(w, "delete")
    /\ obj' = IF obj.job = NoJob THEN obj ELSE [obj EXCEPT !.job.deleting = TRUE]
    /\ Finish(w, "Pending")
    /\ Keeps

(* The seed Deployment, or the headless service and the StatefulSet.       *)
EnsureSeed(w) ==
    /\ At(w, "deploy")
    /\ obj' = IF Daemon
              THEN [obj EXCEPT !.seed = IF @ = None THEN rec[w].seed ELSE @]
              ELSE [obj EXCEPT !.set = TRUE]
    /\ Goto(w, "addr")
    /\ Keeps

SeedReadyAddr(w) ==
    /\ At(w, "addr")
    /\ IF SeedReady THEN Goto(w, "set") ELSE Finish(w, "Pending")
    /\ Quiet

(* EnsureDaemonSet; the pods that are then listed wait for the Snapshot.   *)
EnsureDaemonSet(w) ==
    /\ At(w, "set")
    /\ obj' = [obj EXCEPT !.set = TRUE]
    /\ Goto(w, "snap")
    /\ Keeps

(* Runtime.Snapshot shows no certificate: RequirePeerCert refuses it, and  *)
(* a daemon without TLS does not understand it.                            *)
Snapshot(w) == At(w, "snap") /\ Finish(w, "Pending") /\ Quiet

(* A merge patch: no resourceVersion, and no seed when it is empty.  One   *)
(* that changes nothing, the message included, makes no new version.       *)
PatchStatus(w) ==
    /\ At(w, "patch")
    /\ cr' = [cr EXCEPT !.status = IF rec[w].seed # None THEN rec[w].seed ELSE @,
                        !.phase = rec[w].phase]
    /\ fresh' = {} \/ (cr' = cr /\ fresh' = fresh \ {w})
    /\ rec' = [rec EXCEPT ![w] = Rest(w)]
    /\ UNCHANGED faults /\ UNCHANGED kube

(* An API error, the end of the 45 s budget or a restart: all local state  *)
(* is gone and the key is queued again.                                    *)
Abort(w) ==
    /\ Busy(w)
    /\ Fault
    /\ rec' = [rec EXCEPT ![w] = Rest(w)]
    /\ fresh' = fresh \ {w}
    /\ UNCHANGED cr /\ UNCHANGED kube

Reconcile(w) ==
    \/ Sync(w) \/ ResolveSeed(w) \/ ClaimSeed(w) \/ Prepare(w) \/ EnsureJob(w)
    \/ JobComplete(w) \/ ReadToken(w) \/ JobLogs(w) \/ PutToken(w)
    \/ JobExists(w) \/ DeleteJob(w) \/ EnsureSeed(w) \/ SeedReadyAddr(w)
    \/ EnsureDaemonSet(w) \/ Snapshot(w) \/ PatchStatus(w)

--------------------------------------------------------------------------------
(* Kubernetes, the daemons and the user                                    *)

Calm == UNCHANGED <<cr, fresh, rec>>

PrepareDone ==
    /\ obj.prepare = "made"
    /\ obj' = [obj EXCEPT !.prepare = "ready"]
    /\ Keeps /\ UNCHANGED rec

CanRun == /\ obj.job # NoJob
          /\ ~obj.job.deleting
          /\ \A i \in DOMAIN obj.job.runs : ~obj.job.runs[i].ok

InitDisk == disk[obj.job.on]

Ran(ok, token) == obj' = [obj EXCEPT !.job.runs = Append(@, [ok |-> ok, token |-> token])]

(* clusdr init on an empty directory prints the token once; with an        *)
(* identity it succeeds without one; with only clusdr.yaml it fails.       *)
RunInit ==
    /\ CanRun
    /\ Len(obj.job.runs) <= Backoff
    /\ Ran(InitDisk # "config", InitDisk = "empty")
    /\ disk' = [disk EXCEPT ![obj.job.on] = IF @ = "empty" THEN "identity" ELSE @]
    /\ UNCHANGED <<pods, ready, faults>> /\ Calm

(* The pod is killed, or a write fails: before clusdr.yaml, before the     *)
(* identity, before the token is printed, or after.                        *)
InitKilled ==
    /\ CanRun
    /\ Len(obj.job.runs) <= Backoff
    /\ Fault
    /\ \E done \in {"empty", "config", "identity"}, printed \in BOOLEAN :
          /\ InitDisk # "empty" => done = InitDisk
          /\ printed => InitDisk = "empty" /\ done = "identity"
          /\ disk' = [disk EXCEPT ![obj.job.on] = done]
          /\ Ran(FALSE, printed)
    /\ UNCHANGED <<pods, ready>> /\ Calm

(* Sidecar: the bootstrap pod's daemon follows its init container, if the  *)
(* cluster's DNS resolves the name it is to bind for Raft.                 *)
BootstrapServes ==
    /\ ~Daemon
    /\ \E i \in DOMAIN obj.job.runs : obj.job.runs[i].ok
    /\ ~obj.job.deleting /\ ~obj.job.up
    /\ obj' = [obj EXCEPT !.job.up = TRUE]
    /\ UNCHANGED <<pods, ready, disk, faults>> /\ Calm

(* It exits: restartPolicy Never and a backoff of 0, so the Job has failed. *)
BootstrapExits ==
    /\ ~Daemon /\ obj.job # NoJob /\ ~obj.job.deleting
    /\ \E i \in DOMAIN obj.job.runs : obj.job.runs[i].ok
    /\ obj' = [obj EXCEPT !.job.up = FALSE,
                          !.job.runs = [i \in DOMAIN @ |-> [ok |-> FALSE, token |-> @[i].token]]]
    /\ UNCHANGED <<pods, ready, disk, faults>> /\ Calm

JobGone ==
    /\ obj.job.deleting
    /\ obj' = [obj EXCEPT !.job = NoJob]
    /\ Keeps /\ UNCHANGED rec

(* The seed's node id is in clusdr.yaml or the store; Raft refuses a       *)
(* daemon without one.                                                     *)
SeedStarts ==
    /\ Daemon /\ obj.seed # None /\ ~obj.up
    /\ disk[obj.seed] # "empty"
    /\ obj' = [obj EXCEPT !.up = TRUE]
    /\ UNCHANGED <<pods, ready, disk, faults>> /\ Calm

SeedStops ==
    /\ obj.up
    /\ Fault
    /\ obj' = [obj EXCEPT !.up = FALSE]
    /\ UNCHANGED <<pods, ready, disk>> /\ Calm

(* A DaemonSet pod for every host but the seed's; StatefulSet pods in      *)
(* order, each once its predecessors are ready.  Both get a node id from   *)
(* the environment and start without init.                                 *)
PodCreated(k) ==
    /\ obj.set
    /\ k \notin DOMAIN pods
    /\ IF Daemon THEN k # obj.seed
       ELSE \A j \in Member : j < k => j \in DOMAIN pods /\ pods[j]
    /\ pods' = [j \in DOMAIN pods \cup {k} |-> IF j = k THEN FALSE ELSE pods[j]]
    /\ UNCHANGED <<obj, ready, disk, faults>> /\ Calm

PodReady(k) ==
    /\ k \in DOMAIN pods /\ ~pods[k]
    /\ pods' = [pods EXCEPT ![k] = TRUE]
    /\ UNCHANGED <<obj, ready, disk, faults>> /\ Calm

PodDeleted(k) ==
    /\ k \in DOMAIN pods
    /\ Fault
    /\ pods' = [j \in DOMAIN pods \ {k} |-> pods[j]]
    /\ UNCHANGED <<obj, ready, disk>> /\ Calm

NodeFlips(h) ==
    /\ Fault
    /\ ready' = IF h \in ready THEN ready \ {h} ELSE ready \cup {h}
    /\ UNCHANGED <<obj, pods, disk>> /\ Calm

(* spec.leave, which no pass gets to, or another field: a new version.     *)
EditSpec ==
    /\ Fault
    /\ fresh' = {}
    /\ UNCHANGED <<cr, rec>> /\ UNCHANGED kube

EditSeed(h) ==
    /\ h # cr.seed
    /\ Fault
    /\ cr' = [cr EXCEPT !.seed = h]
    /\ fresh' = {}
    /\ UNCHANGED rec /\ UNCHANGED kube

Controllers ==
    \/ PrepareDone \/ RunInit \/ BootstrapServes \/ JobGone \/ SeedStarts
    \/ \E k \in Member : PodReady(k) \/ PodCreated(k)

Disturbances ==
    \/ InitKilled \/ BootstrapExits \/ SeedStops \/ EditSpec
    \/ \E k \in Member : PodDeleted(k)
    \/ \E h \in Host : NodeFlips(h) \/ EditSeed(h)
    \/ \E w \in DOMAIN rec : Abort(w)

Next == Controllers \/ Disturbances \/ \E w \in DOMAIN rec : Reconcile(w)

Spec == Init /\ [][Next]_vars

(* The work queue keeps retrying the key, and Kubernetes keeps running     *)
(* what it was asked to run.                                               *)
FairSpec ==
    /\ Spec
    /\ \A w \in {New} \cup UNION {Old[t] : t \in DOMAIN Old} :
          WF_vars(w \in DOMAIN rec /\ Reconcile(w))
    /\ WF_vars(Controllers)

--------------------------------------------------------------------------------
(* Properties                                                              *)

(* The seed Deployment is on the node the init Job ran on.                 *)
BootstrapOnInitNode ==
    Daemon /\ obj.seed # None => obj.seed = obj.job.on /\ disk[obj.seed] = "identity"

(* resolveSeed: init and --bootstrap are pinned to one and the same node,  *)
(* however many reconcilers race for the claim and however nodes come and  *)
(* go: no daemon bootstraps on a disk another node was initialised for,    *)
(* as long as the user leaves the choice to the operator.                  *)
InitAndBootstrapTogether == cr.seed = None => BootstrapOnInitNode

(* reconcileSidecar: the bootstrap daemon and the StatefulSet's pod 0      *)
(* never run on the volume together.                                       *)
OneDaemonOnVolume == ~(obj.job.up /\ 0 \in DOMAIN pods /\ ~Daemon)

(* JobLogs: "join token missing" is reported only when no pod of the Job   *)
(* printed a token.                                                        *)
TokenFound ==
    cr.phase = "Error" => \A i \in DOMAIN obj.job.runs : ~obj.job.runs[i].token

(* What the reconciler sets up: the token kept, the seed serving, every    *)
(* other member's pod ready, and in Sidecar the bootstrap Job gone.        *)
Deployed ==
    /\ obj.token /\ SeedReady /\ obj.set
    /\ \A k \in Member : (Daemon => k # obj.seed) => k \in DOMAIN pods /\ pods[k]
    /\ ~Daemon => obj.job = NoJob

NoInitPodFailed == \A i \in DOMAIN obj.job.runs : obj.job.runs[i].ok

(* reconcileDaemon, reconcileSidecar: wherever passes, pods and the        *)
(* operator itself were stopped, repeated reconciliation gets the workload *)
(* up, unless a pod of the init Job fails, no node stays Ready, or the     *)
(* user moves the seed off the node that was initialised.                  *)
Deploys ==
    [](NoInitPodFailed /\ BootstrapOnInitNode) /\ []<>(ready # {}) => <>[]Deployed

(* "Phase moves Pending -> Ready" (docs/guide/kubernetes-operator.md).     *)
PhaseReady ==
    [](NoInitPodFailed /\ BootstrapOnInitNode) /\ []<>(ready # {}) => <>[](cr.phase = "Ready")

================================================================================
