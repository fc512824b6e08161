# clusdr: TLA+ models and proofs

clusdr is a small cluster runtime: every machine runs a daemon, the daemons form
a Raft group (hashicorp/raft, external), and the replicated state machine holds
the member list, the lock table and the lease table. Local programs talk to
their own daemon over gRPC or through the Go SDK; a Kubernetes operator runs the
daemons in a cluster.

This directory models the parts whose correctness depends on interleavings,
time, failures or ordering, checks them with TLC on small instances, and proves
the most important facts with TLAPS for every instance.

## The system and its parts

| Part | Source | State | Operations | Module |
|---|---|---|---|---|
| Lock table, expirer | `internal/locks` | grants by name, token counter | Acquire, Release, Renew, Expire, Due, Wait, Snapshot, Restore; scan and expire | `LockTable`, `LockGrants`, `FencedLock` |
| Lease table, expirer | `internal/leases` | as locks | Grant, Renew, Revoke, Expire, Due | `LeaseTable`, `FSM`, `Presence` |
| Membership engine | `internal/membership` | members, dropped ids, leader id | JoinAs, MarkDead, Drop, RestoreMember, SetLeader | `FSM`, `Cluster`, `Watch` |
| Raft node and FSM | `internal/consensus` | log position, tables, members | Apply*, FSM Apply/Snapshot/Restore, configuration changes | `LockGrants`, `FSM`, `FSMReplica`, `Cluster` |
| Lock service | `internal/grpcserver/locks.go` | blocked callers | Lock, TryLock, Unlock, Renew, forwarding | `LockService` |
| Join, leave, promote, rejoin | `internal/grpcserver/join.go` | Raft configuration | the four handlers, self announcements | `Cluster` |
| Presence, heartbeat | `internal/presence`, `internal/heartbeat` | tokens, miss counts | ensure, OnExpired, tick | `Presence` |
| Event bus, Watch | `internal/eventbus`, `internal/grpcserver/watch.go`, `sdk/client.go` | channels, sequence, dropped ranges, cursor | Publish, Subscribe, Watch, reconnect | `Watch` |
| Custom events | `internal/grpcserver/events.go`, `sdk/retry.go` | cache of seen ids | PublishEvent, fan-out, retry | `Publish` |
| SDK locks and leases | `sdk/lock.go`, `sdk/lease.go` | held handles, renewals | Lock, Unlock, renew loop, Close | `SDKClient` |
| Operator | `internal/operator` | ClusdrCluster status, Jobs, workloads | reconcileDaemon, reconcileSidecar | `Operator` |
| Store, data directory, PKI, TLS | `internal/store`, `internal/pki`, `internal/mtls`, `cmd/clusdr/init.go`, `internal/app/joinsec.go` | clusdr.yaml, bolt buckets, PEM files, issued certificates | init, start, join, handshakes | `DataDir` |
| Configuration | `internal/config` | file, environment | LoadFrom, clampRaft, Validate | `Config` |
| Daemon lifecycle | `internal/app`, `internal/grpcserver/server.go` | started units, serve results | InitApp, Wait, Close, announce | `App` |
| Soak and benchmark tools | `internal/soak`, `internal/bench` | an in-process Raft group | withLeader, churn, acquire, elect | `Harness` |

How they interact: a service handler on the leader proposes a command through
the Raft node; the FSM applies it on every node to the engine and the two
tables; those emit events on the local bus, which Watch streams carry to
clients. Presence leases are ordinary leases whose expiry event makes the leader
mark a member dead. The SDK wraps the handlers with retries and renewals; the
operator runs init and starts the daemons. The soak and benchmark tools drive the Raft
node and its FSM in one process, without gRPC.

## How to read the modules

Each module's header says what it abstracts. A definition introduced by "Slip:"
is the next definition with a mistake a maintainer could make. No specification
uses one: putting it in the place of its successor must break the property
named with it in `PROJECT.json`, which shows that the property depends on the
code. `PROJECT.json` also maps every definition to the lines it models.

Raft is external to this repository. It is modelled by what the code relies on:
a committed log applied in order by every node at its own pace, proposals that
commit, fail, or fail after taking effect, and at most one leader that can
commit.

### Modules and code

- **LockTable** gives each method of `locks.Table` as an operator on one table.
  **LockGrants** stamps and proposes commands on the leader
  (`ApplyLockAcquire`, `ApplyLockRelease` and `ApplyLockRenew` of
  `consensus.Node`), commits them in any order, applies them per
  node, and runs `RunExpirer` as scan and expire. Clocks differ by `Skew`.
  **FencedLock** is what the locks promise their clients, without nodes, logs and
  clocks; `LockGrants` implements it under the mapping of the newest committed
  table, the releases that were sent and the deadlines that have passed
  (`Implements`).
- **LeaseTable** and **FSM** give `FSM.Apply`, `Snapshot` and `Restore` as
  operators on engine and tables. **FSMReplica** runs them on several nodes with
  snapshots, crashes, restarts and snapshots installed on a running node.
- **LockService** runs the handlers of every daemon: routing by the daemon's
  idea of the leader, the condition variable as in `Table.Wait`, contexts that
  end, proposals whose answer is lost.
- **Cluster** runs the membership handlers as sequences of Raft operations on
  two pieces of state that should agree: configuration and member list. A Join
  without a Raft address (`Guest`) commits its member and asks Raft for nothing.
- **Presence** runs the keeper, the expiry of presence leases, the
  `lease.expired` events with their bounded channel, the heartbeat monitor and
  the announcement at start, with crashes and partitions.
- **Watch** publishes in three steps (change, number, fan-out), runs the Watch
  handler (subscribe, snapshot, sync, live events, gaps) and the SDK's
  reconnecting client.
- **Publish** runs `PublishEvent` as two steps, the id recorded in the cache and
  the event emitted and fanned out, with its relays, under retry.
- **SDKClient** runs several goroutines on several connections with the handle
  map, background renewals, retries and `Close`; putting the handle in the map and
  starting its renewal are two steps, as in `adopt` and `startRenew`.
- **Operator** takes one step per Kubernetes or daemon call of a reconcile pass,
  with one or two reconcilers, and follows what the pods of the init Job leave on
  the disk. A pass gets as far as its first Snapshot, see `PhaseReady` below.
- **DataDir** takes one step per file written, per bolt transaction and per
  message of a join, of which two may be under way, lets file writes fail, and says from the certificates on disk which handshakes
  succeed: with peers, with the SDK's clients and with the commands.
- **Config** gives the load of the configuration as operators on the timings
  that something may refuse. **App** loads it, starts the units, waits, closes
  and drains; each load of `a.Consensus` by the announcing goroutine is a step.
- **Harness** runs the sequential driver of a soak or benchmark run against Raft,
  the FSMs of the core nodes and their expirers, with leaders that fail during a
  call.

The `MC*` modules only define the sets and functions a `.cfg` cannot write. The
`*Proofs` modules hold the theorems. `ClientProofs` (SDKClient, Publish),
`DaemonProofs` (Cluster, App), `StateProofs` (LockGrants, DataDir) and
`EventProofs` (Watch, Presence) each extend two components that share no
variable, so that Publish, App, DataDir, Presence and Harness put their name
before `Init`, `Next` and `Spec`. Their `USE` line names the provers: Zenon for
the first-order steps, which are most of them, then SMT.

## What the runs check

All runs pass.

| Run | Properties | What it shows |
|---|---|---|
| `lock_grants` | `Agreement`, `Fencing`, `NoEarlyLoss`, `NoEarlyExpire`, `Implements`, `NoHolderForever` | Two nodes with skewed clocks, a leader change and lagging replicas: tables agree, tokens fence, no grant ends before one of its deadlines or its own holder's release, and every grant that is no longer renewed disappears from every node; clients see the abstract fenced lock. |
| `fsm_replica` | `TablesAgree`, `GrantsWithinLimit`, `TokensNameOneGrant`, `AcceptedAreListed` | Replicas that lag, snapshot, crash, restart and get snapshots installed have the lock and lease tables of their log position, within the limits, never show one token for two grants, and list every member the log has accepted. |
| `lock_service` | `OneClientPerToken`, `RenewKeepsTTL`, `FreeingWakesAll`, `ObserversGrantNothing`, `DeadlineEndsCall` | A client of a voter and one of an observer that does not know its role yet lock, try, unlock and renew across a leader change: grants are not shared, waiters are woken, TTLs are kept and a call ends with its context. |
| `cluster` | `ListedWereAccepted`, `OkMeansDone` | Two requests at a time interleaved with elections, failing Raft operations and a liveness commit: no id is listed that Raft never accepted unless it asked to be listed without a Raft address, and a request that succeeds alone has made list and configuration agree. |
| `presence` | `DeadAreNoticed`, `PresenceIsHeld`, `LeaderIsAlive` | With a crash, a partition, a lost answer or a missed renewal, dropped events and two elections: nodes that stay down are marked dead, connected ones hold their lease again and a leader ends up alive on the list. |
| `watch` | `ViewConverges`, `StreamComplete` | A watcher's view converges and nothing falls between the high-water mark and the first live event, whatever changes while the stream opens, overflows, breaks and reopens or the daemon restarts. |
| `publish` | `SecondOnlyAfterEviction`, `PeersHear` | Handlers interrupted between recording an id and emitting it, retries at any daemon, overtaking and lost relays, a restart: an id is emitted twice only after its eviction and every peer owed an event has it or has it coming. |
| `sdk_client` | `RenewedIsReleasable`, `CloseReleases` | Two connections with lost answers, timeouts of every call, an election, expiries and Close: a connection never renews what it could not release, and one closed between calls leaves nothing behind. |
| `operator` | `InitAndBootstrapTogether`, `OneDaemonOnVolume`, `Deploys` | A cluster of each topology with up to three errors, restarts, failing init pods, flapping nodes and edits, in the DaemonSet topology also an overlapping old operator pod: one node is initialised and bootstrapped, a single reconciler has one daemon on the volume, and seed and members get deployed. |
| `data_dir` | `FilesFollowStore`, `IssuerConsistent`, `NodeIDKept`, `JoinedIsTrusted` | init, init --force, start and two concurrent joins on one data.dir with two kills anywhere and a failing write, with TLS and without: a serving daemon's PEM files are the store's unless a write failed, a CA key fits the CA, without --force the node id stays, and a node that joined passes every handshake with its peers. |
| `app` | `DependenciesOutlive`, `FailureReported`, `LeaseFits`, `Exits` | Every unit may fail to start, serve goroutines fail, a signal comes, a call and a stream are open: units close after what uses them, a failure is reported, the process exits, and no mixture of file and environment makes Raft refuse the lease. |
| `harness` | `RoundLeavesNothing`, `NothingLeftBehind`, `RunEnds` | Soak and benchmark runs over three nodes with elections, lost answers, cut nodes and an extra voter that joins and leaves: a round leaves the cluster as it found it, a run cleans up after itself, and it ends. |

Some properties are conditional, because the code keeps them only then:

- `ViewConverges` holds while no Raft snapshot was installed on the running
  daemon (restoring a member emits nothing).
- `ObserversGrantNothing` is about calls made when the daemon had applied its
  own add_member entry and so knew its role.
- `InitAndBootstrapTogether` holds while spec.seedNodeName is not set by hand.
- `OneDaemonOnVolume` is checked with a single reconciler in the Sidecar topology;
  old and new operator pods overlap only in the DaemonSet topology, where the
  property is trivial. Two reconcilers in Sidecar violate it, see below.
- `Deploys` assumes that some node is Ready again and again, that no pod of the
  init Job failed and that the seed stays on the node that was initialised.
- `ListedWereAccepted` excuses ids that a Join without a Raft address listed.
- `FilesFollowStore`, and `JoinedIsTrusted` as far as it is about the programs on
  the node's machine, do not hold after a file could not be written or two joins
  wrote the files at once, until the next start or join has written them again
  (`ghost.torn`). The errors are logged by InitGRPC (internal/app/units.go:171)
  and returned by RequestJoin, in both cases after the store was changed.
- `OkMeansDone` is about a request during which no other one was under way,
  `CloseReleases` about a Close with no call in flight.
- `NodeIDKept` is about restarts without `init --force`.
- `LeaseFits` allows Raft to refuse the lease when a zero stands for Raft's own
  default.
- `JoinedIsTrusted` is about a join that was answered.
- `OneClientPerToken` is about clients that cannot have a common holder (one
  that sends none may get any daemon's id), `RenewKeepsTTL` about a client whose
  holder is its own.
- `RenewedIsReleasable` and `CloseReleases` are about connections that one
  goroutine uses, Close aside.

The unconditional statements are definitions of the same modules and listed in
the next section.

## Statements the code does not keep

Each row is a definition that states what a document, comment or contract of the
repository says, and that TLC refutes on the model. To reproduce one, put it in
the place of the invariants and properties of the module's `.cfg`, as an
`INVARIANT`, or as a `PROPERTY` if it is a temporal or action formula, with the
constants changed as the row says.

- **`LockGrants` `ExpireSparesRenewed`**, `internal/locks/table.go:169`. Expire compares only the token, which Renew and a repeated Acquire keep, so an expire that raced a renew drops the renewed grant; internal/locks/table.go:161 says "Expire releases name if token still matches. No-op on mismatch (renew raced)."
- **`FSMReplica` `LeftIsGone`**, `internal/consensus/fsm.go:234`. Restore writes the snapshot's members over the live engine and never removes the others, so a node that lags behind a leave and catches up by snapshot lists the left member for good; docs/concepts/membership.md:19 says "A left id is gone from the list, so it has no status", and docs/use-cases/sharding.md:10 "Every host runs the same function on the same list and gets the same answer."
- **`LockService` `NoSleepOnFreeLock`**, `internal/grpcserver/locks.go:120`. Lock learns that it was refused from Raft and only then takes the table's mutex in Wait, which does not look at the table: a release that is applied in between broadcasts to nobody, and the caller sleeps on a free lock until some later change or its deadline; proto/api/clusdr/v1alpha1/locks.proto:12 says "Lock blocks until the named lock is acquired or the RPC deadline expires."
- **`LockService` `HolderIsOwnDaemon`** (with `AskedHolder <- NoHolders`), `internal/grpcserver/locks.go:260`. The follower forwards the request unchanged and the leader fills in its own id, so clients of different daemons that send no holder share one grant; docs/reference/api/locks.md:15 says "`holder` (empty → this daemon's node id)".
- **`LockService` `ObserversNeverGrant`**, `internal/grpcserver/locks.go:90`. rejectIfObserver reads the role from the node's own member list, where a node is a voter until it has applied its own add_member entry; docs/concepts/locks.md:3 says "If you take a lock on an [observer](observers.md), the RPC fails with `FailedPrecondition` instead of forwarding".
- **`LockService` `NoLeaderIsUnavailable`** (with `FirstLeader = NoNode`), `internal/grpcserver/locks.go:341`. A node that knows no other leader answers FailedPrecondition NOT_LEADER, and one that lost the lead meanwhile Internal; docs/concepts/leadership.md:3 says "If there is no leader, those RPCs return `Unavailable`".
- **`Cluster` `ListedAreServers`**, `internal/grpcserver/join.go:598`. leaveMember, Join and rejoinMember check and commit in separate Raft operations with nothing to serialise them: a leave that completes in between is undone by the other request's add_member and the id stays listed although it is not a Raft server; docs/reference/cli/leave.md:19 says "Watch emits `member.left`; the id is gone from `Members()`".
- **`Cluster` `VotersAreListedAsVoters`**, `internal/grpcserver/join.go:135`. Join with observer set calls AddNonvoter, which leaves an existing voter a voter, and then commits the role observer; docs/concepts/observers.md:22 says "There is no demote voter → observer in this version."
- **`Cluster` `PromotedIsVoter`**, `internal/grpcserver/join.go:293`. promoteMember returns success when the list says voter without looking at Raft; an observer whose join failed after AddNonvoter announces itself as voter, the role an unlisted node assumes (internal/app/units.go:459); docs/reference/cli/promote.md:3 says "`clusdr promote` turns an observer into a Raft voter."
- **`Cluster` `AddressIsAdvertised`**, `internal/app/units.go:558`. Winning an election commits add_member with grpc.addr, the bind address, over the advertised one; docs/reference/api/membership.md:5 says "`address` on each member is the advertised Runtime API (`node.addr`), not `raft.addr`."
- **`Presence` `BackFromDead`**, `internal/presence/keeper.go:111`. A keeper that gets its lease back after a partition only stores the token, the heartbeat monitor skips members that are not alive (internal/heartbeat/monitor.go:116), and a node announces itself only at start: nothing marks it alive again; docs/concepts/membership.md:37 says "| Heartbeat / presence OK | `alive` | `member.join` (first time or back from dead) |".
- **`Presence` `DeadForAReason`**, `internal/presence/expire.go:16`. OnExpired marks the node dead without looking at the lease table, so an event that is handled late, or emitted again by a replica that replays its log, kills a node that holds a valid lease; docs/concepts/presence.md:3 says "When that lease expires, the leader marks the member **dead**", and docs/concepts/membership.md:37 that a member whose presence is OK is alive.
- **`Watch` `DropIsAnnounced`**, `internal/grpcserver/watch.go:84`. When a full channel drops an event the flag is consumed by the oldest event still queued, for which from <= to is false: no gap is sent and the flag is gone, so the next live event follows without one; internal/grpcserver/watch.go:47-48 says "If the subscriber dropped events (backpressure), emit watch.gap before the next live event."
- **`Watch` `GapTold`**, `sdk/client.go:235`. watchLoop moves its cursor to the seq of watch.sync, so when the stream breaks after watch.sync and before what lies behind the mark was sent, the next connection starts at the mark and sends no gap; docs/use-cases/worker-liveness.md:129 says "`watch.gap` on reconnect if events were missed".
- **`Watch` `GapTold`**, `internal/grpcserver/watch.go:66`. The bus of a restarted daemon starts at 0, so fromSeq > last is false for a client with a cursor from before; internal/events/events.go:47-48 says "Seq is a cluster-wide monotonically increasing sequence number assigned by the event bus. Used for gap detection on Watch reconnect."
- **`Watch` `StreamSeqIncreases`**, `internal/eventbus/bus.go:51`. Publish takes the number before the mutex, so two concurrent publishers can fan out in the opposite order and one stream sees 2 before 1; internal/events/events.go:47 says "Seq is a cluster-wide monotonically increasing sequence number".
- **`Watch` `ViewIsCurrent`**, `internal/membership/engine.go:198`. RestoreMember writes the list without emitting, also when Raft installs a snapshot on a running follower: its watchers keep the old members until their stream breaks; docs/concepts/watch.md:3 says "Watch is a server stream of what changed in the cluster: members going alive or dead".
- **`Publish` `OneFactPerCall`**, `sdk/client.go:177`. The SDK's Publish leaves event_id empty, so each attempt of its retry loop is given a fresh id by the daemon and an attempt whose answer was lost is emitted again; docs/concepts/events.md:11 says "Duplicate `event_id` → accepted with `message = duplicate` so a retry does not create a second fact".
- **`SDKClient` `CachedIsLive`**, `sdk/lock.go:150`. On FailedPrecondition the renewal goroutine returns and leaves the handle in c.held, so Lock and TryLock answer acquired from the map after the daemon said the grant is gone, and another holder may have it; sdk/clusdr.go:28-29 says "Lock blocks until name is acquired or ctx is done" and "Same name already held by this connection → existing *Lock".
- **`SDKClient` `RenewedUntilReleased`**, `sdk/lock.go:153`. NOT_LEADER is FailedPrecondition, which ends the renewal goroutine, so an election during one renewal lets a live holder's grant expire; sdk/clusdr.go:35 says "Lease grants name and renews in the background until ctx is cancelled, Revoke, or Close" (lease.go:156 is the same line for leases).
- **`SDKClient` `CloseReleasesAll`**, `sdk/client.go:266`. Close releases what the map holds and then closes the connection, so a Lock in flight may be granted in between and is not released; docs/sdk/go.md:76 says "`Close` cancels in-flight RPCs and Watch streams, then unlocks and revokes what this connection still holds so a process exit does not wait for TTL."
- **`SDKClient` `SharedIsReleasable`** (with `Thread = {t1, t2, t3}, ConnOf <- SharedConn`), `sdk/lock.go:125`. adopt overwrites a newer token with an older one when two goroutines' answers are adopted out of order; the newer grant's renewal goes on and Unlock, which sends the old token, cannot end it; docs/sdk/go.md:74 says "`Unlock("scheduler.payments.nightly")` from any goroutine releases that name for the whole process."
- **`Operator` `BootstrapOnInitNode`**, `internal/operator/seed.go:43`. An edit of spec.seedNodeName after the init Job exists is claimed without a look at the Job, so the seed Deployment starts --bootstrap on a node that was never initialised and the status names it; docs/reference/clusdrcluster.md:36 says of status.seedNodeName "Node pinned for init + `--bootstrap`. Written before the Job."
- **`Operator` `PhaseReady`** (with `MaxFaults = 0`), `internal/operator/runtime.go:45`. The operator dials the seed with `mtls.BootstrapTLS`, which has no client certificate, and requirePeerCert (internal/grpcserver/tls.go:44) refuses such a caller everything but Join and Health; the Snapshot of every pass fails and the pass ends with the phase Pending (reconcile.go:192), before any pod is joined or told to leave; docs/guide/kubernetes-operator.md:35 says "Phase moves `Pending` → `Ready`."
- **`Operator` `TokenFound`**, `internal/operator/kube.go:132`. JobLogs reads Items[0] of the Job's pods; with backoffLimit 1 a failed pod can be listed before the one that printed the token, and the phase is Error for ever; docs/guide/kubernetes-operator.md:37 says "`Error` + “join token missing” means init logs were empty".
- **`Operator` `OneDaemonOnVolume`** (with `Old <- AnyRollout`), `internal/operator/reconcile_sidecar.go:26`. A reconciler that read no token before another stored it creates the bootstrap Job again after the StatefulSet exists (init succeeds on an initialised disk), so two daemons open one volume; internal/operator/sidecar.go:65 says "Delete it before the STS (RWO)."
- **`DataDir` `ForceReplacesBoth`**, `cmd/clusdr/init.go:76`. init --force writes clusdr.yaml with a new node id before it opens the store; beside a running daemon the open then fails, so neither identity nor token were replaced and yet the next start runs under the new id; docs/reference/cli/init.md:34 says "`--force` only if you intend to replace config **and** the token" and docs/concepts/presence.md:31 calls a restart "`clusdr start` with the same unit and the same `data.dir` — not a second `init`, not a new `node.id`".
- **`DataDir` `InitMeansUsable`**, `cmd/clusdr/init.go:160`. alreadyInitialized asks for the identity only, which is stored in a transaction before the certificates; after a kill in between a second init exits 0 with no CA, no node certificate and no join token; the command's help (cmd/clusdr/init.go:28) says it "persists identity plus PKI to the local state database".
- **`DataDir` `FreshNodeJoins`**, `internal/app/units.go:162`. With TLS on, a daemon without certificates skips TLS and serves plaintext, while `clusdr join` dials it with TLS (cmd/clusdr/client.go:31) and it dials the seed without: a daemon started on a fresh data.dir cannot be told to join until an init has made certificates; docs/guide/grow.md:9 and 36 ("Start the joiner", "Join") do exactly that.
- **`DataDir` `ListedIsTrusted`**, `internal/grpcserver/join.go:165`. Join commits the membership before it issues the certificate, so an answer that is lost, or a leader without the CA key, leaves a listed member whose peers refuse its handshakes; cmd/clusdr/join.go:23 says the command "bootstraps membership plus a CA-issued node certificate".
- **`App` `ClosesCleanly`**, `internal/app/units.go:596`. announceSelfOnce loads a.Consensus again after its nil test (lines 449, 450, 468, 469) while nobody waits for the goroutine and CloseConsensus sets the pointer to nil; a shutdown during announcing can end in a nil dereference; internal/app/units.go:588 says "CloseConsensus shuts down the Raft node cleanly."
- **`App` `ValidatedStarts`**, `internal/config/config.go:243`. Validate compares the lease with the heartbeat only; Raft also refuses an election timeout below the heartbeat and timings that are too small, which shows when the daemon starts; docs/reference/configuration.md:47 says of `clusdr config validate` "confirm the merge" before the restart.
- **`App` `LoadClamps`**, `internal/config/config.go:233`. A timing of 0 is not passed to Raft, which then uses its own default: a lease of 0 stands for 500 ms and is refused beside a shorter heartbeat, and the clamp does not see it; docs/reference/configuration.md:162 says "If an override breaks that, load clamps lease to half the heartbeat."
- **`Harness` `RetriesAreSafe`**, `internal/soak/cluster.go:270`. withLeader tries again after ErrLeadershipLost, which Raft also reports for an entry that then commits: the repeated release or revoke is refused (not held) and the soak run ends with an error though nothing is wrong; internal/soak/cluster.go:281 calls the error transient.

## Bounds

Every bound is a constant named `Max...` or the size of a set, and appears in a
guard.

- `lock_grants`: two nodes (one clock ahead by one), two holders, one name, a
  log of three commands and one election give grant, loss and grant again, a
  stale expire and a lost proposal. TTLs of 0 (not given) and 2 (above the
  maximum of 1) are asked for. The proofs remove the bounds.
- `fsm_replica`: two nodes, three commands, one crash; each node may have a
  snapshot of any position and receive the other's. Tables hold one grant, so
  the limit is met with two names.
- `lock_service`: two clients (one to hold, one to wait), the second of an
  observer that learns its role late; two tokens, so that a grant is lost and
  taken again, for Lock and TryLock only; one leader change.
- `cluster`: a seed and a joiner, joins with and without a Raft address, two
  requests under way at once and three in all, two failed Raft operations, two elections, one death.
- `presence`: three nodes, so that a majority survives one crash or cut; a
  channel of one event, so that it overflows; two misses; one fault of any kind
  (`MaxFaults`) and two elections.
- `watch`: a channel of one or two entries, which overflows; one fault of any kind.
- `publish`: two daemons, two calls of two tries each (one with an event_id, one
  without), a cache of two ids, which evicts, and two faults of any kind.
- `sdk_client`: two connections with one goroutine each, three tokens, one lost
  answer, one timeout of each call, one election, two expiries.
- `operator`: two hosts and both topologies (chosen in `Init` from `Created`),
  three faults (`MaxFaults`: failed calls, killed pods, flapping nodes, edits,
  restarts, an overlapping pod); in the DaemonSet topology a second, older
  reconciler (`Old`) makes one pass.
- `data_dir`: four numbers and two kills reach every prefix of two commands,
  with and without TLS; two joins at once, one failing write; the proofs remove
  the bounds.
- `app`: one call, one stream, two serve failures; file and environment each give
  any of the keys a value below, above or equal to the other's, or zero.
- `harness`: three core nodes and one that comes and goes, three polls that agree
  (`Need`, as in the code), three ticks, two samples of each kind, one leader
  that fails and one warning.

`CHECK_DEADLOCK FALSE` is given where a bounded run ends because its budgets are
used up, or, for `App`, because the process has exited. Symmetry is used only in
runs without liveness.

## Fairness

Only goroutines, timers and controllers that run unconditionally in the code are
weakly fair; clients, failures, elections that are not needed, restarts and
partitions owe nothing.

- `LockGrants`: time passes, proposals under a stable leader commit, each FSM
  and each expirer loop runs.
- `LockService`: a handler goroutine runs on, and a proposal is answered (Apply
  has a timeout). No deadline is assumed to come.
- `Presence`: keeper, monitor, watcher and announcement loops run; a connected
  majority elects a leader.
- `Operator`: the work queue retries the key with back-off, so that each
  reconciler takes its next step, and Kubernetes runs the pods it was asked to run
  (`Controllers`).
- `App`: main and serve goroutines run, the grace period ends, unary calls end, a
  monitor with interval 0 panics. Streams are not assumed to end.
- `Harness`: the driver's loop runs, a group with a majority settles on a leader,
  each FSM applies what is committed and each expirer loop runs.

## What is proved

TLAPS checks these for every value of the constants, from the assumptions named
in the modules:

- `TTLAssumption` (0 < MinTTL <= DefaultTTL <= MaxTTL), `NoLockAssumption` and
  its like (the absent value is no record), `LimitAssumption` (the limit of
  grants is a number), `BoundAssumption`, `TimingAssumption` and the other typing
  assumptions of the bounds;
- `NodeAssumption`, `HolderAssumption` and `RequestAssumption` of the lock
  service: the absent node is no node, the first leader is a voter, every client
  has a daemon, node ids are holders, TTLs in milliseconds are numbers;
- `KindAssumption` of Watch: members, leader and topics are different keys,
  custom events are published by goroutines other than the FSM's and Raft's, and
  the client's filter names keys;
- `HostAssumption` (the hosts are finitely many positive numbers); for
  `VolumeHasOneDaemon` also `SidecarAlone` (a Sidecar cluster has no overlapping
  operator pods), a hypothesis of the theorem;
- `ConnAssumption` of SDKClient (every goroutine has a connection, and the name
  of no holder is none of them),
  `CapacityAssumption` of Publish (the cache has room for an id);
- `CoreAssumption` of Harness (the group has a node that bootstraps it, and the
  extra node is none of the group), `RoundAssumption` (the bounds on its rounds
  are numbers).

| Module | Theorem | Says |
|---|---|---|
| `StateProofs` | `ReplicasAgree` (`Agreement`) | For any number of nodes, names, holders and any skew, every replica's lock table is the committed log's table at the replica's position. |
| `StateProofs` | `TokensFence` (`Fencing`) | A fencing token is given to one grant for ever and a name's tokens only grow. |
| `StateProofs` | `ExpiryJustified` (`NoEarlyExpire`) | No expire is scanned, proposed or committed for a grant none of whose deadlines has passed on the fastest clock. |
| `StateProofs` | `GrantsEndInTime` (`NoEarlyLoss`) | A grant ends only by its holder's release with its token or by an expiry after one of its deadlines. |
| `StateProofs` | `LocksKeepContract` (`Implements`) | For any nodes, names, holders, skew and bounds, the replicated lock table implements the abstract fenced lock: one grant per name, the next token for each, and an end only after its holder's own release or a deadline. |
| `StateProofs` | `TypeCorrect` | Every variable keeps its type; in particular every stored TTL is within MaxTTL. |
| `FSMReplicaProofs` | `ReplicaTablesAgree` (`TablesAgree`) | For any nodes, names and command alphabet, every replica's lock and lease tables are those of the log position it has applied, through snapshots, crashes and restarts. |
| `FSMReplicaProofs` | `NoMemberLost` (`AcceptedAreListed`) | Every member the committed log has accepted is on the list of every replica at that position, with its status and role. |
| `FSMReplicaProofs` | `LimitHolds` (`GrantsWithinLimit`) | For any limit, command alphabet and history of snapshots, crashes and restarts, no replica holds more locks or more leases than the limit. |
| `FSMReplicaProofs` | `TokensNeverReused` (`TokensNameOneGrant`) | For any commands and history of snapshots, crashes and restarts, a lock or lease token names one grant for ever: two nodes that show it, at any log positions, show the same name and holder. |
| `LockServiceProofs` | `OneClientHolds` (`OneClientPerToken`) | For any daemons, observers, clients, names and TTLs, clients that cannot have a common holder are never told that they own the same token, however their calls are forwarded, retried, cut off or race elections and expiries. |
| `LockServiceProofs` | `RenewKeepsHolds` (`RenewKeepsTTL`) | For any instance, a renewal that names no TTL leaves the TTL the grant has when it commits, although the handler read it earlier, for a client whose holder no other client may have. |
| `LockServiceProofs` | `FreeingHolds` (`FreeingWakesAll`) | For any instance, a step that frees a name leaves no caller parked in Table.Wait, also when the proposer of the command was told that it failed. |
| `LockServiceProofs` | `ObserversHold` (`ObserversGrantNothing`) | For any instance, a call made to a daemon that knew it is an observer neither gains nor gives up a grant, whatever leader that daemon believes in. |
| `DaemonProofs` | `AcceptedBeforeListed` (`ListedWereAccepted`) | For any nodes, requests, elections and failures, an id on the member list has been in the Raft configuration, unless a Join without a Raft address put it there. |
| `DaemonProofs` | `SuccessMeansDone` (`OkMeansDone`) | For any instance, a request that returns ok and was alone has left the list and the Raft configuration as it promises, also when it repeats a failed one. |
| `EventProofs` | `ViewConvergesHolds` (`ViewConverges`) | For any members, topics, publishers, filter and channel depth, a client whose stream is quiet and lost nothing has the daemon's members and leader, whatever was published while the snapshot was sent, unless a Raft snapshot was installed on the running daemon. |
| `EventProofs` | `StreamCompleteHolds` (`StreamComplete`) | For any instance, every matching event numbered after the high-water mark of watch.sync is received on that stream or a drop was recorded. |
| `EventProofs` | `DeadHadReason` | For any nodes, faults, elections and buffer, a member is marked dead only when it did not answer the ping just sent or a presence lease of it has expired in the log (`DeadWasAbsent`). |
| `ClientProofs` | `RepeatsAreEvicted` (`SecondOnlyAfterEviction`) | For any cache size, concurrent handlers, retries, relays and restarts, a daemon emits an id again only when a cacheful of other events was admitted after it. |
| `ClientProofs` | `AddressedPeersHear` (`PeersHear`) | For any daemons and calls, a peer that was addressed has emitted the event, is handling it or its relay is under way, unless the relay was lost or one of the two daemons restarted. |
| `ClientProofs` | `RenewedHolds` (`RenewedIsReleasable`) | For any connections, goroutines, losses, timeouts, elections and expiries, the live grant that an open connection of one goroutine renews is the one in its map, where Unlock and Close find it. |
| `ClientProofs` | `CloseHolds` (`CloseReleases`) | For any instance, a connection used by one goroutine whose Close has returned has no grant left, after lost answers, expiries and timed-out unlocks; excused are those whose Lock or Close ran out of time, that were answered NOT_LEADER, or that were closed over a call in flight. |
| `OperatorProofs` | `SeedIsWhereInitRan` (`InitAndBootstrapTogether`) | For any number of hosts and overlapping reconcilers, whatever fails, restarts or changes readiness, the seed Deployment is on the node whose disk the init Job initialised, as long as the user leaves the choice to the operator. |
| `OperatorProofs` | `VolumeHasOneDaemon` (`OneDaemonOnVolume`) | For any voterCount, faults and edits, a single reconciler never has the bootstrap daemon and pod 0 of the StatefulSet on one volume. |
| `StateProofs` | `ServedFilesAreStored` (`FilesFollowStore`) | For any number of inits, concurrent joins, failed writes and kills, a daemon that serves, is not writing for a join and met no error writing its files has the store's CA, certificate and key in them. |
| `StateProofs` | `IssuerFitsCA` (`IssuerConsistent`) | A stored CA key is always the key of the stored CA certificate. |
| `StateProofs` | `JoinIsTrusted` (`JoinedIsTrusted`) | For any number of inits, concurrent joins, failed writes and kills, a node that has joined is reachable from its peers and reaches them, and serves the clients on its machine unless writing its files failed. |
| `StateProofs` | `NodeIDSurvives` (`NodeIDKept`) | Without init --force, every start runs under the node id of the first one, whatever was killed in between. |
| `DaemonProofs` | `LeaseAlwaysFits` (`LeaseFits`) | Whatever timings file and environment give, the load is never refused, and Raft refuses the lease only when a zero stands for its own default. |
| `DaemonProofs` | `UnitsOutliveUsers` (`DependenciesOutlive`) | For any units, failures and signals, a unit is closed only after the units started on top of it, and Raft is live as long as the server answers. |
| `DaemonProofs` | `FailuresAreReported` (`FailureReported`) | For any number of failures, whichever of Stop and a failure was noticed first, the exit reports a serve goroutine that failed by itself. |
| `HarnessProofs` | `RoundsLeaveNothing` (`RoundLeavesNothing`) | For any group of core nodes, any number of rounds and any loss of leadership, a soak tick or benchmark sample that is over has left the configuration, the members, the lock and the lease as it found them, no extra node running and no node cut off. |
| `HarnessProofs` | `RunsLeaveNothing` (`NothingLeftBehind`) | For any instance, however a run ends no node is left cut off, and the extra node runs on only when leaving failed under it. |

- **LockGrants.** `hist` records the table at every log position. The inductive
  invariant adds: each table is the previous one with its command applied
  (`HistStep`), every token is at most the counter of its position
  (`TokenBound`), the counter never falls (`NextMonotone`), and every expire
  that is scanned, in flight or committed is justified (`NoEarlyExpire`).
  Without the bounds a new token could not be shown fresh; without the last, an
  expire in flight could end a live grant.
- **The lock contract.** Under the same invariant every step of `LockGrants` maps to a
  grant, an end or a stutter of `FencedLock`; the commit of a release or an expire
  is the step that needs the justification of what is in flight.
- **FSMReplica.** A restart brings back what is on disk, so the invariant says
  that every snapshot is as good as the log up to its index (`SnapshotSound`).
  For members it only says that the accepted ones are covered: a list may hold
  more, which is why `LeftIsGone` fails. The limit needs only that the tables of
  a replica are those of some log position, and that no command takes a table
  over the limit. That a token names one grant, on any two nodes at any two
  positions, is a statement about the history: the counter never falls, every
  token comes from it, and a command takes grants away or gives one with the next
  number (`Fenced`, `Gives`, the same argument for locks and leases).
- **LockService.** A holder that asks again is given the token the table has, so
  `OneClientPerToken` is not inductive: what the table says of a token must fit
  every client that was ever told of it (`OwnInv`), tokens come from the counter
  and name one grant (`Sound`). A renewal that reuses a TTL carries the one of
  the grant it will find, and a call to a daemon that knew its role gets no
  further than that daemon (`CallInv`).
- **SDKClient.** For a connection of one goroutine the invariant says where its
  grant is: in the map, or in the answer of the call under way (`Accounted`), and
  that what is renewed is what the map holds (`Releasable`), from the position of
  its goroutine (`ThreadInv`). A step of another connection or of the daemon moves
  none of these (`Calm`). For goroutines that share a connection it is false, see
  `SharedIsReleasable` above.
- **Cluster.** The handlers check first and commit later, so the invariant follows
  each request: whoever is about to be listed has been accepted or joined without a
  Raft address (`AcceptedInv`),
  an id that has left is not listed (`DroppedInv`), and what a request that has
  been alone so far has seen or done still holds (`AloneInv`).
- **Watch.** `StreamInv` follows each event from the change over the number to the
  channel. Of each key it says that whoever is about to report it reports its
  current value, that the last event queued about it tells that value, and that
  the client's view has it once the snapshot has been sent and nothing about it is
  queued (`KeyInv`). An event the client is owed is numbered or in the channel,
  unless a drop was recorded (`DueInv`). `KeyInv` becomes true of a key when the
  snapshot shows it, which needs the channel to be there already.
- **Presence.** `DeadForAReason` is false because an event may be handled late. What
  holds is weaker and needs that every event in a watcher's queue is an expiry of
  the log (`ExpiryInv`), through replays and crashes.
- **Publish.** The cache holds the last ids it admitted, as many as fit (`Window`),
  so equal ids lie more than a cache apart (`Spread`). Events are emitted later and
  in any order; each handler and each event carries the number under which its id
  was admitted (`NumberInv`), and every id admitted is being handled or emitted
  (`HeardInv`). So a relay refused as a duplicate is one of an event the peer has
  or is about to have, and whatever is owed is under way or heard (`OwedInv`).
- **Operator.** A reconciler past the claim works for the seed in the status, and
  one that still has to claim is stale or finds the status empty (`ClaimInv`);
  hence Job, disk and Deployment agree (`JobInv`), the disk with an identity being
  the Job's. With one reconciler, the StatefulSet exists only after the token
  is stored and the Job is gone (`VolumeInv`); two break this, see above.
- **DataDir.** `FilesFollowStore` starts to hold with the last file, so the
  invariant follows each writer, a starting daemon (`Placed`) or a join
  (`JoinsPlaced`): it writes what the store holds, and what it has written is in
  the files. Command and daemon exclude each other through the database's lock
  (`OneWriter`). A node that has joined, or whose join is writing, holds a
  certificate of the cluster, and a daemon that asks to join serves as the cluster
  does (`Trusted`); this needs no file and survives failed writes. `NodeIDKept` compares two daemons; the invariant compares
  both with the configuration they were started from (`IdInv`).
- **App.** The open units are an initial part of the started ones, and the
  server's is open while the server runs (`UnitInv`); every serve goroutine is
  running, has a result in the channel or was read, and a failure is in the
  channel until it is the error (`ServeInv`); the timings are clamped from the
  moment they are loaded (`CfgInv`).
- **Harness.** What a round adds may be there only between the step that adds it
  and the step that takes it away: the extra voter, the extra member, the lock and
  the lease each have their positions in the tick (`TickInv`), and so have the
  running extra node and the node that is cut off (`CutInv`). A tick that leaves
  its grant to the expirer calls nobody to end it; it only polls the tables, which
  lag. So the invariant also says that while the grant is committed some core node
  has applied it and has no command ahead that ends it (`Shows`), and a poll that
  finds no table with the grant proves that it is gone. The lemmas on the scripts
  say which step stands at which position, for any number of core nodes.

Only model-checked:

- Everything about progress (`NoHolderForever`, `DeadlineEndsCall`, the three
  properties of Presence, `Deploys`, `Exits`, `RunEnds`): liveness under fairness
  is beyond these provers.

## What is not modelled

- Raft's own protocol, gRPC, the contents of certificates, bolt, Kubernetes:
  external; modelled by what the code relies on.
- Validation of names and topics, parsing of files, the command line's output,
  health and list queries, generated code and examples:
  they hold no state that a step of another component could disturb.
- The report, flags and resource figures of the soak and benchmark tools.
- `AcquiredAt` and `GrantedAt`, which replicas stamp themselves and nothing
  reads.
- LeaseService's own routing, which is the lock service's without waiting.

Limits of the models:

- LockService: one committed table for all daemons (replication is LockGrants');
  a client whose context ended is told when its handler ends.
- Presence: a leader's scan and commit of one expiry is one step; a node that
  reaches the leader knows its address.
- Cluster: the committed list only; a node's view of the leader is Raft's.
- Watch: one client, the stream is a rendezvous. Publish: emitting on the bus and
  starting the relays is one step.
- SDKClient: time is reduced to expiries and timeouts.
- Operator: a pass ends at the first Snapshot, which is always refused; what
  follows it in the code (the leave and join loops, the roles of the pods, the
  phase Ready) is never run and not modelled. `voterCount` is constant, the warning
  column is left out, Get followed by Create is one call whose AlreadyExists aborts
  the pass. The bootstrap daemon of the Sidecar topology binds the name of
  StatefulSet pod 0 (internal/operator/sidecar.go:108), before that pod exists;
  `BootstrapServes` assumes that the cluster's DNS resolves it in the Job's pod, and
  `BootstrapExits` is the start that finds it does not.
- DataDir: a bolt transaction is one step, and so is the write of one file: two
  joins may interleave their files but not the bytes of one. A stopping daemon
  lets its joins finish. All nodes agree on the TLS mode.
- App: units that start nothing are left out; a data race on the pointer is read
  as an interleaving of loads and stores.
- Harness: the names of a tick are reused by the next, one round of polling is a
  step.
