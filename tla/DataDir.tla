--------------------------------- MODULE DataDir -------------------------------
(***************************************************************************)
(* One node's data.dir under clusdr init, start and join: clusdr.yaml, the *)
(* state database (internal/store) and the PEM files (internal/mtls), with *)
(* joins that run concurrently, file writes that fail and the process      *)
(* killed between any two writes; and what the certificates in it are good *)
(* for: the TLS handshakes with the peers of the cluster that the node has *)
(* joined.                                                                 *)
(*                                                                         *)
(* Every init and every issued certificate has a number of its own; it     *)
(* stands for the ids, the CA and the key pair made then.  Cluster stands  *)
(* for the id and the CA of the cluster that is joined, None for absent.   *)
(* A bolt transaction is one step; each file is written by a step, and one *)
(* that a kill or an error cuts off is the old file or is unreadable       *)
(* (None).  The TLS mode is the same on every node; the cluster's have     *)
(* certificates.                                                           *)
(***************************************************************************)
EXTENDS Naturals

CONSTANTS
    Join,          \* the RequestJoin handlers that may run at once
    MaxMade,       \* bound: inits and issued certificates
    MaxKills,      \* bound: processes killed
    MaxFails       \* bound: file writes that fail

ASSUME BoundAssumption == MaxMade \in Nat /\ MaxKills \in Nat /\ MaxFails \in Nat

VARIABLES
    conf,      \* clusdr.yaml: node id and cluster id
    store,     \* state.db: identity, CA certificate, CA key, node certificate and key
    files,     \* ca.crt, node.crt, node.key
    cli,       \* the init command: place and the number it made
    daemon,    \* the daemon: place, node id and cluster id it runs under, and
               \* whether it serves TLS
    cluster,   \* the cluster joined: the certificates it issued, whether this
               \* node is on its member list, and whether TLS is enabled
    join,      \* per RequestJoin handler: place, the certificate it stored and the
               \* next file it writes
    writing,   \* WriteFiles of init and start: the next file, Written when none,
               \* and with what
    made,      \* numbers used
    kills,
    fails,
    ghost      \* the last init exited 0; the id served before; an init --force has
               \* replaced the configuration and not finished; a join succeeded
               \* and no init has replaced the certificates since; the last write
               \* of the files failed, or joins overlapped in it

bounds == <<kills, fails>>
dataDirVars == <<conf, store, files, cli, daemon, join, writing, made, bounds, ghost, cluster>>

None == 0
Cluster == MaxMade + 1
Number == 0 .. Cluster
PEM == <<"ca", "cert", "key">>
Written == 4
Quiet == [next |-> Written, ca |-> None, node |-> None]
JoinAt(pc) == [pc |-> pc, node |-> None, next |-> Written]
NoJoin == JoinAt("idle")
NoFile == [id |-> None, cluster |-> None]
Down == [pc |-> "down", id |-> None, cluster |-> None, tls |-> FALSE]

DataDirInit ==
    /\ conf = NoFile
    /\ store = [id |-> None, ca |-> None, cakey |-> None, node |-> None]
    /\ files = [f \in {"ca", "cert", "key"} |-> None]
    /\ cli = [pc |-> "idle", n |-> None]
    /\ daemon = Down
    /\ join = [j \in Join |-> NoJoin]
    /\ writing = Quiet
    /\ made = 0
    /\ kills = 0 /\ fails = 0
    /\ ghost = [ok |-> FALSE, id |-> None, forced |-> FALSE, joined |-> FALSE, torn |-> FALSE]
    /\ cluster \in [issued : {{}}, listed : {FALSE}, tls : BOOLEAN]

HasCerts == store.ca # None /\ store.node # None

(* A process holds the database's file lock from open to exit.             *)
Locked == daemon.pc # "down" \/ cli.pc \in {"certs", "files"}

Write(ca, node) == writing' = [next |-> 1, ca |-> ca, node |-> node]

(* os.WriteFile of the k-th file.                                          *)
WriteFile(k, ca, node) == files' = [files EXCEPT ![PEM[k]] = IF k = 1 THEN ca ELSE node]

(* Writes that are cut off: each file is as it was, or unreadable.         *)
CutOff(cut) ==
    \E lost \in SUBSET cut : files' = [f \in DOMAIN files |-> IF f \in lost THEN None ELSE files[f]]

JoinWriting(j) == join[j].pc = "writing"

(* The files the daemon's joins, or init or start, are writing.            *)
OpenByJoins == {PEM[join[j].next] : j \in {i \in Join : join[i].next # Written}}
OpenByMain == IF writing.next = Written THEN {} ELSE {PEM[writing.next]}

--------------------------------------------------------------------------------
(* Certificates and handshakes                                             *)

(* A new CA signs itself and the certificate of the node that made it.     *)
Generate(n) == [ca |-> n, cakey |-> n, node |-> n]

(* The CA whose key signed certificate n.                                  *)
Signer(n) == IF n \in cluster.issued THEN Cluster ELSE n

(* verifyPeer: the certificate shown is one that the roots' key signed.    *)
Verifies(n, roots) == n # None /\ Signer(n) = roots

(* The server verifies a client certificate if it is shown one.            *)
Accepts(n) == n = None \/ Verifies(n, store.ca)

(* Every call but Join and Health needs a client certificate.              *)
RequirePeerCert(n) == n # None

(* A peer with the cluster's CA dials this daemon, whose server loads the  *)
(* store for every handshake; a plaintext server understands no TLS.       *)
ServesPeers ==
    /\ daemon.tls = cluster.tls
    /\ daemon.tls => Verifies(store.node, Cluster)

(* This daemon dials a peer, whose certificate the cluster's CA signed, and *)
(* the peer looks at the certificate it is shown.                          *)
ReachesPeers ==
    cluster.tls => HasCerts /\ store.ca = Cluster /\ Verifies(store.node, Cluster)

(* LoadFiles: all three PEM files, a certificate and the key that fits.    *)
FilesLoad == files["ca"] # None /\ files["cert"] # None /\ files["cert"] = files["key"]

(* A client of the SDK on this machine needs the files.                    *)
AppReaches ==
    /\ daemon.tls = cluster.tls
    /\ daemon.tls => /\ FilesLoad
                     /\ Verifies(store.node, files["ca"])
                     /\ Accepts(files["cert"])

(* A command shows no certificate when it cannot load the files.           *)
ClientFromDir == IF FilesLoad THEN files["cert"] ELSE None

CommandReaches ==
    /\ daemon.tls = cluster.tls
    /\ daemon.tls => /\ RequirePeerCert(ClientFromDir) /\ Accepts(ClientFromDir)
                     /\ Verifies(store.node, files["ca"])

(* The daemon dials a seed as it serves itself, decided when it started.   *)
DialsSeed == daemon.tls = cluster.tls

--------------------------------------------------------------------------------
(* clusdr init                                                             *)

(* Slip: an existing configuration is not looked for.                      *)
InitCallUnchecked(force) ==
    /\ cli.pc = "idle" /\ made < MaxMade
    /\ conf' = [id |-> made + 1, cluster |-> made + 1]
    /\ made' = made + 1
    /\ cli' = [pc |-> "identity", n |-> made + 1]
    /\ ghost' = [ghost EXCEPT !.ok = FALSE]
    /\ UNCHANGED <<store, files, daemon, join, writing, bounds, cluster>>

(* It asks the store for an identity, if it can open it.                   *)
AlreadyInitialized == ~Locked /\ store.id # None

(* An answer from the store, or a new configuration before anything else.  *)
InitCall(force) ==
    /\ cli.pc = "idle"
    /\ IF conf # NoFile /\ ~force
       THEN /\ ghost' = [ghost EXCEPT !.ok = AlreadyInitialized]
            /\ UNCHANGED <<conf, made, cli>>
       ELSE /\ made < MaxMade
            /\ conf' = [id |-> made + 1, cluster |-> made + 1]
            /\ made' = made + 1
            /\ cli' = [pc |-> "identity", n |-> made + 1]
            /\ ghost' = [ghost EXCEPT !.ok = FALSE, !.forced = @ \/ force]
    /\ UNCHANGED <<store, files, daemon, join, writing, bounds, cluster>>

(* store.Open waits for the daemon's lock and gives up.                    *)
SaveIdentity ==
    /\ cli.pc = "identity"
    /\ IF Locked
       THEN cli' = [pc |-> "idle", n |-> None] /\ UNCHANGED store
       ELSE /\ store' = [store EXCEPT !.id = cli.n]
            /\ cli' = [cli EXCEPT !.pc = "certs"]
    /\ UNCHANGED <<conf, files, daemon, join, writing, made, bounds, ghost, cluster>>

SaveCerts ==
    /\ cli.pc = "certs"
    /\ LET bundle == Generate(cli.n) IN
       /\ store' = [store EXCEPT !.ca = bundle.ca, !.cakey = bundle.cakey,
                                 !.node = bundle.node]
       /\ Write(bundle.ca, bundle.node)
    /\ cli' = [cli EXCEPT !.pc = "files"]
    /\ ghost' = [ghost EXCEPT !.joined = FALSE]
    /\ UNCHANGED <<conf, files, daemon, join, made, bounds, cluster>>

InitDone ==
    /\ cli.pc = "files"
    /\ writing.next = Written
    /\ cli' = [pc |-> "idle", n |-> None]
    /\ ghost' = [ghost EXCEPT !.ok = TRUE, !.id = None, !.forced = FALSE]
    /\ writing' = Quiet
    /\ UNCHANGED <<conf, store, files, daemon, join, made, bounds, cluster>>

(* A file cannot be written: init exits 1; start warns and serves.         *)
MainWriteFails ==
    /\ writing.next # Written /\ fails < MaxFails
    /\ fails' = fails + 1
    /\ CutOff(OpenByMain)
    /\ writing' = Quiet
    /\ IF cli.pc = "files"
       THEN cli' = [pc |-> "idle", n |-> None] /\ UNCHANGED ghost
       ELSE ghost' = [ghost EXCEPT !.torn = TRUE] /\ UNCHANGED cli
    /\ UNCHANGED <<conf, store, daemon, join, made, kills, cluster>>

MainWrites ==
    /\ writing.next # Written
    /\ WriteFile(writing.next, writing.ca, writing.node)
    /\ writing' = [writing EXCEPT !.next = @ + 1]
    /\ UNCHANGED <<conf, store, cli, daemon, join, made, bounds, ghost, cluster>>

--------------------------------------------------------------------------------
(* clusdr start, clusdr join                                               *)

(* Slip: the files a past run wrote are taken to be current.               *)
StartTrusting ==
    /\ ~Locked
    /\ daemon' = [pc |-> "starting",
                  id |-> IF conf.id # None THEN conf.id ELSE store.id,
                  cluster |-> IF conf.cluster # None THEN conf.cluster ELSE store.id,
                  tls |-> cluster.tls /\ HasCerts]
    /\ ghost' = [ghost EXCEPT !.torn = @ /\ ~daemon'.tls]
    /\ UNCHANGED <<conf, store, files, cli, join, writing, made, bounds, cluster>>

(* The configuration's ids, else the store's; then the store's PEMs are    *)
(* written out again.                                                      *)
Start ==
    /\ ~Locked
    /\ daemon' = [pc |-> "starting",
                  id |-> IF conf.id # None THEN conf.id ELSE store.id,
                  cluster |-> IF conf.cluster # None THEN conf.cluster ELSE store.id,
                  tls |-> cluster.tls /\ HasCerts]
    /\ IF daemon'.tls THEN Write(store.ca, store.node) ELSE UNCHANGED writing
    /\ ghost' = [ghost EXCEPT !.torn = @ /\ ~daemon'.tls]
    /\ UNCHANGED <<conf, store, files, cli, join, made, bounds, cluster>>

Serve ==
    /\ daemon.pc = "starting"
    /\ writing.next = Written
    /\ daemon' = [daemon EXCEPT !.pc = "up"]
    /\ ghost' = [ghost EXCEPT !.id = IF @ = None THEN daemon.id ELSE @]
    /\ writing' = Quiet
    /\ UNCHANGED <<conf, store, files, cli, join, made, bounds, cluster>>

(* The seed refuses a missing node id, and both cluster ids given and      *)
(* different.                                                              *)
RequestJoin(j) ==
    /\ daemon.pc = "up" /\ join[j].pc = "idle" /\ CommandReaches /\ DialsSeed
    /\ daemon.id # None /\ daemon.cluster \in {None, Cluster}
    /\ join' = [join EXCEPT ![j] = JoinAt("asking")]
    /\ UNCHANGED <<conf, store, files, cli, daemon, writing, made, bounds, ghost, cluster>>

(* The leader commits the membership before it issues a certificate.       *)
JoinCommit(j) ==
    /\ join[j].pc = "asking"
    /\ join' = [join EXCEPT ![j] = JoinAt("listed")]
    /\ cluster' = [cluster EXCEPT !.listed = TRUE]
    /\ UNCHANGED <<conf, store, files, cli, daemon, writing, made, bounds, ghost>>

(* CheckToken, at the node asked and at the leader; or no leader answers.  *)
JoinRefused(j) ==
    /\ join[j].pc = "asking"
    /\ join' = [join EXCEPT ![j] = NoJoin]
    /\ UNCHANGED <<conf, store, files, cli, daemon, writing, made, bounds, ghost, cluster>>

(* The leader has no CA key, or its answer is lost.                        *)
JoinUnanswered(j) ==
    /\ join[j].pc = "listed"
    /\ join' = [join EXCEPT ![j] = NoJoin]
    /\ UNCHANGED <<conf, store, files, cli, daemon, writing, made, bounds, ghost, cluster>>

(* The leader's CA key signs a certificate for the joiner.                 *)
IssueNode(n) ==
    /\ made < MaxMade
    /\ made' = n
    /\ cluster' = [cluster EXCEPT !.issued = @ \cup {n}]

(* The files follow; nothing keeps two joins from writing them at once.    *)
WriteJoinFiles(j) ==
    /\ join' = [join EXCEPT ![j] = [pc |-> "writing", node |-> made + 1, next |-> 1]]
    /\ ghost' = [ghost EXCEPT !.torn = \E i \in Join \ {j} : JoinWriting(i)]

(* Slip: the CA key of an earlier init stays.                              *)
SaveJoinCertsOnly(j) ==
    /\ join[j].pc = "listed" /\ IssueNode(made + 1)
    /\ store' = [store EXCEPT !.ca = Cluster, !.node = made + 1]
    /\ WriteJoinFiles(j)
    /\ UNCHANGED <<conf, files, cli, daemon, writing, bounds>>

(* Slip: the CA certificate of an earlier init stays.                      *)
SaveJoinCertsOldCA(j) ==
    /\ join[j].pc = "listed" /\ IssueNode(made + 1)
    /\ store' = [store EXCEPT !.ca = IF @ = None THEN Cluster ELSE @,
                              !.node = made + 1, !.cakey = None]
    /\ WriteJoinFiles(j)
    /\ UNCHANGED <<conf, files, cli, daemon, writing, bounds>>

(* One transaction stores the certificate that was issued and drops the CA *)
(* key.                                                                    *)
SaveJoinCerts(j) ==
    /\ join[j].pc = "listed" /\ IssueNode(made + 1)
    /\ store' = [store EXCEPT !.ca = Cluster, !.node = made + 1, !.cakey = None]
    /\ WriteJoinFiles(j)
    /\ UNCHANGED <<conf, files, cli, daemon, writing, bounds>>

JoinWrites(j) ==
    /\ JoinWriting(j) /\ join[j].next # Written
    /\ WriteFile(join[j].next, Cluster, join[j].node)
    /\ join' = [join EXCEPT ![j] = [pc |-> "writing", node |-> join[j].node,
                                    next |-> join[j].next + 1]]
    /\ UNCHANGED <<conf, store, cli, daemon, writing, made, bounds, ghost, cluster>>

(* The join answers Internal; its transaction stands, the daemon serves.   *)
JoinWriteFails(j) ==
    /\ JoinWriting(j) /\ join[j].next # Written /\ fails < MaxFails
    /\ fails' = fails + 1
    /\ CutOff({PEM[join[j].next]})
    /\ join' = [join EXCEPT ![j] = NoJoin]
    /\ ghost' = [ghost EXCEPT !.torn = TRUE]
    /\ UNCHANGED <<conf, store, cli, daemon, writing, made, kills, cluster>>

Joined(j) ==
    /\ JoinWriting(j) /\ join[j].next = Written
    /\ join' = [join EXCEPT ![j] = NoJoin]
    /\ ghost' = [ghost EXCEPT !.joined = TRUE]
    /\ UNCHANGED <<conf, store, files, cli, daemon, writing, made, bounds, cluster>>

(* A stop lets the handlers finish; one that does not is a kill.           *)
Stop ==
    /\ daemon.pc = "up" /\ \A j \in Join : join[j] = NoJoin
    /\ daemon' = Down
    /\ UNCHANGED <<conf, store, files, cli, join, writing, made, bounds, ghost, cluster>>

(* The operator writes a joiner's configuration without init.              *)
WriteConfig ==
    /\ conf = NoFile /\ cli.pc = "idle" /\ made < MaxMade
    /\ conf' = [id |-> made + 1, cluster |-> None]
    /\ made' = made + 1
    /\ UNCHANGED <<store, files, cli, daemon, join, writing, bounds, ghost, cluster>>

(* The joiner's configuration is given the cluster's id.                   *)
CopyClusterID ==
    /\ conf.cluster # Cluster
    /\ cli.pc = "idle"
    /\ conf' = [conf EXCEPT !.cluster = Cluster]
    /\ UNCHANGED <<store, files, cli, daemon, join, writing, made, bounds, ghost, cluster>>

KillDaemon ==
    /\ daemon.pc # "down" /\ kills < MaxKills
    /\ kills' = kills + 1
    /\ daemon' = Down
    /\ join' = [j \in Join |-> NoJoin]
    /\ CutOff(OpenByJoins \cup OpenByMain)
    /\ writing' = Quiet
    /\ UNCHANGED <<conf, store, cli, made, fails, ghost, cluster>>

KillInit ==
    /\ cli.pc # "idle" /\ kills < MaxKills
    /\ kills' = kills + 1
    /\ cli' = [pc |-> "idle", n |-> None]
    /\ IF cli.pc = "files"
       THEN CutOff(OpenByMain) /\ writing' = Quiet
       ELSE UNCHANGED <<files, writing>>
    /\ UNCHANGED <<conf, store, daemon, join, made, fails, ghost, cluster>>

JoinNext(j) ==
    \/ RequestJoin(j) \/ JoinRefused(j) \/ JoinCommit(j) \/ JoinUnanswered(j)
    \/ SaveJoinCerts(j) \/ JoinWrites(j) \/ JoinWriteFails(j) \/ Joined(j)

DataDirNext ==
    \/ InitCall(FALSE) \/ InitCall(TRUE)
    \/ SaveIdentity \/ SaveCerts \/ InitDone \/ MainWrites \/ MainWriteFails
    \/ Start \/ Serve \/ Stop
    \/ \E j \in Join : JoinNext(j)
    \/ WriteConfig \/ CopyClusterID \/ KillDaemon \/ KillInit

DataDirSpec == DataDirInit /\ [][DataDirNext]_dataDirVars

--------------------------------------------------------------------------------
(* Properties                                                              *)

(* The daemon serves, and nobody is writing the PEM files.                 *)
Settled == daemon.pc = "up" /\ \A j \in Join : ~JoinWriting(j)

(* InitGRPC and joinBoot: while the daemon serves TLS and nobody writes    *)
(* them, the PEM files clients load are the store's certificate, key and   *)
(* CA, whatever was killed and whatever write failed before.  Only a       *)
(* failed write or joins that overlap in it can leave other files, until   *)
(* the next start or join has written them.                                *)
FilesFollowStore ==
    Settled /\ daemon.tls /\ ~ghost.torn =>
        files = [ca |-> store.ca, cert |-> store.node, key |-> store.node]

(* SaveJoinCerts: a node that still has a CA key has the CA certificate of *)
(* that key, so what it issues to a joiner verifies.                       *)
IssuerConsistent == store.cakey # None => store.ca = store.cakey

(* InitStore: a restart with the same data.dir runs under the node id it   *)
(* had before, as long as no init succeeded in between, whatever was       *)
(* killed.  An unfinished init --force is the exception: it replaces       *)
(* clusdr.yaml before it opens the store.                                  *)
NodeIDKept ==
    daemon.pc = "up" /\ ghost.id # None /\ ~ghost.forced => daemon.id = ghost.id

(* ReloadableServerTLS, peerTransportCreds: once a join has succeeded, the *)
(* daemon and the cluster's peers accept each other's certificates, at     *)
(* once and after every restart, whatever was killed, whatever later join  *)
(* failed or overlapped and whatever file was not written, until an init   *)
(* replaces the certificates.  So do the daemon and the apps on its        *)
(* machine, which load the PEM files, unless the last write of the files   *)
(* failed or joins overlapped in it.                                       *)
JoinedIsTrusted ==
    ghost.joined /\ daemon.pc # "down" =>
        /\ ServesPeers /\ ReachesPeers
        /\ Settled /\ ~ghost.torn => AppReaches

(* "Start the joiner" and "Join" (docs/guide/grow.md): a daemon started on *)
(* a fresh data.dir with an empty cluster.id can be told to join.          *)
FreshNodeJoins ==
    daemon.pc = "up" /\ daemon.id # None /\ daemon.cluster = None =>
        \A j \in Join : join[j] = NoJoin => ENABLED RequestJoin(j)

(* "bootstraps membership plus a CA-issued node certificate"               *)
(* (cmd/clusdr/join.go): a node on the member list has a certificate that  *)
(* its peers accept.                                                       *)
ListedIsTrusted == cluster.listed /\ daemon.pc = "up" => ReachesPeers

(* "--force only if you intend to replace config and the token"            *)
(* (docs/reference/cli/init.md): no other init changes the node id.        *)
ForceReplacesBoth == daemon.pc = "up" /\ ghost.id # None => daemon.id = ghost.id

(* alreadyInitialized: an init that exits 0 leaves a CA and a certificate. *)
InitMeansUsable == ghost.ok => HasCerts

================================================================================
