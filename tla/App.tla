----------------------------------- MODULE App ---------------------------------
(***************************************************************************)
(* The daemon's lifecycle (internal/app): InitApp runs the units in order, *)
(* Wait blocks until a serve goroutine ends or Stop is called, Close runs  *)
(* the CloseFns in reverse within the shutdown grace, and the results of   *)
(* the serve goroutines are drained.  Beside it run the gRPC server's      *)
(* handlers and the goroutine that announces this node to the leader.      *)
(*                                                                         *)
(* Units that only allocate (logger, membership, bus, locks, leases) are   *)
(* left out; config and announce close nothing.  Every load of the shared  *)
(* pointer a.Consensus is a step of its own.                               *)
(***************************************************************************)
EXTENDS Config, Sequences, FiniteSets, FiniteSetsExt

CONSTANTS
    Call,          \* unary calls, which end by themselves
    Stream,        \* streams, which last as long as the client likes
    MaxServeFails  \* bound: serve goroutines that fail by themselves

VARIABLES
    main,      \* the main goroutine's place
    up,        \* units started and not closed, by index in Units
    next,      \* the unit InitApp runs next
    serve,     \* serve goroutines: started, running, results unread
    wait,      \* Wait: whether a result was taken in the select, the error; why
               \* the timings were refused
    server,    \* the gRPC server: new, up, graceful, stopped
    rpc,       \* handlers running
    seen,      \* calls and streams that came in
    grace,     \* the shutdown grace is over
    raft,      \* a.Consensus: nil, live, or shut down and not yet nil
    ann,       \* the announcing goroutine
    stop,      \* Stop was called
    fails,
    cfg        \* a.Cfg; zero values until the configuration is loaded

appVars == <<main, up, next, serve, wait, server, rpc, seen, grace, raft, ann, stop, fails, cfg>>

Units == <<"config", "store", "consensus", "grpc", "heartbeat", "presence", "announce">>
Closing == {k \in DOMAIN Units : Units[k] \notin {"config", "announce"}}

AppInit ==
    /\ main = "init"
    /\ up = {}
    /\ next = 1
    /\ serve = [count |-> 0, running |-> 0, results |-> <<>>]
    /\ wait = [taken |-> FALSE, err |-> FALSE, why |-> "none"]
    /\ server = "new"
    /\ rpc = {} /\ seen = {}
    /\ grace = FALSE
    /\ raft = "nil"
    /\ ann = "none"
    /\ stop = FALSE
    /\ fails = 0
    /\ cfg = [k \in Key |-> 0]

Alive == main \notin {"exit", "panicked"}

--------------------------------------------------------------------------------
(* The main goroutine                                                      *)

InitConfig ==
    \E file \in Files, env \in Environments :
        /\ Validate(LoadFrom(file, env))
        /\ cfg' = LoadFrom(file, env)

(* The control socket may be unavailable: one or two serve goroutines.     *)
(* Announcing that did not succeed in time goes on in the background.      *)
InitUnit ==
    /\ main = "init"
    /\ next <= Len(Units)
    /\ Units[next] = "consensus" => Refusal(cfg) = "none"
    /\ IF Units[next] = "config" THEN InitConfig ELSE UNCHANGED cfg
    /\ up' = up \cup ({next} \cap Closing)
    /\ next' = next + 1
    /\ raft' = IF Units[next] = "consensus" THEN "live" ELSE raft
    /\ \/ /\ Units[next] = "grpc"
          /\ server' = "up"
          /\ \E n \in 1 .. 2 : serve' = [serve EXCEPT !.count = n, !.running = n]
          /\ UNCHANGED ann
       \/ /\ Units[next] = "announce"
          /\ ann' \in {"none", "loop"}
          /\ UNCHANGED <<server, serve>>
       \/ /\ Units[next] \notin {"grpc", "announce"}
          /\ UNCHANGED <<server, serve, ann>>
    /\ UNCHANGED <<main, wait, rpc, seen, grace, stop, fails>>

(* What a unit that fails may say of the timings; it may also fail for     *)
(* another reason.                                                         *)
Refusals(unit) ==
    CASE unit = "config" ->
            {"none"} \cup {"invalid" : s \in {s \in Files \X Environments :
                                                ~Validate(LoadFrom(s[1], s[2]))}}
      [] unit = "consensus" -> {Refusal(cfg)}
      [] OTHER -> {"none"}

(* The failing unit's own CloseFn is not run.  A file may be unreadable, a *)
(* store locked, an address taken: any unit may fail.                      *)
InitFails ==
    /\ main = "init"
    /\ next <= Len(Units)
    /\ main' = "close"
    /\ \E why \in Refusals(Units[next]) : wait' = [wait EXCEPT !.err = TRUE, !.why = why]
    /\ UNCHANGED <<up, next, serve, server, rpc, seen, grace, raft, ann, stop, fails, cfg>>

(* The select of Wait: either ready case may be taken.                     *)
Wait ==
    /\ main = "init" /\ next > Len(Units)
    /\ main' = "close"
    /\ \/ /\ serve.results # <<>>
          /\ wait' = [wait EXCEPT !.taken = TRUE, !.err = Head(serve.results)]
          /\ serve' = [serve EXCEPT !.results = Tail(@)]
       \/ /\ stop
          /\ UNCHANGED <<wait, serve>>
    /\ UNCHANGED <<up, next, server, rpc, seen, grace, raft, ann, stop, fails, cfg>>

(* Slip: the CloseFns run in the order they were registered.               *)
LastFirstStarted == Min(up)

(* CloseFns run in reverse.                                                *)
Last == Max(up)

(* Stop waits for the monitor's goroutine.                                 *)
CloseUnit ==
    /\ main = "close" /\ up # {}
    /\ Units[Last] \notin {"grpc", "consensus"}
    /\ Units[Last] = "heartbeat" => cfg.interval > 0
    /\ up' = up \ {Last}
    /\ UNCHANGED <<main, next, serve, wait, server, rpc, seen, grace, raft, ann, stop, fails, cfg>>

(* Slip: nothing cuts a stream that its client keeps open.                 *)
CloseGRPCGraceful ==
    /\ main = "close" /\ up # {} /\ Units[Last] = "grpc"
    /\ IF server = "up" THEN server' = "graceful" /\ UNCHANGED up
       ELSE rpc = {} /\ server' = "stopped" /\ up' = up \ {Last}
    /\ UNCHANGED <<main, next, serve, wait, rpc, seen, grace, raft, ann, stop, fails, cfg>>

(* GracefulStop waits for the handlers, and Stop ends it after the grace.  *)
CloseGRPC ==
    /\ main = "close" /\ up # {} /\ Units[Last] = "grpc"
    /\ IF server = "up" THEN server' = "graceful" /\ UNCHANGED up
       ELSE (rpc = {} \/ grace) /\ server' = "stopped" /\ up' = up \ {Last}
    /\ UNCHANGED <<main, next, serve, wait, rpc, seen, grace, raft, ann, stop, fails, cfg>>

(* Shutdown cancels the node's context; then the pointer is cleared, but   *)
(* not when Shutdown reported an error.                                    *)
CloseConsensus ==
    /\ main = "close" /\ up # {} /\ Units[Last] = "consensus"
    /\ IF raft = "live" THEN raft' = "shut" /\ UNCHANGED up
       ELSE raft' \in {"nil", "shut"} /\ up' = up \ {Last}
    /\ UNCHANGED <<main, next, serve, wait, server, rpc, seen, grace, ann, stop, fails, cfg>>

(* InitApp returns its error at once; Wait goes on to drain.               *)
Closed ==
    /\ main = "close" /\ up = {}
    /\ main' = IF next <= Len(Units) THEN "exit" ELSE "drain"
    /\ UNCHANGED <<up, next, serve, wait, server, rpc, seen, grace, raft, ann, stop, fails, cfg>>

(* Slip: the last result decides.                                          *)
DrainLast ==
    /\ main = "drain" /\ serve.results # <<>>
    /\ wait' = [wait EXCEPT !.err = Head(serve.results)]
    /\ serve' = [serve EXCEPT !.results = Tail(@), !.count = @ - 1]
    /\ UNCHANGED <<main, up, next, server, rpc, seen, grace, raft, ann, stop, fails, cfg>>

(* drainServeErr keeps the first error; it reads one result per goroutine  *)
(* whose result Wait did not take.                                         *)
Drain ==
    /\ main = "drain" /\ serve.results # <<>>
    /\ wait' = [wait EXCEPT !.err = @ \/ Head(serve.results)]
    /\ serve' = [serve EXCEPT !.results = Tail(@), !.count = @ - 1]
    /\ UNCHANGED <<main, up, next, server, rpc, seen, grace, raft, ann, stop, fails, cfg>>

Exit ==
    /\ main = "drain"
    /\ serve.count = IF wait.taken THEN 1 ELSE 0
    /\ main' = "exit"
    /\ UNCHANGED <<up, next, serve, wait, server, rpc, seen, grace, raft, ann, stop, fails, cfg>>

--------------------------------------------------------------------------------
(* The other goroutines, the clients and the clock                         *)

GraceOver ==
    /\ main = "close" /\ ~grace
    /\ grace' = TRUE
    /\ UNCHANGED <<main, up, next, serve, wait, server, rpc, seen, raft, ann, stop, fails, cfg>>

ServeFails ==
    /\ Alive /\ server = "up" /\ serve.running > 0 /\ fails < MaxServeFails
    /\ fails' = fails + 1
    /\ serve' = [serve EXCEPT !.running = @ - 1, !.results = Append(@, TRUE)]
    /\ UNCHANGED <<main, up, next, wait, server, rpc, seen, grace, raft, ann, stop, cfg>>

ServeReturns ==
    /\ Alive /\ server = "stopped" /\ serve.running > 0
    /\ serve' = [serve EXCEPT !.running = @ - 1, !.results = Append(@, FALSE)]
    /\ UNCHANGED <<main, up, next, wait, server, rpc, seen, grace, raft, ann, stop, fails, cfg>>

Arrives(c) ==
    /\ Alive /\ server = "up" /\ serve.running > 0 /\ c \notin seen
    /\ rpc' = rpc \cup {c} /\ seen' = seen \cup {c}
    /\ UNCHANGED <<main, up, next, serve, wait, server, grace, raft, ann, stop, fails, cfg>>

(* A stream ends when its client leaves or the server cancels it.          *)
Ends(c) ==
    /\ Alive /\ c \in rpc
    /\ rpc' = rpc \ {c}
    /\ UNCHANGED <<main, up, next, serve, wait, server, seen, grace, raft, ann, stop, fails, cfg>>

Signal ==
    /\ Alive /\ next > Len(Units) /\ ~stop
    /\ stop' = TRUE
    /\ UNCHANGED <<main, up, next, serve, wait, server, rpc, seen, grace, raft, ann, fails, cfg>>

(* NewTicker does not take the interval 0.                                 *)
MonitorPanics ==
    /\ Alive /\ \E k \in up : Units[k] = "heartbeat"
    /\ cfg.interval = 0
    /\ main' = "panicked"
    /\ UNCHANGED <<up, next, serve, wait, server, rpc, seen, grace, raft, ann, stop, fails, cfg>>

Quiet == UNCHANGED <<up, next, serve, wait, server, rpc, seen, grace, raft, stop, fails, cfg>>

(* One use of a.Consensus after the nil test.                              *)
Load(then) ==
    IF raft = "nil" THEN main' = "panicked" /\ ann' = "done"
    ELSE ann' = then /\ UNCHANGED main

(* announceUntil: the node's context, then announceSelfOnce: the nil test, *)
(* HasServer (with ServerCount for a node that was removed), IsLeader,     *)
(* ApplyAddMemberAs or Rejoin at the leader.                               *)
Announce ==
    /\ Alive
    /\ \/ ann = "loop" /\ ann' = (IF raft = "live" THEN "test" ELSE "done") /\ UNCHANGED main
       \/ ann = "test" /\ ann' = (IF raft = "nil" THEN "done" ELSE "has") /\ UNCHANGED main
       \/ ann = "has" /\ \E member \in BOOLEAN : Load(IF member THEN "leader" ELSE "gone")
       \/ ann = "gone" /\ ann' = (IF raft = "nil" THEN "done" ELSE "count") /\ UNCHANGED main
       \/ ann = "count" /\ Load("done")
       \/ ann = "leader" /\ \E lead \in BOOLEAN : Load(IF lead THEN "apply" ELSE "rejoin")
       \/ ann = "apply" /\ \E ok \in BOOLEAN : Load(IF ok /\ raft = "live" THEN "done" ELSE "loop")
       \/ ann = "rejoin" /\ ann' \in {"done", "loop"} /\ UNCHANGED main
    /\ Quiet

MainStep ==
    \/ InitUnit \/ Wait \/ CloseUnit \/ CloseGRPC \/ CloseConsensus
    \/ Closed \/ Drain \/ Exit

AppNext ==
    \/ MainStep \/ InitFails \/ GraceOver \/ ServeFails \/ ServeReturns
    \/ Signal \/ Announce \/ MonitorPanics
    \/ \E c \in Call \cup Stream : Arrives(c) \/ Ends(c)

AppSpec == AppInit /\ [][AppNext]_appVars

(* Goroutines run, the grace runs out, unary calls end by themselves.      *)
FairSpec ==
    /\ AppSpec
    /\ WF_appVars(MainStep) /\ WF_appVars(GraceOver) /\ WF_appVars(ServeReturns)
    /\ WF_appVars(MonitorPanics)
    /\ \A c \in Call : WF_appVars(Ends(c))

--------------------------------------------------------------------------------
(* Properties                                                              *)

(* Close: a unit is closed only after every unit that was started on top   *)
(* of it, also when a later unit failed to start: while the server still   *)
(* answers or Raft still runs, what they use is open.                      *)
DependenciesOutlive ==
    /\ \A k \in up : \A j \in Closing : j < k => j \in up
    /\ server \in {"up", "graceful"} => raft = "live"

(* Wait: a serve goroutine that failed by itself is reported by the exit,  *)
(* whichever of Stop and the failure Wait noticed first.                   *)
FailureReported == main = "exit" /\ fails > 0 => wait.err

(* Wait: after a signal or a failed serve goroutine the process exits,     *)
(* though clients keep their streams open.                                 *)
Exits == (stop \/ fails > 0) ~> ~Alive

(* clampRaft: whichever of file and environment gave the heartbeat timeout *)
(* and the lease, neither the load nor Raft ends the start because the     *)
(* lease is longer than the heartbeat, as long as both are positive.       *)
LeaseFits ==
    /\ wait.why # "invalid"
    /\ wait.why = "lease" => cfg.heartbeat = 0 \/ cfg.lease = 0

(* `clusdr config validate` ("confirm the merge"): a configuration that    *)
(* loads is one the daemon starts with.                                    *)
ValidatedStarts == wait.why = "none"

(* docs/reference/configuration.md: "If an override breaks that, load      *)
(* clamps lease to half the heartbeat."                                    *)
LoadClamps == wait.why # "lease"

(* CloseConsensus: shutting down never takes the process down by a nil     *)
(* pointer.                                                                *)
ClosesCleanly == main # "panicked"

================================================================================
