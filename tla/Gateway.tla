------------------------------ MODULE Gateway ------------------------------
(***************************************************************************)
(* The life of one gateway process (cmd/gateway/main.go): it loads its     *)
(* configuration, opens a pool of database connections, runs the gRPC      *)
(* server and the delivery worker beside each other on that pool, and goes *)
(* down on a signal or when the server fails.                              *)
(*                                                                         *)
(* What statements do to the tables is in the other modules: here a        *)
(* statement is a connection taken from the pool and given back.  A call   *)
(* takes one at a time, as often as its method has statements outside a    *)
(* transaction (a transaction keeps its connection to the end).            *)
(***************************************************************************)
EXTENDS Integers, FiniteSets

CONSTANTS
    Calls,     \* calls of the gRPC services that may run at the same time
    Worker,    \* the delivery worker, as a user of the pool
    Configs    \* configurations the process may be started with

ASSUME GatewayAssumption ==
    /\ Worker \notin Calls
    /\ Configs \subseteq
         [flags: {"ok", "help", "bad"}, readable: BOOLEAN, secrets: BOOLEAN,
          port: Int, max_conns: Int, min_conns: Int, max_retries: Int,
          health_check_period: Int]

VARIABLES
    config,      \* the command line, config.yaml and the environment
    phase,       \* where run() is
    code,        \* the exit code; -1: none yet; -2: none, killed by a signal
    signalled,   \* SIGINT or SIGTERM came
    cancelled,   \* the context of the worker (and of nobody's call) is done
    server,      \* the goroutine of Server.Run
    grpc,        \* the grpc.Server: stopped, stopping gracefully (in two steps), or neither
    stopper,     \* the goroutine of GracefulStop
    failed,      \* an error is in errCh
    timed_out,   \* the graceful shutdown took too long
    call,        \* the calls
    worker,      \* the goroutine of DeliveryWorker.Run
    holders,     \* who has a connection
    pool         \* the pool

vars == <<config, phase, code, signalled, cancelled, server, grpc, stopper,
          failed, timed_out, call, worker, holders, pool>>

mainVars == <<phase, code, stopper, timed_out>>
clientVars == <<call, worker, holders>>

\* "closing": the deferred calls of run().
Phases == {"load", "connect", "running", "draining", "closing", "exited"}

\* left: connections the call still takes, counting the one it has; cut: Stop
\* closed its stream and cancelled its context.
CallState ==
    [pc: {"none", "wants", "holds", "ended"}, left: 0..2, cut: BOOLEAN,
     reply: {"none", "answered", "cut", "pool_closed"}]

TypeOK ==
    /\ config \in Configs
    /\ phase \in Phases
    /\ code \in -2..2
    /\ signalled \in BOOLEAN /\ cancelled \in BOOLEAN
    /\ server \in {"off", "listening", "serving", "returned"}
    /\ grpc \in {"open", "goaway", "graceful", "stopped"}
    /\ stopper \in {"off", "spawned", "stopping", "done"}
    /\ failed \in BOOLEAN /\ timed_out \in BOOLEAN
    /\ call \in [Calls -> CallState]
    /\ worker \in {"off", "idle", "wants", "holds", "returned"}
    /\ holders = {c \in Calls : call[c].pc = "holds"}
                 \cup (IF worker = "holds" THEN {Worker} ELSE {})
    /\ holders # {} => Cardinality(holders) <= config.max_conns
    /\ pool \in {"none", "open", "closed"}

NoCall == [pc |-> "none", left |-> 0, cut |-> FALSE, reply |-> "none"]

Init ==
    /\ config \in Configs
    /\ phase = "load"
    /\ code = -1
    /\ signalled = FALSE /\ cancelled = FALSE
    /\ server = "off"
    /\ grpc = "open"
    /\ stopper = "off"
    /\ failed = FALSE /\ timed_out = FALSE
    /\ call = [c \in Calls |-> NoCall]
    /\ worker = "off"
    /\ holders = {}
    /\ pool = "none"

Exit(n) == phase' = "exited" /\ code' = n

----------------------------------------------------------------------------
(* Starting *)

Ports == 1..65535

\* Variant, never used: a pool without connections is let through.
ValidOrEmpty(cfg) ==
    /\ cfg.port \in Ports
    /\ cfg.max_conns >= 0 /\ cfg.min_conns >= 0
    /\ cfg.max_conns >= cfg.min_conns
    /\ cfg.max_retries >= 0

\* Config.validate.
Valid(cfg) ==
    /\ cfg.port \in Ports
    /\ cfg.max_conns > 0
    /\ cfg.min_conns >= 0
    /\ cfg.max_conns >= cfg.min_conns
    /\ cfg.max_retries >= 0

\* flag.Parse ends the process itself: for -h, and for a flag it does not know.
ParseFlags ==
    \/ config.flags = "help" /\ Exit(0)
    \/ config.flags = "bad" /\ Exit(2)

\* config.Load: the file first, then the secrets (mustEnv panics), then validate.
Load ==
    \/ /\ ~config.readable
       /\ Exit(1)
    \/ /\ config.readable /\ ~config.secrets
       /\ Exit(2)
    \/ /\ config.readable /\ config.secrets /\ ~Valid(config)
       /\ Exit(1)
    \/ /\ config.readable /\ config.secrets /\ Valid(config)
       /\ phase' = "connect"
       /\ UNCHANGED code

LoadConfig ==
    /\ phase = "load"
    /\ ParseFlags \/ (config.flags = "ok" /\ Load)
    /\ UNCHANGED <<config, signalled, cancelled, server, grpc, stopper, failed,
                   timed_out, clientVars, pool>>

\* postgres.New.  A pool that cannot be made is nil, and closing it panics.
\* Otherwise the ping decides, and fails when the signal has come meanwhile.
Connect ==
    /\ phase = "connect"
    /\ \/ /\ config.max_conns < 1
          /\ Exit(2)
          /\ UNCHANGED <<server, worker, pool>>
       \/ /\ config.max_conns >= 1
          /\ Exit(1)
          /\ UNCHANGED <<server, worker, pool>>
       \/ /\ config.max_conns >= 1
          /\ ~cancelled
          /\ phase' = "running"
          /\ server' = "listening"
          /\ worker' = "idle"
          /\ pool' = "open"
          /\ UNCHANGED code
    /\ UNCHANGED <<config, signalled, cancelled, grpc, stopper, failed, timed_out,
                   call, holders>>

\* Something ends the process from outside run().
Dies(n) ==
    /\ Exit(n)
    /\ UNCHANGED <<config, signalled, cancelled, server, grpc, stopper, failed,
                   timed_out, clientVars, pool>>

\* The pool's own goroutine makes a ticker of the period that nothing has checked, and
\* panics when it is not positive; it opens min_conns connections before, so that this
\* may come late, or the process end first.
HealthCheckPanics ==
    /\ phase \notin {"load", "exited"}
    /\ config.health_check_period <= 0
    /\ Dies(2)

\* A signal kills the process before NotifyContext, and again when cancel(), which is
\* also its stop, has been called for a server that failed.
SignalKills ==
    /\ phase = "load" \/ (phase = "closing" /\ code = 1)
    /\ Dies(-2)

\* signal.NotifyContext; a second signal is swallowed.
Signal ==
    /\ phase \notin {"load", "exited"} /\ code # 1
    /\ ~signalled
    /\ signalled' = TRUE
    /\ cancelled' = TRUE
    /\ UNCHANGED <<config, server, grpc, failed, mainVars, clientVars, pool>>

----------------------------------------------------------------------------
(* Server.Run *)

\* Serve returns at once, without an error to speak of, if the server has been
\* told to stop before.
Listen ==
    /\ server = "listening"
    /\ phase # "exited"
    /\ \/ /\ server' = "returned"
          /\ failed' = TRUE
       \/ /\ server' = IF grpc = "open" THEN "serving" ELSE "returned"
          /\ UNCHANGED failed
    /\ UNCHANGED <<config, signalled, cancelled, grpc, mainVars, clientVars, pool>>

\* Serve returns: with an error of its listener, or because it is told to stop.
ServeReturns ==
    /\ server = "serving"
    /\ phase # "exited"
    /\ server' = "returned"
    /\ failed' = (failed \/ grpc = "open")
    /\ UNCHANGED <<config, signalled, cancelled, grpc, mainVars, clientVars, pool>>

----------------------------------------------------------------------------
(* The calls: in which methods the handlers take how many connections *)

EventMethods == [CreateEvent |-> {1, 2}, GetEvent |-> {1}, ListEvents |-> {1}]

EndpointMethods ==
    [CreateEndpoint |-> {1}, GetEndpoint |-> {1}, ListEndpoints |-> {1},
     UpdateEndpoint |-> {1, 2}, DeleteEndpoint |-> {1}]

DeliveryMethods ==
    [CreateDelivery |-> {1}, CreateDeliveriesForEvent |-> {1}, GetDelivery |-> {1},
     GetDeliveryByEventAndEndpoint |-> {1}, ListPendingDeliveries |-> {1},
     UpdateDeliveryAttempt |-> {1}, CountPendingDeliveries |-> {1},
     ListDeliveriesByEndpoint |-> {1}, ListDeadLetteredDeliveries |-> {1}]

Running(c) == call[c].pc \in {"wants", "holds"}

\* Connections that are open already may bring calls until the last GOAWAY is sent.
Admits == grpc \in {"open", "goaway"}

\* A call reaches its handler, through the two interceptors; a request that is
\* refused at once takes no connection and is not a step.
Accept(c) ==
    /\ server = "serving" /\ Admits
    /\ phase # "exited"
    /\ ~Running(c)
    /\ \E methods \in {EventMethods, EndpointMethods, DeliveryMethods} :
         \E m \in DOMAIN methods : \E n \in methods[m] :
            call' = [call EXCEPT ![c] = [NoCall EXCEPT !.pc = "wants", !.left = n]]
    /\ UNCHANGED <<config, signalled, cancelled, server, grpc, failed, mainVars,
                   worker, holders, pool>>

Ended(c, reply) == [call[c] EXCEPT !.pc = "ended", !.left = 0, !.reply = reply]

\* Variant, never used: one connection more than the pool has.
HasFreeTooMany == pool = "open" /\ Cardinality(holders) <= config.max_conns

HasFree == pool = "open" /\ Cardinality(holders) < config.max_conns

Acquire(c) ==
    /\ call[c].pc = "wants" /\ ~call[c].cut
    /\ HasFree
    /\ phase # "exited"
    /\ call' = [call EXCEPT ![c].pc = "holds"]
    /\ holders' = holders \cup {c}
    /\ UNCHANGED <<config, signalled, cancelled, server, grpc, failed, mainVars,
                   worker, pool>>

FindClosed(c) ==
    /\ call[c].pc = "wants" /\ pool = "closed"
    /\ phase # "exited"
    /\ call' = [call EXCEPT ![c] = Ended(c, IF @.cut THEN "cut" ELSE "pool_closed")]
    /\ UNCHANGED <<config, signalled, cancelled, server, grpc, failed, mainVars,
                   worker, holders, pool>>

\* Variant, never used: the next statement runs beside an open transaction.
RestKeeping(c) ==
    IF call[c].left > 1 THEN holders ELSE holders \ {c}

\* Who has a connection after c has given back its own.
Rest(c) == holders \ {c}

\* The call after a statement, or a transaction: the handler goes on, or answers.
Advanced(c) ==
    IF call[c].left > 1 THEN [call[c] EXCEPT !.pc = "wants", !.left = @ - 1]
                        ELSE Ended(c, "answered")

Return(c) ==
    /\ call[c].pc = "holds" /\ ~call[c].cut
    /\ phase # "exited"
    /\ call' = [call EXCEPT ![c] = Advanced(c)]
    /\ holders' = Rest(c)
    /\ UNCHANGED <<config, signalled, cancelled, server, grpc, failed, mainVars,
                   worker, pool>>

\* The handler ends early: an error, a client that is gone, or a panic, which the
\* recovery interceptor answers, and the deferred Rollback cleans up after.
EndEarly(c) ==
    /\ Running(c) /\ ~call[c].cut
    /\ phase # "exited"
    /\ call' = [call EXCEPT ![c] = Ended(c, "answered")]
    /\ holders' = holders \ {c}
    /\ UNCHANGED <<config, signalled, cancelled, server, grpc, failed, mainVars,
                   worker, pool>>

\* A cancelled context ends whatever statement, or wait for one, the call is in.
Abort(c) ==
    /\ Running(c) /\ call[c].cut
    /\ phase # "exited"
    /\ call' = [call EXCEPT ![c] = Ended(c, "cut")]
    /\ holders' = holders \ {c}
    /\ UNCHANGED <<config, signalled, cancelled, server, grpc, failed, mainVars,
                   worker, pool>>

----------------------------------------------------------------------------
(* DeliveryWorker.Run, as a user of the pool *)

\* It never reports an error: tick's are logged, and Run returns Canceled.
WorkerWants ==
    /\ worker = "idle"
    /\ phase # "exited"
    /\ worker' = IF cancelled THEN "returned" ELSE "wants"
    /\ UNCHANGED <<config, signalled, cancelled, server, grpc, failed, mainVars,
                   call, holders, pool>>

WorkerAcquires ==
    /\ worker = "wants" /\ ~cancelled
    /\ HasFree
    /\ phase # "exited"
    /\ worker' = "holds"
    /\ holders' = holders \cup {Worker}
    /\ UNCHANGED <<config, signalled, cancelled, server, grpc, failed, mainVars,
                   call, pool>>

\* Its statement is over, or its wait for a connection is cut short.
WorkerReturns ==
    /\ worker = "holds" \/ (worker = "wants" /\ cancelled)
    /\ phase # "exited"
    /\ worker' = "idle"
    /\ holders' = holders \ {Worker}
    /\ UNCHANGED <<config, signalled, cancelled, server, grpc, failed, mainVars,
                   call, pool>>
----------------------------------------------------------------------------
(* Going down *)

\* grpc.Server.Stop: every stream is closed; handlers are not waited for.
Stop ==
    /\ grpc' = "stopped"
    /\ call' = [c \in Calls |-> IF Running(c) THEN [call[c] EXCEPT !.cut = TRUE] ELSE call[c]]

\* The first select of run().  With both channels ready, either is taken.
SeesFailure ==
    /\ phase = "running" /\ failed
    /\ cancelled' = TRUE
    /\ Stop
    /\ phase' = "closing"
    /\ code' = 1
    /\ UNCHANGED <<config, signalled, server, stopper, failed, timed_out, worker,
                   holders, pool>>

SeesSignal ==
    /\ phase = "running" /\ cancelled
    /\ phase' = "draining"
    /\ stopper' = "spawned"
    /\ UNCHANGED <<config, code, signalled, cancelled, server, grpc, failed, timed_out,
                   clientVars, pool>>

\* The goroutine that calls GracefulStop: clients are sent a first GOAWAY and a last
\* one, after which no call is accepted any more, and it is done when those that run
\* have ended (or Stop has cut them).
GracefulStop ==
    /\ phase # "exited"
    /\ \/ /\ stopper = "spawned"
          /\ stopper' = "stopping"
          /\ grpc' = IF grpc = "open" THEN "goaway" ELSE grpc
       \/ /\ stopper = "stopping" /\ grpc = "goaway"
          /\ grpc' = "graceful"
          /\ UNCHANGED stopper
       \/ /\ stopper = "stopping" /\ ~Admits
          /\ \A c \in Calls : ~Running(c)
          /\ stopper' = "done"
          /\ UNCHANGED grpc
    /\ UNCHANGED <<config, phase, code, signalled, cancelled, server, failed, timed_out,
                   clientVars, pool>>

\* Variant, never used: run() goes on when GracefulStop has been called.
IsDrainedEarly == stopper \in {"stopping", "done"}

IsDrained == stopper = "done"

\* The second select: GracefulStop is done,
SeesDone ==
    /\ phase = "draining" /\ IsDrained
    /\ phase' = "closing"
    /\ code' = 0
    /\ UNCHANGED <<config, signalled, cancelled, server, grpc, stopper, failed, timed_out,
                   clientVars, pool>>

\* Variant, never used: nothing limits the graceful shutdown.
TimesOutNever == FALSE

MayTimeOut == phase = "draining"

\* or GracefulShutdownTimeout has passed, which it may also have when it is done.
TimesOut ==
    /\ MayTimeOut
    /\ Stop
    /\ timed_out' = TRUE
    /\ phase' = "closing"
    /\ code' = 0
    /\ UNCHANGED <<config, signalled, cancelled, server, stopper, failed, worker, holders,
                   pool>>

\* pool.Close: nobody gets a connection any more, then it waits for all of them.
ClosePool ==
    /\ phase = "closing" /\ pool = "open"
    /\ pool' = "closed"
    /\ UNCHANGED <<config, signalled, cancelled, server, grpc, failed, mainVars, clientVars>>

\* run() returns, and with it the process ends, whatever still runs in it.
Finish ==
    /\ phase = "closing" /\ pool = "closed"
    /\ holders = {}
    /\ Exit(code)
    /\ UNCHANGED <<config, signalled, cancelled, server, grpc, stopper, failed, timed_out,
                   clientVars, pool>>

----------------------------------------------------------------------------

Main == LoadConfig \/ Connect \/ SeesFailure \/ SeesSignal \/ SeesDone \/ TimesOut
        \/ ClosePool \/ Finish

WorkerStep == WorkerWants \/ WorkerAcquires \/ WorkerReturns

Next ==
    \/ Main \/ Signal \/ SignalKills \/ HealthCheckPanics
    \/ Listen \/ ServeReturns \/ GracefulStop \/ WorkerStep
    \/ \E c \in Calls : \/ Accept(c) \/ Acquire(c) \/ FindClosed(c)
                         \/ Return(c) \/ EndEarly(c) \/ Abort(c)

Spec == Init /\ [][Next]_vars

\* main goes on, a goroutine that can stop does, and what waits on a context that
\* is done ends.  Nothing is assumed of the database or of a call's progress.
Fairness ==
    /\ WF_vars(Main)
    /\ WF_vars(GracefulStop)
    /\ WF_vars(WorkerReturns /\ cancelled)
    /\ \A c \in Calls : WF_vars(Abort(c) \/ FindClosed(c))

FairSpec == Spec /\ Fairness

\* The database answers, and the pool serves those who wait in turn.
Responsive ==
    /\ WF_vars(WorkerReturns)
    /\ \A c \in Calls : WF_vars(Return(c)) /\ SF_vars(Acquire(c))

----------------------------------------------------------------------------
(* What must hold *)

\* The exit code tells the supervisor why, whatever came at the same time: 0 only after
\* a signal, and then the pool is closed, or for -h; 1 for a start or a server that
\* failed; 2 for flags that are wrong and for the panics of a secret that is missing and
\* of a health check period that is not positive, never for the nil pool that
\* postgres.New would close; none only for a signal nothing was listening for.
ExitCodes ==
    phase = "exited" =>
      /\ code # -1
      /\ code = 0 => (signalled /\ pool = "closed") \/ config.flags = "help"
      /\ code \in {1, -2} => failed \/ pool = "none"
      /\ code = 2 => \/ config.flags = "bad" \/ ~config.secrets
                     \/ config.health_check_period <= 0

\* A call that was accepted is answered by its handler, also one that comes while
\* the process goes down, unless the server failed, the time for it was up or the
\* process panicked: no handler finds the pool closed under it, and none is left when
\* run() returns.
AcceptedIsAnswered ==
    \A c \in Calls :
      /\ call[c].reply # "pool_closed"
      /\ call[c].cut => timed_out \/ failed
      /\ phase = "exited" /\ code # 2 /\ Running(c) => call[c].cut

\* Once told to, by a signal or by a server that failed, the process ends, though
\* a call may hang and the worker be in the middle of a batch.
StopsWhenTold == cancelled \/ failed ~> phase = "exited"

\* A call that waits for a connection gets one, or is over: even with a single one for
\* all calls and the worker, nobody waits for a second while holding a first.
CallsGetConnections ==
    Responsive => \A c \in Calls :
                    call[c].pc = "wants" ~> call[c].pc # "wants" \/ phase = "exited"
=============================================================================
