--------------------------- MODULE GatewayProofs ---------------------------
(***************************************************************************)
(* Theorems about Gateway, for any number of calls and any configurations. *)
(***************************************************************************)
EXTENDS Gateway, FiniteSetTheorems, TLAPS

----------------------------------------------------------------------------
(* The invariant, part by part *)

\* Until run() has a pool nothing runs beside it.
Starting ==
    phase \in {"load", "connect"} =>
      /\ pool = "none" /\ server = "off" /\ worker = "off" /\ stopper = "off"
      /\ \A c \in Calls : ~Running(c)

\* What passed Config.validate stays so: the pool can be made.
Checked ==
    phase \notin {"load", "exited"} =>
      config.flags = "ok" /\ config.secrets /\ Valid(config)

\* The exit code is chosen when run() starts to go down, for a reason that lasts.
Codes ==
    /\ phase \in {"load", "connect", "running", "draining"} => code = -1
    /\ phase = "closing" => (code = 0 /\ signalled) \/ (code = 1 /\ failed)

\* The pool is closed by nothing but the deferred Close of run().
Pools ==
    /\ phase \in {"running", "draining"} => pool = "open"
    /\ phase = "closing" => pool \in {"open", "closed"}
    /\ pool = "closed" => phase \in {"closing", "exited"}

\* Before run() goes down only a signal cancels the worker.
Told ==
    /\ phase \in {"load", "connect", "running"} /\ cancelled => signalled
    /\ phase = "draining" => signalled

\* run() is going down, or has gone, in its own way.
Leaving == phase = "closing" \/ (phase = "exited" /\ code # 2)

\* No call is accepted once GracefulStop is done or Stop has been called, and when
\* run() goes on to close the pool, those that still run have been cut.
CutOff ==
    /\ stopper = "stopping" => grpc # "open"
    /\ stopper = "done" \/ phase = "closing" => ~Admits
    /\ stopper = "done" => \A c \in Calls : ~Running(c)
    /\ Leaving => \A c \in Calls : Running(c) => call[c].cut

\* AcceptedIsAnswered of one call, but for what CutOff says of it.
Answered(s) ==
    /\ s.reply # "pool_closed"
    /\ s.cut => timed_out \/ failed

GInv ==
    /\ TypeOK /\ IsFiniteSet(holders)
    /\ Starting /\ Checked /\ Codes /\ Pools /\ Told /\ CutOff /\ ExitCodes
    /\ \A c \in Calls : Answered(call[c])

----------------------------------------------------------------------------
(* What becomes of one call *)

\* The states the handlers' steps leave a call in are states of a call.
LEMMA CallStates ==
    ASSUME NEW s \in CallState, NEW n \in 1..2, NEW reply \in {"answered", "cut", "pool_closed"}
    PROVE  LET begun == [NoCall EXCEPT !.pc = "wants", !.left = n]
               served == [s EXCEPT !.pc = "holds"]
               between == [s EXCEPT !.pc = "wants", !.left = s.left - 1]
               ended == [s EXCEPT !.pc = "ended", !.left = 0, !.reply = reply]
               stopped == [s EXCEPT !.cut = TRUE]
           IN  /\ begun \in CallState /\ begun.pc = "wants" /\ ~begun.cut
               /\ begun.reply = "none"
               /\ served \in CallState /\ served.pc = "holds"
               /\ (served.cut <=> s.cut) /\ served.reply = s.reply
               /\ s.left > 1 => between \in CallState
               /\ between.pc = "wants" /\ (between.cut <=> s.cut) /\ between.reply = s.reply
               /\ ended \in CallState /\ ended.pc = "ended"
               /\ (ended.cut <=> s.cut) /\ ended.reply = reply
               /\ stopped \in CallState /\ stopped.pc = s.pc /\ stopped.cut
               /\ stopped.reply = s.reply
<1> DEFINE begun == [NoCall EXCEPT !.pc = "wants", !.left = n]
           served == [s EXCEPT !.pc = "holds"]
           between == [s EXCEPT !.pc = "wants", !.left = s.left - 1]
           ended == [s EXCEPT !.pc = "ended", !.left = 0, !.reply = reply]
           stopped == [s EXCEPT !.cut = TRUE]
<1>0. n \in 0..2 /\ 0 \in 0..2 /\ (s.left > 1 => s.left - 1 \in 0..2)
    BY DEF CallState
<1>1. begun \in CallState /\ begun.pc = "wants" /\ ~begun.cut /\ begun.reply = "none"
    BY <1>0, Zenon DEF NoCall, CallState
<1>2. /\ served \in CallState /\ served.pc = "holds"
      /\ (served.cut <=> s.cut) /\ served.reply = s.reply
    BY Zenon DEF CallState
<1>3. /\ s.left > 1 => between \in CallState
      /\ between.pc = "wants" /\ (between.cut <=> s.cut) /\ between.reply = s.reply
    BY <1>0, Zenon DEF CallState
<1>4. /\ ended \in CallState /\ ended.pc = "ended"
      /\ (ended.cut <=> s.cut) /\ ended.reply = reply
    BY <1>0, Zenon DEF CallState
<1>5. /\ stopped \in CallState /\ stopped.pc = s.pc /\ stopped.cut
      /\ stopped.reply = s.reply
    BY Zenon DEF CallState
<1> QED BY <1>1, <1>2, <1>3, <1>4, <1>5, Zenon

\* A step of a call's handler, which leaves the call in state t.
CallStep(c) == \/ Accept(c) \/ Acquire(c) \/ FindClosed(c)
               \/ Return(c) \/ EndEarly(c) \/ Abort(c)

Moves(c, t) ==
    /\ t \in CallState
    /\ call' = [call EXCEPT ![c] = t]
    /\ holders' = IF t.pc = "holds" THEN holders \cup {c} ELSE holders \ {c}
    /\ t.pc = "holds" => Cardinality(holders) < config.max_conns
    /\ t.pc \in {"wants", "holds"} =>
         \/ Running(c) /\ (call[c].cut => t.cut)
         \/ server = "serving" /\ Admits /\ phase # "exited"
    /\ t.cut => call[c].cut
    /\ t.reply = "pool_closed" =>
         \/ call[c].reply = "pool_closed"
         \/ pool = "closed" /\ phase # "exited" /\ Running(c) /\ ~call[c].cut
    /\ UNCHANGED <<config, signalled, cancelled, server, grpc, failed, mainVars, worker, pool>>

\* Who holds no connection is not among the holders, as a set of calls and the worker.
LEMMA NotHolding ==
    ASSUME TypeOK, NEW c \in Calls
    PROVE  c \in holders <=> call[c].pc = "holds"
    BY GatewayAssumption DEF TypeOK

\* Every step of a handler is such a move.
LEMMA CallMoves ==
    ASSUME TypeOK, NEW c \in Calls, CallStep(c)
    PROVE  \E t : Moves(c, t)
<1>0. call \in [Calls -> CallState] /\ call[c] \in CallState
    BY DEF TypeOK
<1>1. 1 \in 1..2 /\ 2 \in 1..2
    OBVIOUS
<1>2. CASE Accept(c)
    <2>1. PICK n \in 1..2 : call' = [call EXCEPT ![c] = [NoCall EXCEPT !.pc = "wants", !.left = n]]
        <3>1. \A methods \in {EventMethods, EndpointMethods, DeliveryMethods} :
                \A m \in DOMAIN methods : methods[m] \subseteq 1..2
            BY <1>1 DEF EventMethods, EndpointMethods, DeliveryMethods
        <3> QED BY <1>2, <3>1, Zenon DEF Accept
    <2> DEFINE t == [NoCall EXCEPT !.pc = "wants", !.left = n]
    <2>2. t \in CallState /\ t.pc = "wants" /\ ~t.cut /\ t.reply = "none"
        BY <1>0, CallStates
    <2> HIDE DEF t
    <2>3. call' = [call EXCEPT ![c] = t]
        BY <2>1 DEF t
    <2>4. holders' = holders \ {c}
        BY <1>2, NotHolding DEF Accept, Running
    <2>5. Moves(c, t)
        BY <1>2, <2>2, <2>3, <2>4 DEF Moves, Accept
    <2> QED BY <2>5
<1>3. CASE Acquire(c)
    <2> DEFINE t == [call[c] EXCEPT !.pc = "holds"]
    <2>1. t \in CallState /\ t.pc = "holds" /\ (t.cut <=> call[c].cut)
          /\ t.reply = call[c].reply
        BY <1>0, <1>1, CallStates
    <2>2. call' = [call EXCEPT ![c] = t]
        BY <1>3, Zenon DEF Acquire
    <2> HIDE DEF t
    <2>3. Moves(c, t)
        BY <1>3, <2>1, <2>2 DEF Moves, Acquire, HasFree, Running
    <2> QED BY <2>3
<1>4. ASSUME NEW reply \in {"answered", "cut", "pool_closed"},
             call' = [call EXCEPT ![c] = Ended(c, reply)], holders' = holders \ {c}, Running(c),
             UNCHANGED <<config, signalled, cancelled, server, grpc, failed, mainVars,
                         worker, pool>>,
             reply = "pool_closed" => pool = "closed" /\ phase # "exited" /\ ~call[c].cut
      PROVE  \E t : Moves(c, t)
    <2> DEFINE t == Ended(c, reply)
    <2> DEFINE u == [call[c] EXCEPT !.pc = "ended", !.left = 0, !.reply = reply]
    <2>0. u \in CallState /\ u.pc = "ended" /\ (u.cut <=> call[c].cut) /\ u.reply = reply
        <3>1. 0 \in 0..2
            OBVIOUS
        <3> QED BY <1>0, <3>1, Zenon DEF CallState
    <2>1. t \in CallState /\ t.pc = "ended" /\ (t.cut <=> call[c].cut) /\ t.reply = reply
        BY <2>0, Zenon DEF Ended
    <2> HIDE DEF t
    <2>2. call' = [call EXCEPT ![c] = t]
        BY <1>4 DEF t
    <2>3. Moves(c, t)
        BY <1>4, <2>1, <2>2 DEF Moves
    <2> QED BY <2>3
<1>5. CASE FindClosed(c)
    <2> DEFINE reply == IF call[c].cut THEN "cut" ELSE "pool_closed"
    <2>1. holders' = holders \ {c} /\ Running(c)
        BY <1>5, NotHolding DEF FindClosed, Running
    <2>2. call' = [call EXCEPT ![c] = Ended(c, reply)]
        BY <1>5, Zenon DEF FindClosed
    <2>3. reply \in {"answered", "cut", "pool_closed"}
          /\ (reply = "pool_closed" => pool = "closed" /\ phase # "exited" /\ ~call[c].cut)
        BY <1>5 DEF FindClosed
    <2> HIDE DEF reply
    <2> QED BY <1>4, <1>5, <2>1, <2>2, <2>3 DEF FindClosed
<1>6. CASE Return(c)
    <2>1. CASE call[c].left > 1
        <3> DEFINE t == [call[c] EXCEPT !.pc = "wants", !.left = call[c].left - 1]
        <3>1. t \in CallState /\ t.pc = "wants" /\ (t.cut <=> call[c].cut)
              /\ t.reply = call[c].reply
            BY <1>0, <1>1, <2>1, CallStates
        <3>2. call' = [call EXCEPT ![c] = t]
            BY <1>6, <2>1, Zenon DEF Return, Advanced
        <3> HIDE DEF t
        <3>3. Moves(c, t)
            BY <1>6, <3>1, <3>2 DEF Moves, Return, Rest, Running
        <3> QED BY <3>3
    <2>2. CASE ~(call[c].left > 1)
        <3>1. call' = [call EXCEPT ![c] = Ended(c, "answered")]
            BY <1>6, <2>2, Zenon DEF Return, Advanced
        <3> QED BY <1>4, <1>6, <3>1 DEF Return, Rest, Running
    <2> QED BY <2>1, <2>2
<1>7. CASE EndEarly(c) \/ Abort(c)
    <2>1. PICK reply \in {"answered", "cut"} : call' = [call EXCEPT ![c] = Ended(c, reply)]
        BY <1>7 DEF EndEarly, Abort
    <2> QED BY <1>4, <1>7, <2>1 DEF EndEarly, Abort
<1> QED BY <1>2, <1>3, <1>5, <1>6, <1>7 DEF CallStep

----------------------------------------------------------------------------
(* Types, and who holds a connection *)

\* The connections in use, as TypeOK has them.
Using(calls, w) ==
    {c \in Calls : calls[c].pc = "holds"} \cup (IF w = "holds" THEN {Worker} ELSE {})

\* TypeOK without what it says of connections; and that part, with a finite set.
Plain ==
    /\ config \in Configs
    /\ phase \in Phases
    /\ code \in -2..2
    /\ signalled \in BOOLEAN /\ cancelled \in BOOLEAN
    /\ server \in {"off", "listening", "serving", "returned"}
    /\ grpc \in {"open", "goaway", "graceful", "stopped"}
    /\ stopper \in {"off", "spawned", "stopping", "done"}
    /\ failed \in BOOLEAN /\ timed_out \in BOOLEAN
    /\ call \in [Calls -> CallState]
    /\ worker \in {"off", "idle", "wants", "holds", "returned"}
    /\ pool \in {"none", "open", "closed"}

Connections ==
    /\ holders = Using(call, worker)
    /\ IsFiniteSet(holders)
    /\ holders # {} => Cardinality(holders) <= config.max_conns

\* TypeOK is these two.
LEMMA TypeParts == TypeOK /\ IsFiniteSet(holders) <=> Plain /\ Connections
    BY Zenon DEF TypeOK, Plain, Connections, Using

\* One holder more, when one was free, or one less, is not too many.
LEMMA Bounded ==
    ASSUME NEW S, NEW x, NEW max \in Int, IsFiniteSet(S),
           S # {} => Cardinality(S) <= max
    PROVE  /\ IsFiniteSet(S \ {x})
           /\ S \ {x} # {} => Cardinality(S \ {x}) <= max
           /\ IsFiniteSet(S \cup {x})
           /\ Cardinality(S) < max => Cardinality(S \cup {x}) <= max
<1>1. Cardinality(S) \in Nat
    BY FS_CardinalityType
<1>2. /\ IsFiniteSet(S \ {x})
      /\ S \ {x} # {} => Cardinality(S \ {x}) <= max
    <2>1. CASE x \in S
        <3>1. IsFiniteSet(S \ {x}) /\ Cardinality(S \ {x}) = Cardinality(S) - 1
            BY <2>1, FS_RemoveElement
        <3> QED BY <1>1, <3>1
    <2>2. CASE x \notin S
        <3>1. S \ {x} = S
            BY <2>2
        <3> QED BY <3>1
    <2> QED BY <2>1, <2>2
<1>3. /\ IsFiniteSet(S \cup {x})
      /\ Cardinality(S) < max => Cardinality(S \cup {x}) <= max
    <2>1. CASE x \in S
        <3>1. S \cup {x} = S
            BY <2>1
        <3> QED BY <1>1, <3>1
    <2>2. CASE x \notin S
        <3>1. IsFiniteSet(S \cup {x}) /\ Cardinality(S \cup {x}) = Cardinality(S) + 1
            BY <2>2, FS_AddElement
        <3> QED BY <1>1, <3>1
    <2> QED BY <2>1, <2>2
<1> QED BY <1>2, <1>3

\* x is given a connection, or is without one: the pool is not overdrawn.
LEMMA ConnectionsMove ==
    ASSUME Plain, Connections, NEW x, config' = config,
           holders' = Using(call', worker'),
           \/ holders' = holders
           \/ holders' = holders \ {x}
           \/ holders' = holders \cup {x} /\ Cardinality(holders) < config.max_conns
    PROVE  Connections'
<1>1. config.max_conns \in Int
    BY GatewayAssumption DEF Plain
<1>2. IsFiniteSet(holders) /\ (holders # {} => Cardinality(holders) <= config.max_conns)
    BY DEF Connections
<1>3. /\ IsFiniteSet(holders')
      /\ holders' # {} => Cardinality(holders') <= config.max_conns
    <2> DEFINE max == config.max_conns
    <2>1. max \in Int /\ (holders # {} => Cardinality(holders) <= max)
        BY <1>1, <1>2
    <2> HIDE DEF max
    <2>2. /\ IsFiniteSet(holders \ {x})
          /\ holders \ {x} # {} => Cardinality(holders \ {x}) <= max
          /\ IsFiniteSet(holders \cup {x})
          /\ Cardinality(holders) < max => Cardinality(holders \cup {x}) <= max
        BY <1>2, <2>1, Bounded
    <2>3. \/ holders' = holders
          \/ holders' = holders \ {x}
          \/ holders' = holders \cup {x} /\ Cardinality(holders) < max
        BY DEF max
    <2>4. IsFiniteSet(holders') /\ (holders' # {} => Cardinality(holders') <= max)
        BY <1>2, <2>1, <2>2, <2>3
    <2> QED BY <2>4 DEF max
<1> QED BY <1>3 DEF Connections

\* The steps that leave the calls and the worker's connection alone.
LEMMA PlainStep ==
    ASSUME Plain, \/ LoadConfig \/ SeesSignal \/ SeesDone \/ ClosePool \/ Finish
                  \/ SignalKills \/ HealthCheckPanics
                  \/ Signal \/ Listen \/ ServeReturns \/ GracefulStop \/ UNCHANGED vars
    PROVE  Plain' /\ UNCHANGED <<config, clientVars>>
<1> USE DEF Plain, Phases, clientVars, mainVars
<1>1. CASE LoadConfig
    BY <1>1 DEF LoadConfig, ParseFlags, Load, Exit
<1>2. CASE SeesSignal
    BY <1>2 DEF SeesSignal
<1>3. CASE SeesDone
    BY <1>3 DEF SeesDone
<1>4. CASE ClosePool
    BY <1>4 DEF ClosePool
<1>5. CASE Finish
    BY <1>5 DEF Finish, Exit
<1>6. CASE Signal
    BY <1>6 DEF Signal
<1>7. CASE Listen
    <2>1. server' \in {"serving", "returned"}
        BY <1>7 DEF Listen
    <2>2. failed' \in BOOLEAN
        <3>1. CASE failed' = TRUE
            BY <3>1, Zenon
        <3>2. CASE failed' = failed
            BY <3>2, Zenon
        <3> QED BY <1>7, <3>1, <3>2, Zenon DEF Listen
    <2>3. UNCHANGED <<config, signalled, cancelled, grpc, mainVars, clientVars, pool>>
        BY <1>7, Zenon DEF Listen
    <2> QED BY <2>1, <2>2, <2>3
<1>8. CASE ServeReturns
    <2>1. (failed \/ grpc = "open") \in BOOLEAN
        OBVIOUS
    <2> QED BY <1>8, <2>1 DEF ServeReturns
<1>9. CASE GracefulStop
    BY <1>9 DEF GracefulStop
<1>10. CASE UNCHANGED vars
    BY <1>10 DEF vars
<1>11. CASE SignalKills \/ HealthCheckPanics
    BY <1>11 DEF SignalKills, HealthCheckPanics, Dies, Exit
<1> QED BY <1>1, <1>2, <1>3, <1>4, <1>5, <1>6, <1>7, <1>8, <1>9, <1>10, <1>11

\* Stop cuts the calls that run, and leaves each where it is.
LEMMA PlainStops ==
    ASSUME Plain, Stop
    PROVE  /\ call' \in [Calls -> CallState]
           /\ \A c \in Calls : call'[c].pc = call[c].pc
           /\ \A c \in Calls : call'[c].reply = call[c].reply
           /\ \A c \in Calls : Running(c) => call'[c].cut
           /\ grpc' = "stopped"
<1> DEFINE stopped(c) == [call[c] EXCEPT !.cut = TRUE]
<1>1. ASSUME NEW c \in Calls
      PROVE  /\ stopped(c) \in CallState /\ stopped(c).pc = call[c].pc /\ stopped(c).cut
             /\ stopped(c).reply = call[c].reply
    <2>1. call[c] \in CallState
        BY DEF Plain
    <2> QED BY <2>1, Zenon DEF CallState
<1>2. call' = [c \in Calls |-> IF Running(c) THEN stopped(c) ELSE call[c]]
    BY Zenon DEF Stop
<1> HIDE DEF stopped
<1>3. \A c \in Calls : call[c] \in CallState
    BY DEF Plain
<1>4. \A c \in Calls : call'[c] = IF Running(c) THEN stopped(c) ELSE call[c]
    BY <1>2
<1>5. call' \in [Calls -> CallState]
    BY <1>1, <1>2, <1>3
<1>6. grpc' = "stopped"
    BY DEF Stop
<1> QED BY <1>1, <1>4, <1>5, <1>6

\* The steps of run() that stop the server, cutting calls but not taking connections.
LEMMA PlainMain ==
    ASSUME Plain, SeesFailure \/ TimesOut
    PROVE  Plain' /\ UNCHANGED <<config, worker, holders>>
           /\ \A c \in Calls : call'[c].pc = call[c].pc
<1>1. Stop
    BY DEF SeesFailure, TimesOut
<1>2. call' \in [Calls -> CallState] /\ grpc' = "stopped"
    BY <1>1, PlainStops
<1>3. \A c \in Calls : call'[c].pc = call[c].pc
    BY <1>1, PlainStops
<1>4. /\ UNCHANGED <<config, worker, holders, signalled, server, stopper, failed, pool>>
      /\ phase' = "closing" /\ code' \in {0, 1}
    BY DEF SeesFailure, TimesOut
<1>5. cancelled' \in BOOLEAN /\ timed_out' \in BOOLEAN
    BY DEF SeesFailure, TimesOut, Plain
<1> QED BY <1>2, <1>3, <1>4, <1>5 DEF Plain, Phases

\* The worker, which Connect starts.
LEMMA PlainWorker ==
    ASSUME Plain, Connect \/ WorkerStep, Starting
    PROVE  Plain' /\ UNCHANGED <<config, call>>
<1>1. CASE Connect
    <2>1. UNCHANGED <<config, call, signalled, cancelled, grpc, stopper, failed, timed_out>>
        BY <1>1 DEF Connect
    <2>2. /\ phase' \in Phases /\ code' \in -2..2
          /\ server' \in {"off", "listening", "serving", "returned"}
          /\ worker' \in {"off", "idle", "wants", "holds", "returned"}
          /\ pool' \in {"none", "open", "closed"}
        BY <1>1 DEF Connect, Exit, Plain, Phases
    <2> QED BY <2>1, <2>2 DEF Plain
<1>2. CASE WorkerStep
    <2>1. UNCHANGED <<config, call, signalled, cancelled, server, grpc, failed, phase,
                      code, stopper, timed_out, pool>>
        BY <1>2 DEF WorkerStep, WorkerWants, WorkerAcquires, WorkerReturns, mainVars
    <2>2. worker' \in {"off", "idle", "wants", "holds", "returned"}
        BY <1>2 DEF WorkerStep, WorkerWants, WorkerAcquires, WorkerReturns
    <2> QED BY <2>1, <2>2 DEF Plain
<1> QED BY <1>1, <1>2

\* And a move of one call.
LEMMA PlainCall ==
    ASSUME Plain, NEW c \in Calls, NEW t, Moves(c, t)
    PROVE  Plain' /\ UNCHANGED <<config, worker>>
<1>1. call' \in [Calls -> CallState]
    BY DEF Plain, Moves
<1>2. UNCHANGED <<config, worker, signalled, cancelled, server, grpc, failed, phase,
                  code, stopper, timed_out, pool>>
    BY DEF Moves, mainVars
<1> QED BY <1>1, <1>2 DEF Plain

\* The pool is never overdrawn: a connection is taken only when one is free.
LEMMA TypeStep ==
    ASSUME TypeOK, IsFiniteSet(holders), Starting, [Next]_vars
    PROVE  TypeOK' /\ IsFiniteSet(holders')
<1>0. Plain /\ Connections
    BY TypeParts
<1> SUFFICES Plain' /\ Connections'
    BY Zenon DEF TypeOK, Plain, Connections, Using
<1>1. CASE \/ LoadConfig \/ SeesSignal \/ SeesDone \/ ClosePool \/ Finish
           \/ SignalKills \/ HealthCheckPanics
           \/ Signal \/ Listen \/ ServeReturns \/ GracefulStop \/ UNCHANGED vars
    <2>1. Plain' /\ UNCHANGED <<config, call, worker, holders>>
        BY <1>0, <1>1, PlainStep DEF clientVars
    <2> QED BY <1>0, <2>1 DEF Connections, Using
<1>2. CASE SeesFailure \/ TimesOut
    <2>1. Plain' /\ UNCHANGED <<config, worker, holders>>
          /\ \A c \in Calls : call'[c].pc = call[c].pc
        BY <1>0, <1>2, PlainMain
    <2> QED BY <1>0, <2>1 DEF Connections, Using
<1>3. CASE Connect \/ WorkerStep
    <2>1. Plain' /\ UNCHANGED <<config, call>>
        BY <1>0, <1>3, PlainWorker
    <2>2. holders = Using(call, worker)
        BY <1>0 DEF Connections
    <2>3. CASE Connect
        <3>1. worker # "holds" /\ worker' # "holds" /\ holders' = holders
            BY <2>3 DEF Connect, Starting
        <3>2. holders' = Using(call', worker')
            BY <2>1, <2>2, <3>1 DEF Using
        <3> QED BY <1>0, <2>1, <3>1, <3>2, ConnectionsMove
    <2>4. CASE WorkerWants
        <3>1. worker # "holds" /\ worker' # "holds" /\ holders' = holders
            BY <2>4 DEF WorkerWants
        <3>2. holders' = Using(call', worker')
            BY <2>1, <2>2, <3>1 DEF Using
        <3> QED BY <1>0, <2>1, <3>1, <3>2, ConnectionsMove
    <2>5. CASE WorkerAcquires
        <3>1. /\ worker # "holds" /\ worker' = "holds" /\ holders' = holders \cup {Worker}
              /\ Cardinality(holders) < config.max_conns
            BY <2>5 DEF WorkerAcquires, HasFree
        <3>2. holders' = Using(call', worker')
            BY <2>1, <2>2, <3>1 DEF Using
        <3> QED BY <1>0, <2>1, <3>1, <3>2, ConnectionsMove
    <2>6. CASE WorkerReturns
        <3>1. worker' = "idle" /\ holders' = holders \ {Worker}
            BY <2>6 DEF WorkerReturns
        <3>2. holders' = Using(call', worker')
            BY <2>1, <2>2, <3>1, GatewayAssumption DEF Using
        <3> QED BY <1>0, <2>1, <3>1, <3>2, ConnectionsMove
    <2> QED BY <1>3, <2>3, <2>4, <2>5, <2>6 DEF WorkerStep
<1>4. ASSUME NEW c \in Calls, CallStep(c) PROVE Plain' /\ Connections'
    <2>1. PICK t : Moves(c, t)
        BY <1>4, CallMoves
    <2>2. Plain' /\ UNCHANGED <<config, worker>>
        BY <1>0, <2>1, PlainCall
    <2>3. /\ call' = [call EXCEPT ![c] = t]
          /\ holders' = IF t.pc = "holds" THEN holders \cup {c} ELSE holders \ {c}
          /\ t.pc = "holds" => Cardinality(holders) < config.max_conns
        BY <2>1 DEF Moves
    <2>4. call \in [Calls -> CallState] /\ holders = Using(call, worker)
        BY <1>0 DEF Plain, Connections
    <2>5. holders' = Using(call', worker')
        <3>1. call'[c] = t /\ \A b \in Calls : b # c => call'[b] = call[b]
            BY <2>3, <2>4
        <3> QED BY <2>2, <2>3, <2>4, <3>1, GatewayAssumption DEF Using
    <2>6. Connections'
        BY <1>0, <2>2, <2>3, <2>5, ConnectionsMove
    <2> QED BY <2>2, <2>6
<1> QED BY <1>1, <1>2, <1>3, <1>4 DEF Next, Main, CallStep

----------------------------------------------------------------------------
(* How the process goes down, and with which exit code *)

Life == Checked /\ Codes /\ Pools /\ Told /\ ExitCodes

\* What the calls and the worker do is no part of it.
LEMMA LifeStays ==
    ASSUME Life, UNCHANGED <<config, signalled, cancelled, failed, phase, code, pool>>
    PROVE  Life'
    BY DEF Life, Checked, Codes, Pools, Told, ExitCodes

\* The steps that run() is brought up and down with.
LEMMA LifeMain ==
    ASSUME TypeOK, Starting, Life, Main
    PROVE  Life'
<1>1. CASE LoadConfig
    <2>1. pool = "none" /\ UNCHANGED <<config, signalled, cancelled, failed, pool>>
        BY <1>1 DEF LoadConfig, Starting
    <2>2. \/ phase' = "exited" /\ code' = 0 /\ config.flags = "help"
          \/ phase' = "exited" /\ code' = 1
          \/ phase' = "exited" /\ code' = 2 /\ (config.flags = "bad" \/ ~config.secrets)
          \/ /\ phase' = "connect" /\ code' = code
             /\ config.flags = "ok" /\ config.secrets /\ Valid(config)
        BY <1>1 DEF LoadConfig, ParseFlags, Load, Exit
    <2> QED BY <1>1, <2>1, <2>2 DEF Life, Checked, Codes, Pools, Told, ExitCodes, LoadConfig
<1>2. CASE Connect
    <2>1. /\ config.max_conns >= 1 /\ pool = "none"
          /\ UNCHANGED <<config, signalled, cancelled, failed>>
        <3>1. phase = "connect" /\ UNCHANGED <<config, signalled, cancelled, failed>>
            BY <1>2 DEF Connect
        <3>2. config.max_conns \in Int
            BY GatewayAssumption DEF TypeOK
        <3>4. Valid(config)
            BY <3>1 DEF Life, Checked
        <3>3. config.max_conns >= 1
            BY <3>2, <3>4 DEF Valid
        <3> QED BY <3>1, <3>3 DEF Starting
    <2>2. \/ phase' = "exited" /\ code' = 1 /\ pool' = "none"
          \/ phase' = "running" /\ code' = code /\ pool' = "open"
        BY <1>2, <2>1, GatewayAssumption DEF Connect, Exit, TypeOK
    <2> QED BY <1>2, <2>1, <2>2 DEF Life, Checked, Codes, Pools, Told, ExitCodes, Connect
<1>3. CASE SeesFailure
    BY <1>3 DEF SeesFailure, Life, Checked, Codes, Pools, Told, ExitCodes
<1>4. CASE SeesSignal
    BY <1>4 DEF SeesSignal, Life, Checked, Codes, Pools, Told, ExitCodes
<1>5. CASE SeesDone
    BY <1>5 DEF SeesDone, Life, Checked, Codes, Pools, Told, ExitCodes
<1>6. CASE TimesOut
    BY <1>6 DEF TimesOut, MayTimeOut, Life, Checked, Codes, Pools, Told, ExitCodes
<1>7. CASE ClosePool
    BY <1>7 DEF ClosePool, mainVars, Life, Checked, Codes, Pools, Told, ExitCodes
<1>8. CASE Finish
    BY <1>8 DEF Finish, Exit, Life, Checked, Codes, Pools, Told, ExitCodes
<1> QED BY <1>1, <1>2, <1>3, <1>4, <1>5, <1>6, <1>7, <1>8 DEF Main

\* Every step.
LEMMA LifeStep ==
    ASSUME TypeOK, Starting, Life, [Next]_vars
    PROVE  Life'
<1>1. CASE Main
    BY <1>1, LifeMain
<1>2. CASE Signal
    BY <1>2 DEF Signal, mainVars, Life, Checked, Codes, Pools, Told, ExitCodes
<1>3. CASE Listen \/ ServeReturns
    <2>1. phase # "exited" /\ (failed => failed')
        <3>1. failed' = TRUE \/ failed' = failed \/ failed' = (failed \/ grpc = "open")
            BY <1>3, Zenon DEF Listen, ServeReturns
        <3>2. phase # "exited"
            BY <1>3, Zenon DEF Listen, ServeReturns
        <3>3. ASSUME failed PROVE failed'
            <4>1. CASE failed' = TRUE
                BY <4>1, Zenon
            <4>2. CASE failed' = failed
                BY <3>3, <4>2, Zenon
            <4>3. CASE failed' = (failed \/ grpc = "open")
                BY <3>3, <4>3, Zenon
            <4> QED BY <3>1, <4>1, <4>2, <4>3, Zenon
        <3> QED BY <3>2, <3>3, Zenon
    <2>2. UNCHANGED <<config, signalled, cancelled, phase, code, pool>>
        BY <1>3 DEF Listen, ServeReturns, mainVars
    <2> QED BY <2>1, <2>2 DEF Life, Checked, Codes, Pools, Told, ExitCodes
<1>4. CASE GracefulStop \/ WorkerStep \/ UNCHANGED vars
    <2>1. UNCHANGED <<config, signalled, cancelled, failed, phase, code, pool>>
        BY <1>4 DEF GracefulStop, WorkerStep, WorkerWants, WorkerAcquires, WorkerReturns,
                    mainVars, vars
    <2> QED BY <2>1, LifeStays
<1>5. ASSUME NEW c \in Calls, CallStep(c) PROVE Life'
    <2>1. PICK t : Moves(c, t)
        BY <1>5, CallMoves
    <2> QED BY <2>1, LifeStays DEF Moves, mainVars
<1>6. CASE SignalKills
    <2>1. /\ phase' = "exited" /\ code' = -2
          /\ UNCHANGED <<config, signalled, cancelled, failed, pool>>
        BY <1>6 DEF SignalKills, Dies, Exit
    <2>2. failed \/ pool = "none"
        BY <1>6 DEF SignalKills, Starting, Life, Codes
    <2> QED BY <2>1, <2>2 DEF Life, Checked, Codes, Pools, Told, ExitCodes
<1>7. CASE HealthCheckPanics
    <2>1. /\ phase' = "exited" /\ code' = 2 /\ config.health_check_period <= 0
          /\ UNCHANGED <<config, signalled, cancelled, failed, pool>>
        BY <1>7 DEF HealthCheckPanics, Dies, Exit
    <2> QED BY <2>1 DEF Life, Checked, Codes, Pools, Told, ExitCodes
<1> QED BY <1>1, <1>2, <1>3, <1>4, <1>5, <1>6, <1>7 DEF Next, CallStep

----------------------------------------------------------------------------
(* What the calls are told while the process goes down *)

\* The steps that touch neither a call nor what its answer depends on, or touch it in a
\* way that leaves the calls as they are.
LEMMA CallsMain ==
    ASSUME GInv, \/ LoadConfig \/ Connect \/ SeesSignal \/ SeesDone \/ ClosePool \/ Finish
                 \/ SignalKills \/ HealthCheckPanics
    PROVE  Starting' /\ CutOff' /\ \A c \in Calls : Answered(call[c])'
<1>0. Starting /\ CutOff /\ Codes /\ Pools
    BY DEF GInv
<1>1. \A c \in Calls : Answered(call[c])
    BY DEF GInv
<1>2. UNCHANGED <<call, failed, timed_out, grpc>>
    BY DEF LoadConfig, Connect, SeesSignal, SeesDone, ClosePool, Finish, SignalKills,
           HealthCheckPanics, Dies, mainVars, clientVars
<1>3. \A c \in Calls : Running(c)' <=> Running(c)
    BY <1>2 DEF Running
<1>4. \A c \in Calls : Answered(call[c])'
    BY <1>1, <1>2, Zenon DEF Answered
<1>5. CASE LoadConfig
    <2>1. phase = "load" /\ phase' \in {"connect", "exited"}
          /\ UNCHANGED <<pool, server, worker, stopper>>
        BY <1>5 DEF LoadConfig, ParseFlags, Load, Exit, clientVars
    <2> QED BY <1>0, <1>2, <1>3, <1>4, <2>1, Zenon DEF Starting, CutOff, Leaving, Admits
<1>6. CASE Connect
    <2>1. phase = "connect" /\ phase' \in {"running", "exited"} /\ stopper' = stopper
        BY <1>6 DEF Connect, Exit
    <2> QED BY <1>0, <1>2, <1>3, <1>4, <2>1, Zenon DEF Starting, CutOff, Leaving, Admits
<1>7. CASE SeesSignal
    <2>1. phase' = "draining" /\ stopper' = "spawned"
        BY <1>7 DEF SeesSignal
    <2> QED BY <1>4, <2>1, Zenon DEF Starting, CutOff, Leaving, Admits
<1>8. CASE SeesDone
    <2>1. phase' = "closing" /\ stopper = "done" /\ stopper' = stopper
        BY <1>8 DEF SeesDone, IsDrained
    <2> QED BY <1>0, <1>2, <1>3, <1>4, <2>1, Zenon DEF Starting, CutOff, Leaving, Admits
<1>9. CASE ClosePool \/ Finish
    <2>1. phase = "closing" /\ phase' \in {"closing", "exited"} /\ stopper' = stopper
          /\ code' = code
        BY <1>9 DEF ClosePool, Finish, Exit, mainVars
    <2> QED BY <1>0, <1>2, <1>3, <1>4, <2>1, Zenon DEF Starting, CutOff, Leaving, Admits
<1>10. CASE SignalKills \/ HealthCheckPanics
    <2>1. /\ phase' = "exited" /\ UNCHANGED <<pool, server, worker, stopper>>
          /\ phase \in {"load", "closing"} \/ code' = 2
        BY <1>10 DEF SignalKills, HealthCheckPanics, Dies, Exit, clientVars
    <2> QED BY <1>0, <1>2, <1>3, <1>4, <2>1, Zenon DEF Starting, CutOff, Leaving, Admits
<1> QED BY <1>5, <1>6, <1>7, <1>8, <1>9, <1>10

\* Stop cuts every call that runs, and run() has a reason for it that is seen later.
LEMMA CallsStopped ==
    ASSUME GInv, SeesFailure \/ TimesOut
    PROVE  Starting' /\ CutOff' /\ \A c \in Calls : Answered(call[c])'
<1>1. Stop /\ Plain
    BY TypeParts DEF GInv, SeesFailure, TimesOut
<1>2. /\ \A c \in Calls : call'[c].pc = call[c].pc
      /\ \A c \in Calls : call'[c].reply = call[c].reply
      /\ \A c \in Calls : Running(c) => call'[c].cut
      /\ grpc' = "stopped"
    BY <1>1, PlainStops
<1>3. phase' = "closing" /\ stopper' = stopper
    BY DEF SeesFailure, TimesOut
<1>4. timed_out' \/ failed'
    <2>1. CASE SeesFailure
        BY <2>1, Zenon DEF SeesFailure
    <2>2. CASE TimesOut
        BY <2>2, Zenon DEF TimesOut
    <2> QED BY <2>1, <2>2
<1>5. \A c \in Calls : Running(c)' <=> Running(c)
    BY <1>2 DEF Running
<1>6. Starting'
    BY <1>3, Zenon DEF Starting
<1>7. CutOff'
    <2>1. grpc' # "open" /\ ~Admits'
        BY <1>2 DEF Admits
    <2> QED BY <1>2, <1>3, <1>5, <2>1, Zenon DEF CutOff, GInv
<1>8. ASSUME NEW c \in Calls PROVE Answered(call[c])'
    BY <1>2, <1>4, Zenon DEF Answered, GInv
<1> QED BY <1>6, <1>7, <1>8

\* The server, the worker, the signal, and GracefulStop, which is done when no call runs.
LEMMA CallsRest ==
    ASSUME GInv, \/ Signal \/ Listen \/ ServeReturns \/ GracefulStop \/ WorkerStep
                 \/ UNCHANGED vars
    PROVE  Starting' /\ CutOff' /\ \A c \in Calls : Answered(call[c])'
<1>0. Starting /\ CutOff
    BY DEF GInv
<1>1. \A c \in Calls : Answered(call[c])
    BY DEF GInv
<1>2. UNCHANGED <<call, timed_out, phase, code, pool>>
    BY DEF Signal, Listen, ServeReturns, GracefulStop, WorkerStep, WorkerWants,
           WorkerAcquires, WorkerReturns, mainVars, clientVars, vars
<1>3. \A c \in Calls : Running(c)' <=> Running(c)
    BY <1>2 DEF Running
<1>4. failed => failed'
    <2>1. \/ failed' = TRUE \/ failed' = failed \/ failed' = (failed \/ grpc = "open")
        BY Zenon DEF Signal, Listen, ServeReturns, GracefulStop, WorkerStep, WorkerWants,
                     WorkerAcquires, WorkerReturns, mainVars, vars
    <2>2. CASE failed' = TRUE
        BY <2>2, Zenon
    <2>3. ASSUME failed, failed' = failed PROVE failed'
        BY <2>3, Zenon
    <2>4. ASSUME failed, failed' = (failed \/ grpc = "open") PROVE failed'
        BY <2>4, Zenon
    <2> QED BY <2>1, <2>2, <2>3, <2>4, Zenon
<1>5. ASSUME NEW c \in Calls PROVE Answered(call[c])'
    <2>1. Answered(call[c])
        BY <1>1
    <2> QED BY <1>2, <1>4, <2>1, Zenon DEF Answered
<1>6. CASE GracefulStop
    <2>1. UNCHANGED <<server, worker>> /\ stopper # "off"
        BY <1>6 DEF GracefulStop, clientVars
    <2>2. Starting'
        BY <1>0, <1>2, <1>3, <2>1, Zenon DEF Starting
    <2>3. (~Admits => ~Admits') /\ (grpc # "open" => grpc' # "open")
        BY <1>6 DEF GracefulStop, Admits
    <2>4. ASSUME stopper = "spawned", stopper' = "stopping", grpc' # "open" PROVE CutOff'
        BY <1>0, <1>2, <1>3, <2>3, <2>4, Zenon DEF CutOff, Leaving
    <2>5. ASSUME stopper = "stopping", stopper' = "stopping" PROVE CutOff'
        BY <1>0, <1>2, <1>3, <2>3, <2>5, Zenon DEF CutOff, Leaving
    <2>6. ASSUME stopper = "stopping", stopper' = "done", ~Admits, \A c \in Calls : ~Running(c)
          PROVE  CutOff'
        BY <1>0, <1>2, <1>3, <2>3, <2>6, Zenon DEF CutOff, Leaving
    <2>7. \/ stopper = "spawned" /\ stopper' = "stopping" /\ grpc' # "open"
          \/ stopper = "stopping" /\ stopper' = "stopping"
          \/ /\ stopper = "stopping" /\ stopper' = "done"
             /\ ~Admits /\ \A c \in Calls : ~Running(c)
        BY <1>6 DEF GracefulStop
    <2>8. CutOff'
        BY <2>4, <2>5, <2>6, <2>7
    <2> QED BY <1>5, <2>2, <2>8
<1>7. CASE ~GracefulStop
    <2>1. UNCHANGED <<grpc, stopper>>
        BY <1>7 DEF Signal, Listen, ServeReturns, WorkerStep, WorkerWants,
                    WorkerAcquires, WorkerReturns, mainVars, clientVars, vars
    <2>2. CutOff'
        BY <1>0, <1>2, <1>3, <2>1, Zenon DEF CutOff, Leaving, Admits
    <2>3. phase \in {"load", "connect"} => UNCHANGED <<server, worker>>
        BY <1>0, <1>7 DEF Starting, Signal, Listen, ServeReturns, WorkerStep, WorkerWants,
                          WorkerAcquires, WorkerReturns, mainVars, clientVars, vars
    <2>4. Starting'
        BY <1>0, <1>2, <1>3, <2>1, <2>3, Zenon DEF Starting
    <2> QED BY <1>5, <2>2, <2>4
<1> QED BY <1>6, <1>7

\* A step of a handler: only one that has been cut finds the pool closed, and none is
\* accepted that would be.
LEMMA CallsMove ==
    ASSUME GInv, NEW c \in Calls, NEW t, Moves(c, t)
    PROVE  Starting' /\ CutOff' /\ \A b \in Calls : Answered(call[b])'
<1>0. Starting /\ CutOff /\ Pools /\ call \in [Calls -> CallState]
    BY DEF GInv, TypeOK
<1>1. /\ UNCHANGED <<server, grpc, failed, phase, code, stopper, timed_out, worker, pool>>
      /\ call' = [call EXCEPT ![c] = t]
    BY DEF Moves, mainVars
<1>2. call'[c] = t /\ \A b \in Calls : b # c => call'[b] = call[b]
    BY <1>0, <1>1
<1>3. Running(c)' <=> t.pc \in {"wants", "holds"}
    BY <1>2 DEF Running
<1>4. \A b \in Calls : b # c => (Running(b)' <=> Running(b))
    BY <1>2 DEF Running
<1>5. /\ t.pc \in {"wants", "holds"} =>
           \/ Running(c) /\ (call[c].cut => t.cut)
           \/ server = "serving" /\ Admits /\ phase # "exited"
      /\ t.cut => call[c].cut
      /\ t.reply = "pool_closed" =>
           \/ call[c].reply = "pool_closed"
           \/ pool = "closed" /\ phase # "exited" /\ Running(c) /\ ~call[c].cut
    BY Zenon DEF Moves
<1>6. Starting'
    <2>1. phase \in {"load", "connect"} => ~(Running(c)')
        BY <1>0, <1>3, <1>5 DEF Starting
    <2> QED BY <1>0, <1>1, <1>4, <2>1, Zenon DEF Starting
<1>7. CutOff'
    <2>1. (stopper = "done" => ~(Running(c)'))
        BY <1>0, <1>3, <1>5 DEF CutOff
    <2>2. Leaving => (Running(c)' => t.cut)
        <3>1. ASSUME Leaving, Running(c)' PROVE t.cut
            <4>1. Running(c) /\ (call[c].cut => t.cut)
                BY <1>0, <1>3, <1>5, <3>1 DEF CutOff, Leaving
            <4>2. call[c].cut
                BY <1>0, <3>1, <4>1, Zenon DEF CutOff
            <4> QED BY <4>1, <4>2
        <3> QED BY <3>1
    <2> QED BY <1>0, <1>1, <1>2, <1>4, <2>1, <2>2, Zenon DEF CutOff, Leaving, Admits
<1>8. Answered(call[c])'
    <2>1. Answered(call[c])
        BY DEF GInv
    <2>2. t.reply # "pool_closed"
        <3>1. ~(pool = "closed" /\ phase # "exited" /\ Running(c) /\ ~call[c].cut)
            BY <1>0, Zenon DEF Pools, CutOff, Leaving
        <3> QED BY <1>5, <2>1, <3>1, Zenon DEF Answered
    <2>3. t.cut => timed_out \/ failed
        BY <1>5, <2>1, Zenon DEF Answered
    <2> QED BY <1>1, <1>2, <2>2, <2>3, Zenon DEF Answered
<1>9. ASSUME NEW b \in Calls, b # c PROVE Answered(call[b])'
    <2>1. Answered(call[b])
        BY DEF GInv
    <2> QED BY <1>1, <1>2, <1>9, <2>1, Zenon DEF Answered
<1> QED BY <1>6, <1>7, <1>8, <1>9

----------------------------------------------------------------------------
(* The theorems *)

\* The invariant holds before anything runs.
LEMMA GStart == Init => GInv
<1> SUFFICES ASSUME Init PROVE GInv
    OBVIOUS
<1> USE DEF Init
<1>1. \A c \in Calls : call[c] = NoCall
    OBVIOUS
<1>2. NoCall \in CallState /\ NoCall.pc = "none" /\ ~NoCall.cut /\ NoCall.reply = "none"
    <2>1. 0 \in 0..2
        OBVIOUS
    <2> QED BY <2>1, Zenon DEF NoCall, CallState
<1>3. \A c \in Calls : ~Running(c) /\ Answered(call[c])
    BY <1>1, <1>2 DEF Running, Answered
<1>4. Plain
    <2>1. call \in [Calls -> CallState]
        BY <1>2
    <2>2. code \in -2..2
        OBVIOUS
    <2> QED BY <2>1, <2>2, Zenon DEF Plain, Phases
<1>5. Connections
    <2>1. Using(call, worker) = {}
        BY <1>1, <1>2 DEF Using
    <2> QED BY <2>1, FS_EmptySet DEF Connections
<1>6. TypeOK /\ IsFiniteSet(holders)
    BY <1>4, <1>5, TypeParts
<1>7. Starting /\ CutOff
    BY <1>3 DEF Starting, CutOff, Leaving
<1>8. Checked /\ Codes /\ Pools /\ Told /\ ExitCodes
    BY DEF Checked, Codes, Pools, Told, ExitCodes
<1> QED BY <1>3, <1>6, <1>7, <1>8 DEF GInv

\* It is inductive.
LEMMA GStep == GInv /\ [Next]_vars => GInv'
<1> SUFFICES ASSUME GInv, [Next]_vars PROVE GInv'
    OBVIOUS
<1>0. TypeOK /\ IsFiniteSet(holders) /\ Starting
    BY DEF GInv
<1>1. TypeOK' /\ IsFiniteSet(holders')
    BY <1>0, TypeStep
<1>2. Life'
    <2>1. Life
        BY DEF GInv, Life
    <2> QED BY <1>0, <2>1, LifeStep
<1>3. Starting' /\ CutOff' /\ \A c \in Calls : Answered(call[c])'
    <2>1. ASSUME NEW c \in Calls, CallStep(c)
          PROVE  Starting' /\ CutOff' /\ \A b \in Calls : Answered(call[b])'
        <3>1. PICK t : Moves(c, t)
            BY <1>0, <2>1, CallMoves
        <3> QED BY <3>1, CallsMove
    <2> QED BY <2>1, CallsMain, CallsStopped, CallsRest DEF Next, Main, CallStep
<1> QED BY <1>1, <1>2, <1>3 DEF GInv, Life

\* It holds throughout.
LEMMA GAlways == Spec => []GInv
    BY GStart, GStep, PTL DEF Spec

\* The types, and with them that the pool is never overdrawn: whatever the number of
\* calls, and however they interleave with the worker, no more connections are in
\* use than max_conns.
THEOREM GatewayTyped == Spec => []TypeOK
<1>1. GInv => TypeOK
    BY DEF GInv
<1> QED BY <1>1, GAlways, PTL

\* The exit code tells why the process ended, whatever came at the same time: 0 only
\* after a signal and with the pool closed, or for -h; 1 only for a start or a server
\* that failed; 2 only for wrong flags, a missing secret or a health check period that
\* is not positive.
THEOREM ExitCodesTell == Spec => []ExitCodes
<1>1. GInv => ExitCodes
    BY DEF GInv
<1> QED BY <1>1, GAlways, PTL

\* A call that was accepted is answered by its handler, unless the server failed, the
\* time to drain was up or the process panicked: none finds the pool closed, and none
\* that was not cut is left when run() returns.
THEOREM AcceptedAnswered == Spec => []AcceptedIsAnswered
<1>1. GInv => AcceptedIsAnswered
    BY DEF GInv, CutOff, Leaving, Answered, AcceptedIsAnswered
<1> QED BY <1>1, GAlways, PTL
=============================================================================
