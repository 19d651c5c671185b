----------------------------- MODULE Lifecycle -----------------------------
(***************************************************************************)
(* One process of the API from main to exit: cmd/api/main.go validates the *)
(* configuration, NewApp (internal/app.go) opens the pools, pings them with*)
(* the Starter, starts the relay and builds the server, Run serves until a *)
(* signal or a listen error, and the Closer (lifecycle/closer.go) drains   *)
(* and then releases, each phase under its own deadline within the total.  *)
(*                                                                         *)
(* Time is discrete and kept as what is left of each deadline.  A tick of  *)
(* the clock never overtakes a step that is ready to run in the goroutine  *)
(* that waits for it; it does overtake whatever calls the network.         *)
(***************************************************************************)
EXTENDS Integers, FiniteSets, FiniteSetsExt

CONSTANTS
    Configs,      \* the configurations the process may be started with
    DedupGrace,   \* dedupGrace
    SettleGrace,  \* settleGrace
    MaxRequests   \* bound: HTTP requests in flight

(* Durations in ticks of the clock; "other" stands for the sections whose  *)
(* Validate looks at nothing but itself.                                   *)
Config == [startup: Nat, total: Nat, phase: Nat, budget: Nat, other: BOOLEAN]

ASSUME ConfigsAssumption == Configs \subseteq Config
ASSUME GraceAssumption == DedupGrace \in Nat /\ SettleGrace \in Nat
ASSUME RequestsAssumption == MaxRequests \in Nat

Drains == {"relay", "shutdown"}
Releases == {"db", "redis", "server"}
Closers == Drains \cup Releases
Pings == {"db", "redis"}

VARIABLES
    cfg,        \* the loaded configuration
    main,       \* where main() is
    code,       \* the exit code it has settled on
    stopped,    \* the workers' context has ended
    health,     \* Health.state
    ping,       \* the Starter's pings
    startLeft,  \* what is left of the Starter's timeout
    closer,     \* every closer: registered, then run by its phase
    totalLeft,  \* what is left of Shutdown.Total
    phaseLeft,  \* what is left of the running phase
    relay,      \* the goroutine of Relay.Run
    tickLeft,   \* what is left of the settle window of its tick
    listener,   \* the goroutine of ListenAndServe
    inflight    \* requests being served

proc == <<main, code, health>>
boot == <<ping, startLeft>>
phases == <<closer, totalLeft, phaseLeft>>
work == <<relay, tickLeft, listener, inflight>>
vars == <<cfg, stopped, proc, boot, phases, work>>

(* "handed" is a closer whose outcome is in the errs channel, "collected"  *)
(* one whose outcome runPhase has received, "lost" one that will never     *)
(* put anything in the channel.                                            *)
TypeOK ==
    /\ cfg \in Configs
    /\ main \in {"config", "open", "pings", "serving", "drain", "release", "exited"}
    /\ code \in {0, 1}
    /\ stopped \in BOOLEAN
    /\ health \in {"starting", "ready", "shutdown"}
    /\ ping \in [Pings -> {"none", "running", "ok", "failed"}]
    /\ closer \in [Closers -> {"absent", "registered", "spawned", "running",
                               "handed", "collected", "lost"}]
    /\ {startLeft, totalLeft, phaseLeft, tickLeft} \subseteq Nat
    /\ relay \in {"off", "waiting", "entering", "tick", "done"}
    /\ listener \in {"off", "opening", "open", "failed", "closed"}
    /\ inflight \in 0 .. MaxRequests

Init ==
    /\ cfg \in Configs
    /\ main = "config"
    /\ code = 0
    /\ stopped = FALSE
    /\ health = "starting"
    /\ ping = [p \in Pings |-> "none"]
    /\ closer = [c \in Closers |-> "absent"]
    /\ startLeft = 0 /\ totalLeft = 0 /\ phaseLeft = 0 /\ tickLeft = 0
    /\ relay = "off"
    /\ listener = "off"
    /\ inflight = 0

-----------------------------------------------------------------------------
(* Configuration.                                                          *)
SettleWindow(c) == c.budget + DedupGrace + SettleGrace

(* Mutant: a phase need not fit twice into the total.                      *)
NoRoomCheck(c) == c.total > 0 /\ c.phase > 0

CloserConfigValid(c) == c.total > 0 /\ c.phase > 0 /\ c.phase <= c.total \div 2

(* Mutant: the settle window is not compared with the phase.               *)
NoWindowCheck(c) == c.startup > 0 /\ c.other /\ CloserConfigValid(c) /\ c.budget > 0

Validate(c) ==
    /\ c.startup > 0
    /\ c.other
    /\ CloserConfigValid(c)
    /\ c.budget > 0
    /\ SettleWindow(c) <= c.phase

(* main: an invalid configuration ends the process before it opens anything.*)
LoadConfig ==
    /\ main = "config"
    /\ IF Validate(cfg)
       THEN main' = "open" /\ UNCHANGED code
       ELSE main' = "exited" /\ code' = 1
    /\ UNCHANGED <<cfg, stopped, health, boot, phases, work>>

-----------------------------------------------------------------------------
(* The closer.  ShutDown takes both lists under its own timeout and runs   *)
(* the drains; an empty phase ends at once.                                *)
Registered(fs) == {c \in fs : closer[c] = "registered"}

RunPhase(fs, left) ==
    /\ closer' = [c \in Closers |-> IF c \in Registered(fs) THEN "spawned" ELSE closer[c]]
    /\ phaseLeft' = Min({cfg.phase, left})

ShutDown ==
    /\ main' = "drain"
    /\ totalLeft' = cfg.total
    /\ RunPhase(Drains, cfg.total)

(* The closers of the running phase that take part in it.                  *)
Current == IF main = "drain" THEN Drains ELSE Releases
Waiting == {c \in Current : closer[c] \in {"spawned", "running", "handed", "lost"}}

(* A goroutine of runPhase enters its closer.  The drains act at once: one *)
(* stops the workers, the other stops the listener.                        *)
CloserRuns(c) ==
    /\ main # "exited" /\ closer[c] = "spawned"
    /\ closer' = [closer EXCEPT ![c] = "running"]
    /\ stopped' = (stopped \/ c = "relay")
    /\ listener' = IF c \in {"shutdown", "server"} THEN "closed" ELSE listener
    /\ UNCHANGED <<cfg, proc, boot, totalLeft, phaseLeft, relay, tickLeft, inflight>>

(* What a closer waits for: Drain for the relay or the phase, Shutdown for *)
(* the requests or the phase; the pools and Close wait for nothing we know.*)
CanReturn(c) ==
    CASE c = "relay" -> relay = "done" \/ phaseLeft = 0
      [] c = "shutdown" -> inflight = 0 \/ phaseLeft = 0
      [] OTHER -> TRUE

(* A closer returns, with or without an error: both are one send to errs.  *)
CloserReturns(c) ==
    /\ main # "exited" /\ closer[c] = "running" /\ CanReturn(c)
    /\ closer' = [closer EXCEPT ![c] = "handed"]
    /\ UNCHANGED <<cfg, proc, stopped, boot, totalLeft, phaseLeft, work>>

(* Mutant: a closer that panics reports nothing.                           *)
SilentPanic(c) ==
    /\ main # "exited" /\ closer[c] = "running" /\ c # "relay"
    /\ closer' = [closer EXCEPT ![c] = "lost"]
    /\ UNCHANGED <<cfg, proc, stopped, boot, totalLeft, phaseLeft, work>>

(* It panics, and the deferred recover sends nil in its place.  The drain  *)
(* of the relay only cancels a context and waits on two channels.          *)
CloserPanics(c) ==
    /\ main # "exited" /\ closer[c] = "running" /\ c # "relay"
    /\ closer' = [closer EXCEPT ![c] = "handed"]
    /\ UNCHANGED <<cfg, proc, stopped, boot, totalLeft, phaseLeft, work>>

(* runPhase receives one outcome.                                          *)
Collect(c) ==
    /\ c \in Waiting /\ main \in {"drain", "release"} /\ closer[c] = "handed"
    /\ closer' = [closer EXCEPT ![c] = "collected"]
    /\ UNCHANGED <<cfg, proc, stopped, boot, totalLeft, phaseLeft, work>>

(* Mutant: a phase waits for all of its closers.                           *)
WaitForAll == Waiting = {}

(* A phase ends when every outcome is in, or at its deadline, abandoning   *)
(* the rest.  After the drains the releases run; then the process exits.   *)
PhaseOver == Waiting = {} \/ phaseLeft = 0

(* Mutant: a drain that does not end in time ends the shutdown.            *)
GiveUpOnStuckDrain ==
    /\ main = "drain" /\ PhaseOver
    /\ main' = IF Waiting = {} THEN "release" ELSE "exited"
    /\ RunPhase(IF Waiting = {} THEN Releases ELSE {}, totalLeft)
    /\ UNCHANGED <<cfg, code, stopped, health, boot, totalLeft, work>>

DrainOver ==
    /\ main = "drain" /\ PhaseOver
    /\ main' = "release"
    /\ RunPhase(Releases, totalLeft)
    /\ UNCHANGED <<cfg, code, stopped, health, boot, totalLeft, work>>

ReleaseOver ==
    /\ main = "release" /\ PhaseOver
    /\ main' = "exited"
    /\ UNCHANGED <<cfg, code, stopped, health, boot, phases, work>>

-----------------------------------------------------------------------------
(* NewApp.  NewMySQL may refuse the DSN; NewRedis never fails.             *)
OpenPools ==
    /\ main = "open"
    /\ main' = "pings"
    /\ closer' = [closer EXCEPT !["db"] = "registered", !["redis"] = "registered"]
    /\ ping' = [p \in Pings |-> "running"]
    /\ startLeft' = cfg.startup
    /\ UNCHANGED <<cfg, code, stopped, health, totalLeft, phaseLeft, work>>

OpenFails ==
    /\ main = "open"
    /\ code' = 1 /\ stopped' = TRUE
    /\ ShutDown
    /\ UNCHANGED <<cfg, health, boot, work>>

(* A ping answers; the Redis ping logs its failure and returns nil.  The   *)
(* context, ended by the timeout or by a signal, makes it fail.            *)
PingEnds(p) ==
    /\ main = "pings" /\ ping[p] = "running"
    /\ \E ok \in BOOLEAN :
          /\ ok => startLeft > 0 /\ ~stopped
          /\ ping' = [ping EXCEPT ![p] = IF ok \/ p = "redis" THEN "ok" ELSE "failed"]
    /\ UNCHANGED <<cfg, proc, stopped, startLeft, phases, work>>

PingsOver == main = "pings" /\ \A p \in Pings : ping[p] \in {"ok", "failed"}

StartFails ==
    /\ PingsOver /\ \E p \in Pings : ping[p] = "failed"
    /\ code' = 1 /\ stopped' = TRUE
    /\ ShutDown
    /\ UNCHANGED <<cfg, health, boot, work>>

(* The rest of NewApp and the head of Run: the relay, the server and their *)
(* closers; the process is ready.                                          *)
Started ==
    /\ PingsOver /\ \A p \in Pings : ping[p] = "ok"
    /\ main' = "serving"
    /\ relay' = "waiting"
    /\ listener' = "opening"
    /\ closer' = [c \in Closers |-> "registered"]
    /\ health' = "ready"
    /\ UNCHANGED <<cfg, code, stopped, boot, totalLeft, phaseLeft, tickLeft, inflight>>

(* ListenAndServe binds its port, or reports that it cannot go on.         *)
Listen ==
    /\ main # "exited"
    /\ \/ listener = "opening" /\ listener' = "open"
       \/ listener \in {"opening", "open"} /\ listener' = "failed"
    /\ UNCHANGED <<cfg, proc, stopped, boot, phases, relay, tickLeft, inflight>>

(* Mutant: readiness is not withdrawn before the shutdown.                 *)
ReadyUntilReleased ==
    /\ main = "serving" /\ (stopped \/ listener = "failed")
    /\ code' = IF stopped THEN code ELSE 1
    /\ stopped' = TRUE
    /\ ShutDown
    /\ UNCHANGED <<cfg, health, boot, work>>

(* Run returns on a signal or on the server's error, and main shuts down.  *)
RunReturns ==
    /\ main = "serving" /\ (stopped \/ listener = "failed")
    /\ code' \in (IF stopped THEN {0} ELSE {}) \cup (IF listener = "failed" THEN {1} ELSE {})
    /\ stopped' = TRUE
    /\ health' = "shutdown"
    /\ ShutDown
    /\ UNCHANGED <<cfg, boot, work>>

(* SIGINT or SIGTERM, at any moment after main installed its handler.      *)
Signal ==
    /\ main \in {"open", "pings", "serving"} /\ ~stopped
    /\ stopped' = TRUE
    /\ UNCHANGED <<cfg, proc, boot, phases, work>>

-----------------------------------------------------------------------------
(* The relay: a tick checks the context, then opens a settle window that   *)
(* the end of the context does not shorten.                                *)
RelayWakes ==
    /\ main # "exited" /\ relay = "waiting" /\ ~stopped
    /\ relay' = "entering"
    /\ UNCHANGED <<cfg, proc, stopped, boot, phases, tickLeft, listener, inflight>>

TickStarts ==
    /\ main # "exited" /\ relay = "entering"
    /\ relay' = "tick"
    /\ tickLeft' = SettleWindow(cfg)
    /\ UNCHANGED <<cfg, proc, stopped, boot, phases, listener, inflight>>

TickEnds ==
    /\ main # "exited" /\ relay = "tick"
    /\ relay' = "waiting"
    /\ tickLeft' = 0
    /\ UNCHANGED <<cfg, proc, stopped, boot, phases, listener, inflight>>

RelayStops ==
    /\ main # "exited" /\ relay = "waiting" /\ stopped
    /\ relay' = "done"
    /\ UNCHANGED <<cfg, proc, stopped, boot, phases, tickLeft, listener, inflight>>

(* HTTP requests come while the listener is open and take as long as they  *)
(* like.                                                                   *)
Request ==
    /\ main # "exited"
    /\ \/ listener = "open" /\ inflight < MaxRequests /\ inflight' = inflight + 1
       \/ inflight > 0 /\ inflight' = inflight - 1
    /\ UNCHANGED <<cfg, proc, stopped, boot, phases, relay, tickLeft, listener>>

(* What /readyz answers, given whether the database answers its ping.      *)
CheckReadiness(dbAnswers) ==
    CASE health = "starting" -> "starting"
      [] health = "shutdown" -> "shutting down"
      [] OTHER -> IF dbAnswers THEN "ok" ELSE "not ready"

(* The clock.                                                              *)
Urgent ==
    \/ main \in {"config", "open"} \/ PingsOver
    \/ main = "pings" /\ (startLeft = 0 \/ stopped)
    \/ main = "serving" /\ (stopped \/ listener = "failed")
    \/ main \in {"drain", "release"} /\ PhaseOver
    \/ \E c \in Closers : closer[c] = "spawned"
    \/ main \in {"drain", "release"} /\ \E c \in Waiting : closer[c] = "handed"
    \/ relay = "entering"

Down(n) == IF n > 0 THEN n - 1 ELSE 0

Tock ==
    /\ main # "exited" /\ ~Urgent
    /\ startLeft' = Down(startLeft)
    /\ totalLeft' = Down(totalLeft)
    /\ phaseLeft' = Down(phaseLeft)
    /\ tickLeft' = Down(tickLeft)
    /\ UNCHANGED <<cfg, proc, stopped, ping, closer, relay, listener, inflight>>

Next ==
    \/ LoadConfig \/ OpenPools \/ OpenFails \/ StartFails \/ Started
    \/ \E p \in Pings : PingEnds(p)
    \/ Listen \/ RunReturns \/ Signal \/ DrainOver \/ ReleaseOver
    \/ \E c \in Closers : CloserRuns(c) \/ CloserReturns(c) \/ CloserPanics(c) \/ Collect(c)
    \/ RelayWakes \/ TickStarts \/ TickEnds \/ RelayStops
    \/ Request \/ Tock

Spec == Init /\ [][Next]_vars

(* main's goroutine and the runtime's own (a context's timer, a goroutine  *)
(* that only has to start) always go on.  Nothing is assumed of a closer,  *)
(* a tick or a request: each may hang for ever.                            *)
Fairness ==
    /\ WF_vars(LoadConfig) /\ WF_vars(OpenPools \/ OpenFails)
    /\ WF_vars(StartFails \/ Started) /\ WF_vars(RunReturns)
    /\ WF_vars(DrainOver) /\ WF_vars(ReleaseOver)
    /\ \A p \in Pings : WF_vars(PingEnds(p))
    /\ \A c \in Closers : WF_vars(CloserRuns(c)) /\ WF_vars(Collect(c))
    /\ WF_vars(TickStarts) /\ WF_vars(Tock)

FairSpec == Spec /\ Fairness

-----------------------------------------------------------------------------
(* Config.Validate compares the settle window with the shutdown phase so   *)
(* that Drain outlasts any tick: once the release phase has begun, no tick *)
(* can still be inside its transaction's window, whatever the tick was     *)
(* doing when the signal came.                                             *)
SettledBeforeRelease ==
    main \in {"release", "exited"} => ~(relay = "tick" /\ tickLeft > 0)

(* CloserConfig.Validate keeps half of the total for the release: a drain  *)
(* that used up its phase leaves a whole phase to let go of connections.   *)
ReleaseHasAFullPhase ==
    [][main = "drain" /\ main' = "release" => phaseLeft' = cfg.phase]_vars

(* runPhase is told of every closer that ends, a panicking one included:   *)
(* time passes in a phase only while one of its closers is at work.        *)
NoIdleWait ==
    [][phaseLeft' < phaseLeft /\ main' = main
          => \E c \in Waiting : closer[c] = "running"]_vars

(* Whichever way the process ends (a refused DSN, a failed ping, a listen  *)
(* error, a signal), every closer registered by then has been run, and one *)
(* that has not answered was given until its deadline.                     *)
NothingForgotten ==
    main = "exited" => \A c \in Closers :
        /\ closer[c] \notin {"registered", "spawned"}
        /\ c \in Releases /\ closer[c] = "running" => phaseLeft = 0

(* /readyz says ok only while nothing has been taken down: no closer has   *)
(* run and the relay and the server were started; and every variable has   *)
(* its type.                                                               *)
ReadyOnlyWhileServing ==
    /\ TypeOK
    /\ CheckReadiness(TRUE) = "ok" =>
        main = "serving" /\ \A c \in Closers : closer[c] = "registered"

(* Whatever closers, ticks and requests do, a signalled process exits.     *)
ShutdownEnds == stopped ~> main = "exited"

-----------------------------------------------------------------------------
(* The inductive invariant behind the properties above.                    *)

(* Only a configuration that Validate accepted gets past main's first step.*)
ConfigInv ==
    main # "config" =>
        \/ Validate(cfg)
        \/ main = "exited" /\ relay = "off" /\ \A c \in Closers : closer[c] = "absent"

(* Before a phase runs its closers only wait to be called; while one is    *)
(* about to be entered the phase has lost no time; what is left of the     *)
(* total exceeds what is left of the drain by the rest of the total.       *)
CloserInv ==
    /\ \A c \in Closers :
          /\ closer[c] # "lost"
          /\ main \in {"config", "open"} => closer[c] = "absent"
          /\ main = "pings" => closer[c] \in {"absent", "registered"}
          /\ main = "serving" => closer[c] = "registered"
          /\ main = "drain" => IF c \in Drains THEN closer[c] # "registered"
                               ELSE closer[c] \in {"absent", "registered"}
          /\ main \in {"release", "exited"} => closer[c] # "registered"
          /\ closer[c] = "spawned" => /\ phaseLeft = cfg.phase
                                      /\ main = IF c \in Drains THEN "drain" ELSE "release"
          /\ main = "exited" /\ c \in Releases /\ closer[c] = "running" => phaseLeft = 0
    /\ main \notin {"drain", "release", "exited"} => phaseLeft = 0
    /\ main = "drain" => /\ totalLeft = cfg.total - cfg.phase + phaseLeft
                         /\ phaseLeft <= cfg.phase
    /\ health = "ready" => main = "serving"

(* A tick that is under way when the drain begins, or that had passed its  *)
(* check by then, has no more left of its window than the drain has.       *)
RelayInv ==
    /\ relay = "off" <=> closer["relay"] = "absent"
    /\ relay = "tick" => tickLeft <= SettleWindow(cfg)
    /\ main \in {"drain", "release"} => stopped
    /\ main = "drain" =>
          /\ relay = "entering" => phaseLeft = cfg.phase
          /\ relay = "tick" => tickLeft <= phaseLeft
          /\ closer["relay"] \in {"handed", "collected"} => relay = "done" \/ phaseLeft = 0
    /\ main \in {"release", "exited"} => /\ relay # "entering"
                                         /\ relay = "tick" => tickLeft = 0

LifeInv == TypeOK /\ ConfigInv /\ CloserInv /\ RelayInv
=============================================================================
