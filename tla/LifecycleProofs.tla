-------------------------- MODULE LifecycleProofs --------------------------
(***************************************************************************)
(* Shutdown is orderly for every configuration, whatever its closers, its  *)
(* relay and its requests do.                                              *)
(***************************************************************************)
EXTENDS Lifecycle, TLAPS

(* The deadline of a phase is the smaller of two.                          *)
LEMMA MinOfTwo ==
    ASSUME NEW a \in Nat, NEW b \in Nat
    PROVE  Min({a, b}) = IF a <= b THEN a ELSE b
  <1> DEFINE m == IF a <= b THEN a ELSE b
  <1>1. m \in {a, b} /\ \A y \in {a, b} : m <= y
    OBVIOUS
  <1>2. \A x \in {a, b} : (\A y \in {a, b} : x =< y) => x = m
    OBVIOUS
  <1> QED
    BY <1>1, <1>2 DEF Min

(* What a configuration that Validate accepted gives the arithmetic below. *)
LEMMA ValidConfig ==
    ASSUME TypeOK, Validate(cfg)
    PROVE  /\ cfg.startup \in Nat /\ cfg.phase \in Nat \ {0} /\ cfg.total \in Nat
           /\ cfg.phase <= cfg.total - cfg.phase
           /\ SettleWindow(cfg) \in Nat /\ SettleWindow(cfg) <= cfg.phase
  <1>1. cfg \in Config
    BY ConfigsAssumption DEF TypeOK
  <1>2. /\ cfg.startup \in Nat /\ cfg.phase \in Nat /\ cfg.total \in Nat /\ cfg.budget \in Nat
        /\ SettleWindow(cfg) \in Nat
    BY <1>1, GraceAssumption DEF Config, SettleWindow
  <1>3. /\ cfg.phase > 0 /\ cfg.phase <= cfg.total \div 2
        /\ SettleWindow(cfg) <= cfg.phase
    BY DEF Validate, CloserConfigValid
  <1>4. cfg.phase <= cfg.total - cfg.phase
    BY <1>2, <1>3, SMT
  <1> QED
    BY <1>2, <1>3, <1>4

(* A relay runs only under a configuration that was accepted.              *)
LEMMA RunningIsValid == ASSUME LifeInv, relay # "off" PROVE Validate(cfg)
  BY DEF LifeInv, ConfigInv, CloserInv, RelayInv, Closers, Drains

(* The initial state satisfies the invariant.                              *)
LEMMA InitLife == Init => LifeInv
  <1> SUFFICES ASSUME Init PROVE LifeInv
    OBVIOUS
  <1>1. TypeOK
    <2>1. inflight \in 0 .. MaxRequests
      BY RequestsAssumption DEF Init
    <2>2. closer \in [Closers -> {"absent", "registered", "spawned", "running",
                                  "handed", "collected", "lost"}]
      BY DEF Init
    <2>3. ping \in [Pings -> {"none", "running", "ok", "failed"}]
      BY DEF Init
    <2>4. {startLeft, totalLeft, phaseLeft, tickLeft} \subseteq Nat
      BY DEF Init
    <2> QED
      BY <2>1, <2>2, <2>3, <2>4 DEF Init, TypeOK
  <1>2. ConfigInv /\ CloserInv /\ RelayInv
    BY DEF Init, ConfigInv, CloserInv, RelayInv, Closers, Drains
  <1> QED
    BY <1>1, <1>2 DEF LifeInv

(* main checks the configuration.                                          *)
LEMMA LoadConfigLife == ASSUME LifeInv, LoadConfig PROVE LifeInv'
  <1>1. TypeOK'
    BY DEF LifeInv, LoadConfig, TypeOK, Closers, Drains, Releases, boot, phases, work
  <1>2. ConfigInv'
    <2>1. relay = "off" /\ \A c \in Closers : closer[c] = "absent"
      BY DEF LifeInv, LoadConfig, CloserInv, RelayInv, Closers, Drains
    <2> QED
      BY <2>1 DEF LoadConfig, ConfigInv, Validate, CloserConfigValid, SettleWindow, phases, work
  <1>3. CloserInv'
    BY DEF LifeInv, LoadConfig, CloserInv, TypeOK, Closers, Drains, Releases, boot, phases, work
  <1>4. RelayInv'
    BY DEF LifeInv, LoadConfig, RelayInv, CloserInv, TypeOK, Closers, Drains, Releases, boot,
           phases, work
  <1> QED
    BY <1>1, <1>2, <1>3, <1>4 DEF LifeInv

(* The pools are opened and their closers registered.                      *)
LEMMA OpenPoolsLife == ASSUME LifeInv, OpenPools PROVE LifeInv'
  <1>1. TypeOK'
    <2>1. Validate(cfg)
      BY DEF LifeInv, OpenPools, ConfigInv
    <2>2. startLeft' \in Nat
      BY <2>1, ValidConfig DEF LifeInv, OpenPools
    <2>3. ping' \in [Pings -> {"running"}]
      BY DEF OpenPools
    <2> QED
      BY <2>2, <2>3 DEF LifeInv, OpenPools, TypeOK, work
  <1>2. ConfigInv'
    BY DEF LifeInv, OpenPools, ConfigInv, TypeOK, Closers, Drains, Releases, Pings, work
  <1>3. CloserInv'
    BY DEF LifeInv, OpenPools, CloserInv, TypeOK, Closers, Drains, Releases, Pings, work
  <1>4. RelayInv'
    BY DEF LifeInv, OpenPools, RelayInv, CloserInv, TypeOK, Closers, Drains, Releases, Pings,
           work
  <1> QED
    BY <1>1, <1>2, <1>3, <1>4 DEF LifeInv

(* ShutDown spawns the drains under a whole phase.                         *)
LEMMA ShutDownSteps ==
    ASSUME TypeOK, Validate(cfg), ShutDown
    PROVE  /\ main' = "drain" /\ totalLeft' = cfg.total /\ phaseLeft' = cfg.phase
           /\ closer' = [c \in Closers |-> IF c \in Drains /\ closer[c] = "registered"
                                          THEN "spawned" ELSE closer[c]]
  <1>1. phaseLeft' = Min({cfg.phase, cfg.total})
    BY DEF ShutDown, RunPhase
  <1>2. phaseLeft' = cfg.phase
    BY <1>1, ValidConfig, MinOfTwo
  <1> QED
    BY <1>2 DEF ShutDown, RunPhase, Registered, Closers

(* The drain begins, from wherever main gives up or is told to stop.       *)
LEMMA ShutDownLife ==
    ASSUME LifeInv, ShutDown, main \in {"open", "pings", "serving"},
           code' \in {0, 1}, stopped' = TRUE, health' \in {"starting", "shutdown"},
           UNCHANGED <<cfg, boot, work>>
    PROVE  LifeInv'
  <1>1. Validate(cfg)
    BY DEF LifeInv, ConfigInv
  <1>2. /\ main' = "drain" /\ totalLeft' = cfg.total /\ phaseLeft' = cfg.phase
        /\ closer' = [c \in Closers |-> IF c \in Drains /\ closer[c] = "registered"
                                       THEN "spawned" ELSE closer[c]]
    BY <1>1, ShutDownSteps DEF LifeInv
  <1>3. /\ cfg.phase \in Nat \ {0} /\ cfg.total \in Nat
        /\ SettleWindow(cfg) \in Nat /\ SettleWindow(cfg) <= cfg.phase
    BY <1>1, ValidConfig DEF LifeInv
  <1>4. TypeOK'
    BY <1>2, <1>3 DEF LifeInv, TypeOK, boot, work
  <1>5. ConfigInv'
    BY <1>1, <1>2 DEF ConfigInv, Validate, CloserConfigValid, SettleWindow
  <1>6. CloserInv'
    BY <1>2, <1>3 DEF LifeInv, CloserInv, TypeOK, Closers, Drains, Releases
  <1>7. RelayInv'
    <2>1. relay' = "off" <=> closer'["relay"] = "absent"
      BY <1>2 DEF LifeInv, RelayInv, Closers, Drains, work
    <2>2. closer'["relay"] \notin {"handed", "collected"}
      BY <1>2 DEF LifeInv, CloserInv, Closers, Drains
    <2>3. relay' = "tick" => tickLeft' <= SettleWindow(cfg') /\ tickLeft' <= phaseLeft'
      BY <1>2, <1>3 DEF LifeInv, TypeOK, RelayInv, work
    <2> QED
      BY <1>2, <2>1, <2>2, <2>3 DEF RelayInv
  <1> QED
    BY <1>4, <1>5, <1>6, <1>7 DEF LifeInv

(* A ping ends.                                                            *)
LEMMA PingEndsLife == ASSUME LifeInv, NEW p \in Pings, PingEnds(p) PROVE LifeInv'
  <1>1. TypeOK'
    BY DEF LifeInv, PingEnds, TypeOK, proc, phases, work
  <1>2. ConfigInv'
    BY DEF LifeInv, PingEnds, ConfigInv, TypeOK, proc, phases, work
  <1>3. CloserInv'
    BY DEF LifeInv, PingEnds, CloserInv, TypeOK, proc, phases, work
  <1>4. RelayInv'
    BY DEF LifeInv, PingEnds, RelayInv, CloserInv, TypeOK, proc, phases, work
  <1> QED
    BY <1>1, <1>2, <1>3, <1>4 DEF LifeInv

(* NewApp succeeds.                                                        *)
LEMMA StartedLife == ASSUME LifeInv, Started PROVE LifeInv'
  <1>1. TypeOK'
    BY DEF LifeInv, Started, TypeOK, Closers, Drains, Releases, PingsOver, boot
  <1>2. ConfigInv'
    BY DEF LifeInv, Started, ConfigInv, TypeOK, Closers, Drains, Releases, PingsOver, boot
  <1>3. CloserInv'
    BY DEF LifeInv, Started, CloserInv, TypeOK, Closers, Drains, Releases, PingsOver, boot
  <1>4. RelayInv'
    BY DEF LifeInv, Started, RelayInv, CloserInv, TypeOK, Closers, Drains, Releases, PingsOver,
           boot
  <1> QED
    BY <1>1, <1>2, <1>3, <1>4 DEF LifeInv

(* The listener opens or fails.                                            *)
LEMMA ListenLife == ASSUME LifeInv, Listen PROVE LifeInv'
  <1>1. TypeOK'
    BY DEF LifeInv, Listen, TypeOK, proc, boot, phases
  <1>2. ConfigInv'
    BY DEF LifeInv, Listen, ConfigInv, TypeOK, proc, boot, phases
  <1>3. CloserInv'
    BY DEF LifeInv, Listen, CloserInv, TypeOK, proc, boot, phases
  <1>4. RelayInv'
    BY DEF LifeInv, Listen, RelayInv, CloserInv, TypeOK, proc, boot, phases
  <1> QED
    BY <1>1, <1>2, <1>3, <1>4 DEF LifeInv

(* A signal ends the context of the workers.                               *)
LEMMA SignalLife == ASSUME LifeInv, Signal PROVE LifeInv'
  <1>1. TypeOK'
    BY DEF LifeInv, Signal, TypeOK, proc, boot, phases, work
  <1>2. ConfigInv'
    BY DEF LifeInv, Signal, ConfigInv, TypeOK, proc, boot, phases, work
  <1>3. CloserInv'
    BY DEF LifeInv, Signal, CloserInv, TypeOK, proc, boot, phases, work
  <1>4. RelayInv'
    BY DEF LifeInv, Signal, RelayInv, CloserInv, TypeOK, proc, boot, phases, work
  <1> QED
    BY <1>1, <1>2, <1>3, <1>4 DEF LifeInv

(* The drain ends and the release begins.                                  *)
LEMMA DrainOverLife == ASSUME LifeInv, DrainOver PROVE LifeInv'
  <1>1. TypeOK'
    BY MinOfTwo, ValidConfig DEF LifeInv, DrainOver, TypeOK, Closers, Drains, Releases,
           RunPhase, Registered, PhaseOver, Waiting, Current, ConfigInv, boot, work
  <1>2. ConfigInv'
    BY DEF LifeInv, DrainOver, ConfigInv, TypeOK, Closers, Drains, Releases, RunPhase,
           Registered, PhaseOver, Waiting, Current, boot, work
  <1>3. CloserInv'
    BY MinOfTwo, ValidConfig DEF LifeInv, DrainOver, CloserInv, TypeOK, Closers, Drains,
           Releases, RunPhase, Registered, PhaseOver, Waiting, Current, ConfigInv, boot, work
  <1>4. RelayInv'
    BY MinOfTwo, ValidConfig DEF LifeInv, DrainOver, RelayInv, CloserInv, TypeOK, Closers,
           Drains, Releases, RunPhase, Registered, PhaseOver, Waiting, Current, ConfigInv, boot,
           work
  <1> QED
    BY <1>1, <1>2, <1>3, <1>4 DEF LifeInv

(* The release ends and with it the process.                               *)
LEMMA ReleaseOverLife == ASSUME LifeInv, ReleaseOver PROVE LifeInv'
  <1>1. TypeOK'
    BY DEF LifeInv, ReleaseOver, TypeOK, Closers, Drains, Releases, PhaseOver, Waiting, Current,
           ConfigInv, boot, phases, work
  <1>2. ConfigInv'
    BY DEF LifeInv, ReleaseOver, ConfigInv, TypeOK, Closers, Drains, Releases, PhaseOver,
           Waiting, Current, boot, phases, work
  <1>3. CloserInv'
    BY ValidConfig DEF LifeInv, ReleaseOver, CloserInv, TypeOK, Closers, Drains, Releases,
           PhaseOver, Waiting, Current, ConfigInv, boot, phases, work
  <1>4. RelayInv'
    BY ValidConfig DEF LifeInv, ReleaseOver, RelayInv, CloserInv, TypeOK, Closers, Drains,
           Releases, PhaseOver, Waiting, Current, ConfigInv, boot, phases, work
  <1> QED
    BY <1>1, <1>2, <1>3, <1>4 DEF LifeInv

(* A closer is entered.                                                    *)
LEMMA CloserRunsLife == ASSUME LifeInv, NEW c \in Closers, CloserRuns(c) PROVE LifeInv'
  <1>1. TypeOK'
    BY DEF LifeInv, CloserRuns, TypeOK, Closers, Drains, Releases, proc, boot
  <1>2. ConfigInv'
    BY DEF LifeInv, CloserRuns, ConfigInv, TypeOK, Closers, Drains, Releases, proc, boot
  <1>3. CloserInv'
    BY DEF LifeInv, CloserRuns, CloserInv, TypeOK, Closers, Drains, Releases, proc, boot
  <1>4. RelayInv'
    BY DEF LifeInv, CloserRuns, RelayInv, CloserInv, TypeOK, Closers, Drains, Releases, proc,
           boot
  <1> QED
    BY <1>1, <1>2, <1>3, <1>4 DEF LifeInv

(* A closer returns.                                                       *)
LEMMA CloserReturnsLife == ASSUME LifeInv, NEW c \in Closers, CloserReturns(c) PROVE LifeInv'
  <1>1. TypeOK'
    BY DEF LifeInv, CloserReturns, TypeOK, Closers, Drains, Releases, proc, boot, work
  <1>2. ConfigInv'
    BY DEF LifeInv, CloserReturns, ConfigInv, TypeOK, Closers, Drains, Releases, proc, boot,
           work
  <1>3. CloserInv'
    BY DEF LifeInv, CloserReturns, CloserInv, TypeOK, Closers, Drains, Releases, proc, boot,
           work
  <1>4. RelayInv'
    BY DEF LifeInv, CloserReturns, RelayInv, CloserInv, TypeOK, CanReturn, Closers, Drains,
           Releases, proc, boot, work
  <1> QED
    BY <1>1, <1>2, <1>3, <1>4 DEF LifeInv

(* A closer panics.                                                        *)
LEMMA CloserPanicsLife == ASSUME LifeInv, NEW c \in Closers, CloserPanics(c) PROVE LifeInv'
  <1>1. TypeOK'
    BY DEF LifeInv, CloserPanics, TypeOK, Closers, Drains, Releases, proc, boot, work
  <1>2. ConfigInv'
    BY DEF LifeInv, CloserPanics, ConfigInv, TypeOK, Closers, Drains, Releases, proc, boot, work
  <1>3. CloserInv'
    BY DEF LifeInv, CloserPanics, CloserInv, TypeOK, Closers, Drains, Releases, proc, boot, work
  <1>4. RelayInv'
    BY DEF LifeInv, CloserPanics, RelayInv, CloserInv, TypeOK, Closers, Drains, Releases, proc,
           boot, work
  <1> QED
    BY <1>1, <1>2, <1>3, <1>4 DEF LifeInv

(* runPhase receives an outcome.                                           *)
LEMMA CollectLife == ASSUME LifeInv, NEW c \in Closers, Collect(c) PROVE LifeInv'
  <1>1. TypeOK'
    BY DEF LifeInv, Collect, TypeOK, Closers, Drains, Releases, proc, boot, work
  <1>2. ConfigInv'
    BY DEF LifeInv, Collect, ConfigInv, TypeOK, Closers, Drains, Releases, proc, boot, work
  <1>3. CloserInv'
    BY DEF LifeInv, Collect, CloserInv, TypeOK, Closers, Drains, Releases, proc, boot, work
  <1>4. RelayInv'
    BY DEF LifeInv, Collect, RelayInv, CloserInv, TypeOK, Closers, Drains, Releases, proc, boot,
           work
  <1> QED
    BY <1>1, <1>2, <1>3, <1>4 DEF LifeInv

(* The relay wakes for a tick.                                             *)
LEMMA RelayWakesLife == ASSUME LifeInv, RelayWakes PROVE LifeInv'
  <1>1. TypeOK'
    BY DEF LifeInv, RelayWakes, TypeOK, proc, boot, phases
  <1>2. ConfigInv'
    BY DEF LifeInv, RelayWakes, ConfigInv, TypeOK, proc, boot, phases
  <1>3. CloserInv'
    BY DEF LifeInv, RelayWakes, CloserInv, TypeOK, proc, boot, phases
  <1>4. RelayInv'
    BY DEF LifeInv, RelayWakes, RelayInv, CloserInv, TypeOK, proc, boot, phases
  <1> QED
    BY <1>1, <1>2, <1>3, <1>4 DEF LifeInv

(* A tick opens its settle window, which no drain under way is shorter than.*)
LEMMA TickStartsLife == ASSUME LifeInv, TickStarts PROVE LifeInv'
  <1>1. Validate(cfg)
    BY RunningIsValid DEF TickStarts
  <1>2. SettleWindow(cfg) \in Nat /\ SettleWindow(cfg) <= cfg.phase /\ cfg.phase \in Nat
    BY <1>1, ValidConfig DEF LifeInv
  <1>3. TypeOK'
    BY <1>2 DEF LifeInv, TickStarts, TypeOK, proc, boot, phases
  <1>4. ConfigInv'
    BY <1>1 DEF TickStarts, ConfigInv, Validate, CloserConfigValid, SettleWindow
  <1>5. CloserInv'
    BY DEF LifeInv, TickStarts, CloserInv, proc, phases
  <1>6. RelayInv'
    <2>1. relay' = "tick" /\ tickLeft' = SettleWindow(cfg) /\ cfg' = cfg
          /\ SettleWindow(cfg') = SettleWindow(cfg)
      BY DEF TickStarts, SettleWindow
    <2>2. main' = "drain" => tickLeft' <= phaseLeft'
      BY <1>2, <2>1 DEF LifeInv, TickStarts, RelayInv, proc, phases
    <2> QED
      BY <1>2, <2>1, <2>2 DEF LifeInv, TickStarts, RelayInv, proc, phases
  <1> QED
    BY <1>3, <1>4, <1>5, <1>6 DEF LifeInv

(* A tick ends.                                                            *)
LEMMA TickEndsLife == ASSUME LifeInv, TickEnds PROVE LifeInv'
  <1>1. TypeOK'
    BY DEF LifeInv, TickEnds, TypeOK, proc, boot, phases
  <1>2. ConfigInv'
    BY DEF LifeInv, TickEnds, ConfigInv, TypeOK, proc, boot, phases
  <1>3. CloserInv'
    BY DEF LifeInv, TickEnds, CloserInv, TypeOK, proc, boot, phases
  <1>4. RelayInv'
    BY DEF LifeInv, TickEnds, RelayInv, CloserInv, TypeOK, proc, boot, phases
  <1> QED
    BY <1>1, <1>2, <1>3, <1>4 DEF LifeInv

(* The relay leaves its loop.                                              *)
LEMMA RelayStopsLife == ASSUME LifeInv, RelayStops PROVE LifeInv'
  <1>1. TypeOK'
    BY DEF LifeInv, RelayStops, TypeOK, proc, boot, phases
  <1>2. ConfigInv'
    BY DEF LifeInv, RelayStops, ConfigInv, TypeOK, proc, boot, phases
  <1>3. CloserInv'
    BY DEF LifeInv, RelayStops, CloserInv, TypeOK, proc, boot, phases
  <1>4. RelayInv'
    BY DEF LifeInv, RelayStops, RelayInv, CloserInv, TypeOK, proc, boot, phases
  <1> QED
    BY <1>1, <1>2, <1>3, <1>4 DEF LifeInv

(* A request comes or goes.                                                *)
LEMMA RequestLife == ASSUME LifeInv, Request PROVE LifeInv'
  <1>1. TypeOK'
    BY RequestsAssumption DEF LifeInv, Request, TypeOK, proc, boot, phases
  <1>2. ConfigInv'
    BY DEF LifeInv, Request, ConfigInv, TypeOK, proc, boot, phases
  <1>3. CloserInv'
    BY DEF LifeInv, Request, CloserInv, TypeOK, proc, boot, phases
  <1>4. RelayInv'
    BY DEF LifeInv, Request, RelayInv, CloserInv, TypeOK, proc, boot, phases
  <1> QED
    BY <1>1, <1>2, <1>3, <1>4 DEF LifeInv

(* Time passes only while a phase has some left and none of its closers    *)
(* is about to be entered.                                                 *)
LEMMA TockLife == ASSUME LifeInv, Tock PROVE LifeInv'
  <1>1. /\ startLeft \in Nat /\ totalLeft \in Nat /\ phaseLeft \in Nat /\ tickLeft \in Nat
    BY DEF LifeInv, TypeOK
  <1>2. TypeOK'
    BY <1>1 DEF LifeInv, Tock, TypeOK, Down, proc
  <1>3. ConfigInv'
    BY DEF LifeInv, Tock, ConfigInv, proc, Validate, CloserConfigValid, SettleWindow
  <1>4. /\ \A c \in Closers : closer[c] # "spawned"
        /\ relay # "entering"
        /\ main = "drain" => phaseLeft > 0
        /\ main # "exited"
    BY <1>1 DEF Tock, Urgent, PhaseOver
  <1>5. main = "drain" => /\ Validate(cfg) /\ cfg.total \in Nat /\ cfg.phase \in Nat
                          /\ cfg.phase <= cfg.total - cfg.phase
    BY ValidConfig DEF LifeInv, ConfigInv
  <1>6. CloserInv'
    <2>1. main = "drain" => /\ totalLeft = cfg.total - cfg.phase + phaseLeft
                            /\ phaseLeft <= cfg.phase
      BY DEF LifeInv, CloserInv
    <2>2. main = "drain" => /\ totalLeft' = cfg.total - cfg.phase + phaseLeft'
                            /\ phaseLeft' <= cfg.phase
      BY <1>1, <1>4, <1>5, <2>1 DEF Tock, Down
    <2>3. phaseLeft = 0 => phaseLeft' = 0
      BY DEF Tock, Down
    <2> QED
      BY <1>4, <2>2, <2>3 DEF LifeInv, Tock, CloserInv, proc
  <1>7. RelayInv'
    <2>1. /\ tickLeft' <= tickLeft
          /\ tickLeft <= phaseLeft => tickLeft' <= phaseLeft'
          /\ tickLeft = 0 => tickLeft' = 0
          /\ phaseLeft = 0 => phaseLeft' = 0
      BY <1>1 DEF Tock, Down
    <2>2. relay = "tick" => tickLeft' <= SettleWindow(cfg')
      <3> SUFFICES ASSUME relay = "tick" PROVE tickLeft' <= SettleWindow(cfg')
        OBVIOUS
      <3>1. Validate(cfg)
        BY RunningIsValid DEF LifeInv
      <3>2. SettleWindow(cfg') = SettleWindow(cfg) /\ SettleWindow(cfg) \in Nat
        BY <3>1, ValidConfig DEF LifeInv, Tock, SettleWindow
      <3>3. tickLeft <= SettleWindow(cfg) /\ tickLeft' \in Nat
        BY <1>1 DEF LifeInv, RelayInv, Tock, Down
      <3> QED
        BY <1>1, <2>1, <3>2, <3>3
    <2> QED
      BY <1>4, <2>1, <2>2 DEF LifeInv, Tock, RelayInv, proc
  <1> QED
    BY <1>2, <1>3, <1>6, <1>7 DEF LifeInv

(* A step that does nothing keeps the invariant.                           *)
LEMMA StutterLife == ASSUME LifeInv, UNCHANGED vars PROVE LifeInv'
  BY DEF LifeInv, vars, proc, boot, phases, work, TypeOK, ConfigInv, CloserInv, RelayInv,
         Validate, CloserConfigValid, SettleWindow

(* Every step of the process keeps the invariant.                          *)
LEMMA NextLife == LifeInv /\ [Next]_vars => LifeInv'
  <1> SUFFICES ASSUME LifeInv, [Next]_vars PROVE LifeInv'
    OBVIOUS
  <1>1. CASE LoadConfig \/ OpenPools \/ Started \/ Listen \/ Signal \/ DrainOver \/ ReleaseOver
    BY <1>1, LoadConfigLife, OpenPoolsLife, StartedLife, ListenLife, SignalLife, DrainOverLife,
       ReleaseOverLife
  <1>2. CASE OpenFails
    BY <1>2, ShutDownLife DEF OpenFails, LifeInv, TypeOK, CloserInv
  <1>3. CASE StartFails
    BY <1>3, ShutDownLife DEF StartFails, PingsOver, LifeInv, TypeOK, CloserInv
  <1>4. CASE RunReturns
    <2>1. code' \in {0, 1}
      BY <1>4 DEF RunReturns
    <2> QED
      BY <1>4, <2>1, ShutDownLife DEF RunReturns
  <1>5. ASSUME NEW p \in Pings, PingEnds(p) PROVE LifeInv'
    BY <1>5, PingEndsLife
  <1>6. ASSUME NEW c \in Closers,
               CloserRuns(c) \/ CloserReturns(c) \/ CloserPanics(c) \/ Collect(c)
        PROVE  LifeInv'
    BY <1>6, CloserRunsLife, CloserReturnsLife, CloserPanicsLife, CollectLife
  <1>7. CASE RelayWakes \/ TickStarts \/ TickEnds \/ RelayStops \/ Request \/ Tock
    BY <1>7, RelayWakesLife, TickStartsLife, TickEndsLife, RelayStopsLife, RequestLife, TockLife
  <1>8. CASE UNCHANGED vars
    BY <1>8, StutterLife
  <1> QED
    BY <1>1, <1>2, <1>3, <1>4, <1>5, <1>6, <1>7, <1>8 DEF Next

(* The inductive invariant holds: no configuration gets further than       *)
(* Validate lets it, each phase runs its closers once, and a tick that is  *)
(* under way during the drain fits into what is left of it.                *)
THEOREM LifeInvariant == Spec => []LifeInv
  BY InitLife, NextLife, PTL DEF Spec

(* Config.Validate does what it is for: whatever tick the relay was in when*)
(* the process was told to stop, its settle window has ended before MySQL  *)
(* and Redis are closed.                                                   *)
THEOREM TicksSettleFirst == Spec => []SettledBeforeRelease
  <1>1. LifeInv => SettledBeforeRelease
    BY DEF LifeInv, RelayInv, SettledBeforeRelease
  <1> QED
    BY <1>1, LifeInvariant, PTL

(* Closer.ShutDown leaves out no closer that was registered, on any of the *)
(* ways to the exit.                                                       *)
THEOREM EveryCloserRuns == Spec => []NothingForgotten
  <1>1. LifeInv => NothingForgotten
    BY DEF LifeInv, CloserInv, NothingForgotten, Drains
  <1> QED
    BY <1>1, LifeInvariant, PTL

(* /readyz answers ok only between Run's SetReady and its SetShuttingDown, *)
(* when no closer has run.                                                 *)
THEOREM ReadyMeansServing == Spec => []ReadyOnlyWhileServing
  <1>1. LifeInv => ReadyOnlyWhileServing
    <2> SUFFICES ASSUME LifeInv PROVE ReadyOnlyWhileServing
      OBVIOUS
    <2>1. CheckReadiness(TRUE) = "ok" => health = "ready"
      BY DEF LifeInv, TypeOK, CheckReadiness
    <2> QED
      BY <2>1 DEF LifeInv, CloserInv, ReadyOnlyWhileServing
  <1> QED
    BY <1>1, LifeInvariant, PTL

(* However much of its phase the drain used up, the release starts with a  *)
(* whole phase of its own (CloserConfig.Validate keeps half of the total). *)
THEOREM ReleaseIsNotStarved == Spec => ReleaseHasAFullPhase
  <1>1. LifeInv /\ [Next]_vars =>
            [main = "drain" /\ main' = "release" => phaseLeft' = cfg.phase]_vars
    <2> SUFFICES ASSUME LifeInv, [Next]_vars, main = "drain", main' = "release"
                 PROVE  phaseLeft' = cfg.phase
      OBVIOUS
    <2>1. DrainOver
      BY DEF Next, vars, LoadConfig, OpenPools, OpenFails, StartFails, Started, PingEnds, Listen,
             RunReturns, Signal, ReleaseOver, CloserRuns, CloserReturns, CloserPanics, Collect,
             RelayWakes, TickStarts, TickEnds, RelayStops, Request, Tock, proc, ShutDown, PingsOver
    <2>2. phaseLeft' = Min({cfg.phase, totalLeft})
      BY <2>1 DEF DrainOver, RunPhase
    <2>3. /\ cfg.phase \in Nat /\ cfg.total \in Nat /\ cfg.phase <= cfg.total - cfg.phase
          /\ totalLeft \in Nat /\ phaseLeft \in Nat
          /\ totalLeft = cfg.total - cfg.phase + phaseLeft
      BY ValidConfig DEF LifeInv, ConfigInv, CloserInv, TypeOK
    <2> QED
      BY <2>2, <2>3, MinOfTwo
  <1> QED
    BY <1>1, LifeInvariant, PTL DEF Spec, ReleaseHasAFullPhase

(* runPhase never waits for nothing: while the deadline of a phase runs    *)
(* down, one of the closers it waits for is at work.                       *)
THEOREM PhasesWaitForWork == Spec => NoIdleWait
  <1>1. LifeInv /\ [Next]_vars =>
            [phaseLeft' < phaseLeft /\ main' = main
                => \E c \in Waiting : closer[c] = "running"]_vars
    <2> SUFFICES ASSUME LifeInv, [Next]_vars, phaseLeft' < phaseLeft, main' = main
                 PROVE  \E c \in Waiting : closer[c] = "running"
      OBVIOUS
    <2>1. phaseLeft \in Nat /\ ~(phaseLeft < phaseLeft)
      BY DEF LifeInv, TypeOK
    <2>2. Tock
      BY <2>1 DEF Next, vars, LoadConfig, OpenPools, OpenFails, StartFails, Started, PingEnds,
             Listen, RunReturns, Signal, DrainOver, ReleaseOver, CloserRuns, CloserReturns,
             CloserPanics, Collect, RelayWakes, TickStarts, TickEnds, RelayStops, Request, proc,
             phases, ShutDown, PingsOver
    <2>3. main \in {"drain", "release"}
      BY <2>1, <2>2 DEF LifeInv, CloserInv, TypeOK, Tock, Down
    <2>4. Waiting # {} /\ \A c \in Waiting : closer[c] \notin {"spawned", "handed", "lost"}
      BY <2>2, <2>3 DEF Tock, Urgent, PhaseOver, Waiting, Current, LifeInv, CloserInv, Closers
    <2> QED
      BY <2>4 DEF Waiting
  <1> QED
    BY <1>1, LifeInvariant, PTL DEF Spec, NoIdleWait
=============================================================================
