---------------------------- MODULE EmailClient ----------------------------
(***************************************************************************)
(* The email client (email/client.go) as the relay uses it: a tick hands   *)
(* its shards to SendBatch concurrently, every call goes through one       *)
(* circuit breaker, and the first shard that fails cancels its siblings    *)
(* (outbox/relay.go).                                                      *)
(*                                                                         *)
(* The breaker is gobreaker, a library, modelled by what the client relies *)
(* on.  A call belongs to the generation it was admitted in, and the       *)
(* breaker starts a new one with every change of state; only "is it still  *)
(* the current one" is kept of it.  The provider is the client's field     *)
(* send.  What NewClient puts there today, deliver, is a mock that always  *)
(* succeeds; the client is written, and tested, for a send that may fail,  *)
(* hang until its context ends, or panic.                                  *)
(***************************************************************************)
EXTENDS Text, FiniteSets

CONSTANTS
    Shards,       \* the goroutines of a tick
    MaxFailures,  \* Config.MaxFailures
    Texts,        \* the texts a panic may come with
    MaxErrLen,    \* maxErrLen, the bytes last_error has room for
    MaxChanges    \* bound: how often the provider's condition changes

(* Config.Validate; the durations are not counted here.                    *)
Validate == MaxFailures > 0

ASSUME ConfigAssumption == MaxFailures \in Nat /\ Validate
ASSUME ShardsAssumption == IsFiniteSet(Shards)
ASSUME TextsAssumption == Texts \subseteq Seq(Bytes) /\ MaxErrLen \in Nat
ASSUME ChangesAssumption == MaxChanges \in Nat

VARIABLES
    breaker,   \* the breaker's state
    fails,     \* Counts.ConsecutiveFailures
    slot,      \* half-open: its one request has been admitted
    expired,   \* open: OpenFor has passed
    call,      \* the call of every shard
    ctx,       \* the context the shards of the tick share
    relay,     \* the relay between and during ticks
    stored,    \* the last_error the tick that has just ended stored
    provider,  \* how the provider is doing
    changes,   \* how often that has changed
    failed     \* history: failures of the provider since the breaker closed

brk == <<breaker, fails, slot>>
world == <<provider, changes>>
vars == <<brk, expired, call, ctx, relay, stored, world, failed>>

Verdicts == {"none", "ok", "failure", "gone", "panic"}

Call == [pc: {"idle", "ready", "sending", "back", "failing", "done"},
         current: BOOLEAN, verdict: Verdicts, pause: {"no", "default", "hint"}]

NoCall == [pc |-> "idle", current |-> FALSE, verdict |-> "none", pause |-> "no"]
NoError == [reason |-> <<>>, text |-> <<>>]

(* What is stored is StoredErrorFits's.                                    *)
TypeOK ==
    /\ breaker \in {"closed", "open", "half"}
    /\ fails \in 0 .. MaxFailures - 1
    /\ slot \in BOOLEAN
    /\ expired \in BOOLEAN
    /\ call \in [Shards -> Call]
    /\ ctx \in {"live", "paused", "budget"}
    /\ relay \in {"idle", "tick", "pausing", "paused"}
    /\ provider \in {"well", "down", "hung"}
    /\ changes \in 0 .. MaxChanges
    /\ failed \in 0 .. MaxFailures

Init ==
    /\ breaker = "closed"
    /\ fails = 0
    /\ slot = FALSE
    /\ expired = FALSE
    /\ call = [s \in Shards |-> NoCall]
    /\ ctx = "live"
    /\ relay = "idle"
    /\ stored = NoError
    /\ provider = "well"
    /\ changes = 0
    /\ failed = 0

-----------------------------------------------------------------------------
(* The breaker.                                                            *)

(* The state a request finds: an open breaker whose time has passed is     *)
(* half-open, with nothing counted yet.                                    *)
State == IF breaker = "open" /\ expired THEN "half" ELSE breaker

Taken == breaker = "half" /\ slot

(* The calls when the breaker's generation ends.                           *)
Outdated == [s \in Shards |-> [call[s] EXCEPT !.current = FALSE]]

Calls(same) == IF same THEN call ELSE Outdated

(* The breaker goes to state b, with n failures and its slot taken or not. *)
Becomes(b, n, taken) ==
    /\ breaker' = b
    /\ fails' = n
    /\ slot' = taken
    /\ expired' = (b = "open" /\ breaker = "open" /\ expired)

(* ReadyToTrip, asked after a failure that makes n in a row.               *)
ReadyToTrip(n) == n >= MaxFailures

(* beforeRequest admits the call.                                          *)
Admit(s) ==
    /\ call[s].pc = "ready"
    /\ ctx = "live"
    /\ State # "open" /\ ~Taken
    /\ Becomes(State, IF State = breaker THEN fails ELSE 0, State = "half")
    /\ call' = [Calls(State = breaker) EXCEPT ![s].pc = "sending", ![s].current = TRUE]
    /\ UNCHANGED <<ctx, relay, stored, world, failed>>

(* ErrOpenState or ErrTooManyRequests: SendBatch wraps it in a SendError,  *)
(* which has the hint.                                                     *)
Reject(s) ==
    /\ call[s].pc = "ready"
    /\ ctx = "live"
    /\ State = "open" \/ Taken
    /\ call' = [call EXCEPT ![s].pc = "failing", ![s].pause = "hint"]
    /\ UNCHANGED <<brk, expired, ctx, relay, stored, world, failed>>

(* afterRequest on a call of an earlier generation.                        *)
Ignored(s) ==
    /\ ~call[s].current \/ State # breaker
    /\ Becomes(State, IF State = breaker THEN fails ELSE 0, State = breaker /\ slot)
    /\ UNCHANGED failed

Succeeded(s) ==
    /\ call[s].verdict = "ok"
    /\ Becomes("closed", 0, FALSE)
    /\ failed' = IF breaker = "half" THEN 0 ELSE failed

Failed(s) ==
    /\ call[s].verdict \in {"failure", "panic"}
    /\ IF breaker = "half" \/ ReadyToTrip(fails + 1) THEN Becomes("open", 0, FALSE)
                                                     ELSE Becomes("closed", fails + 1, FALSE)
    /\ UNCHANGED failed

(* An excluded call counts neither way.  Whether it gives its place in a   *)
(* half-open breaker back is the library's choice: both are possible.      *)
Excluded(s) ==
    /\ call[s].verdict = "gone"
    /\ \E kept \in BOOLEAN : Becomes(breaker, fails, slot /\ kept)
    /\ UNCHANGED failed

(* Mutant: a probe that succeeds leaves the breaker half-open.             *)
AfterRequestKeepsHalf(s) ==
    \/ Ignored(s)
    \/ /\ call[s].current /\ State = breaker
       /\ \/ Succeeded(s) /\ breaker = "closed"
          \/ /\ call[s].verdict = "ok" /\ breaker = "half"
             /\ Becomes("half", 0, FALSE) /\ UNCHANGED failed
          \/ Failed(s)
          \/ Excluded(s)

AfterRequest(s) ==
    \/ Ignored(s)
    \/ /\ call[s].current /\ State = breaker
       /\ Succeeded(s) \/ Failed(s) \/ Excluded(s)

-----------------------------------------------------------------------------
(* SendBatch in a shard of the relay.                                      *)

(* A context that has ended already: nothing is sent, nothing is counted.  *)
(* processShard notices at once, or SendBatch does, whose error pauses.    *)
Skip(s) ==
    /\ call[s].pc = "ready"
    /\ ctx # "live"
    /\ \E p \in {"no", "default"} : call' = [call EXCEPT ![s].pc = "done", ![s].pause = p]
    /\ UNCHANGED <<brk, expired, ctx, relay, stored, world, failed>>

(* Mutant: an error is an error, whoever caused it.                        *)
AlwaysFailure(context) == "failure"

(* How SendBatch reports an error of send to the breaker: errCallerGone,   *)
(* which IsExcluded knows, when the caller's own context has ended, else   *)
(* the provider's failure or its timeout.                                  *)
Classify(context) == IF context = "live" THEN "failure" ELSE "gone"

Back(s, verdict) == call' = [call EXCEPT ![s].pc = "back", ![s].verdict = verdict]

OneMore(n) == IF n < MaxFailures THEN n + 1 ELSE n

(* deliver returns, also to a caller that has gone.                        *)
Answers(s) ==
    /\ call[s].pc = "sending"
    /\ provider = "well"
    /\ Back(s, "ok")
    /\ UNCHANGED <<brk, expired, ctx, relay, stored, world, failed>>

(* The provider refuses, or does not answer within the client's timeout.   *)
ProviderFails(s) ==
    /\ call[s].pc = "sending"
    /\ provider # "well"
    /\ Back(s, Classify(ctx))
    /\ failed' = IF call[s].current THEN OneMore(failed) ELSE failed
    /\ UNCHANGED <<brk, expired, ctx, relay, stored, world>>

(* The send notices that the caller's context has ended.                   *)
Aborts(s) ==
    /\ call[s].pc = "sending"
    /\ ctx # "live"
    /\ Back(s, Classify(ctx))
    /\ UNCHANGED <<brk, expired, ctx, relay, stored, world, failed>>

(* The send panics; the breaker counts it and lets it through.             *)
Panics(s) ==
    /\ call[s].pc = "sending"
    /\ provider = "down"
    /\ Back(s, "panic")
    /\ failed' = IF call[s].current THEN OneMore(failed) ELSE failed
    /\ UNCHANGED <<brk, expired, ctx, relay, stored, world>>

(* The pause processShard asks for: none after a panic, which only cancels *)
(* the siblings, and the default one for an error without a hint.          *)
PauseAfter(verdict) ==
    CASE verdict = "failure" -> "hint" [] verdict = "gone" -> "default" [] OTHER -> "no"

(* Execute ends: the breaker is told, and SendBatch returns results, the   *)
(* caller's own error, or a SendError with the hint.                       *)
Returns(s) ==
    /\ call[s].pc = "back"
    /\ AfterRequest(s)
    /\ LET v    == call[s].verdict
           same == State = breaker /\ breaker' = breaker
       IN  call' = [Calls(same) EXCEPT ![s].pc = IF v = "ok" THEN "done" ELSE "failing",
                                       ![s].pause = PauseAfter(v)]
    /\ UNCHANGED <<ctx, relay, stored, world>>

(* processShard cancels the siblings of a shard that has failed.           *)
Cancel(s) ==
    /\ call[s].pc = "failing"
    /\ ctx' = IF ctx = "live" THEN "paused" ELSE ctx
    /\ call' = [call EXCEPT ![s].pc = "done"]
    /\ UNCHANGED <<brk, expired, relay, stored, world, failed>>

-----------------------------------------------------------------------------
(* The relay around it, the clock and the provider.                        *)

(* dispatch: the claimed messages make one shard or more.                  *)
Tick(S) ==
    /\ relay = "idle"
    /\ relay' = "tick"
    /\ ctx' = "live"
    /\ call' = [s \in Shards |-> IF s \in S THEN [NoCall EXCEPT !.pc = "ready"] ELSE NoCall]
    /\ stored' = NoError
    /\ UNCHANGED <<brk, expired, world, failed>>

(* What Reschedule and MarkFailed store of a reason.                       *)
LastErrors == {[reason |-> t, text |-> truncateUTF8(t, MaxErrLen)] : t \in Texts}

(* What collect and pause make of the shards: the longest pause asked for. *)
Pause ==
    LET asked == {call[s].pause : s \in Shards}
    IN  CASE "hint" \in asked -> "paused" [] "default" \in asked -> "pausing" [] OTHER -> "idle"

(* collect and the settlement: a panic's text is stored, shortened, and    *)
(* the relay pauses if a shard asked for it.                               *)
TickEnds ==
    /\ relay = "tick"
    /\ \A s \in Shards : call[s].pc \in {"idle", "done"}
    /\ IF \E s \in Shards : call[s].verdict = "panic"
       THEN stored' \in LastErrors
       ELSE UNCHANGED stored
    /\ relay' = Pause
    /\ call' = [s \in Shards |-> NoCall]
    /\ UNCHANGED <<brk, expired, ctx, world, failed>>

(* The tick budget runs out on a provider that does not answer.            *)
BudgetExpires ==
    /\ relay = "tick"
    /\ ctx = "live"
    /\ provider = "hung"
    /\ ctx' = "budget"
    /\ UNCHANGED <<brk, expired, call, relay, stored, world, failed>>

OpenForPasses ==
    /\ breaker = "open"
    /\ ~expired
    /\ expired' = TRUE
    /\ UNCHANGED <<brk, call, ctx, relay, stored, world, failed>>

(* The hint is OpenFor, counted from the end of the tick that opened the   *)
(* breaker: when the pause is over so is the breaker's wait.  A default    *)
(* pause has nothing to do with the breaker.                               *)
PauseOver ==
    /\ relay \in {"paused", "pausing"}
    /\ relay = "paused" /\ breaker = "open" => expired
    /\ relay' = "idle"
    /\ UNCHANGED <<brk, expired, call, ctx, stored, world, failed>>

ProviderChanges ==
    /\ changes < MaxChanges
    /\ provider' \in {"well", "down", "hung"} \ {provider}
    /\ changes' = changes + 1
    /\ UNCHANGED <<brk, expired, call, ctx, relay, stored, failed>>

ShardStep(s) ==
    \/ Admit(s) \/ Reject(s) \/ Skip(s)
    \/ Answers(s) \/ ProviderFails(s) \/ Aborts(s)
    \/ Returns(s) \/ Cancel(s)

Next ==
    \/ \E s \in Shards : ShardStep(s) \/ Panics(s)
    \/ \E S \in (SUBSET Shards) \ {{}} : Tick(S)
    \/ TickEnds \/ BudgetExpires \/ OpenForPasses \/ PauseOver
    \/ ProviderChanges

Spec == Init /\ [][Next]_vars

(* The goroutines run, the clock moves, and there are messages to send.    *)
Fairness ==
    /\ \A s \in Shards : WF_vars(ShardStep(s))
    /\ WF_vars(\E S \in (SUBSET Shards) \ {{}} : Tick(S))
    /\ WF_vars(TickEnds) /\ WF_vars(OpenForPasses) /\ WF_vars(PauseOver)

FairSpec == Spec /\ Fairness

-----------------------------------------------------------------------------
(* Properties.                                                             *)

(* Siblings cancelled by one failing shard, and calls cut off by the tick  *)
(* budget, never open the breaker: it leaves "closed" only after the       *)
(* provider itself has failed MaxFailures of its calls, whatever calls of  *)
(* earlier generations return meanwhile (IsExcluded and errCallerGone).    *)
TripsAreTheProviders == breaker # "closed" => failed >= MaxFailures

(* A probe was excluded and its place in the half-open breaker not given   *)
(* back.                                                                   *)
Leaked ==
    Taken /\ ~ \E s \in Shards : call[s].current /\ call[s].pc \in {"sending", "back"}

Alone == Cardinality({s \in Shards : call[s].pc # "idle"}) <= 1

(* The breaker recovers once the provider does, if the ticks that probe it *)
(* have one shard, so that no rejected sibling cancels the probe, and no   *)
(* excluded probe has kept the half-open slot.                             *)
Recovers ==
    <>[](provider = "well" /\ Alone) => (<>[](breaker = "closed") \/ <>Leaked)

(* What client_test.go says of the breaker: it must recover once the       *)
(* provider does.  The relay's shards are the callers, any number of them. *)
RecoversOnceTheProviderDoes ==
    <>[](provider = "well") => (<>[](breaker = "closed") \/ <>Leaked)

(* What is stored in last_error MySQL accepts and the column holds: whole  *)
(* runes, at most MaxErrLen bytes, and of a valid text the longest such    *)
(* prefix (truncateUTF8).                                                  *)
StoredErrorFits ==
    /\ IsValidUTF8(stored.text)
    /\ Len(stored.text) <= MaxErrLen
    /\ IsValidUTF8(stored.reason) => stored.text = LongestPrefix(stored.reason, MaxErrLen)
-----------------------------------------------------------------------------
(* The invariant that the proof of TripsAreTheProviders goes by.  The      *)
(* failures that the breaker has counted in a row, and those that calls of *)
(* its generation are still to report, are failures of the provider since  *)
(* it closed.                                                              *)
Unreported ==
    {s \in Shards : call[s].pc = "back" /\ call[s].current /\ call[s].verdict \in {"failure", "panic"}}

EmailInv ==
    /\ TypeOK
    /\ breaker = "closed" => fails + Cardinality(Unreported) <= failed \/ failed = MaxFailures
    /\ breaker # "closed" => failed = MaxFailures
=============================================================================
