------------------------- MODULE EmailClientProofs -------------------------
(***************************************************************************)
(* Proofs about the email client: first its circuit breaker, then the text *)
(* of an error as it is stored.                                            *)
(***************************************************************************)
EXTENDS EmailClient, FiniteSetTheorems, TLAPS

-----------------------------------------------------------------------------
(* The calls.                                                              *)

(* When the generation ends, no call has anything to report.               *)
LEMMA CallsOutdated ==
    ASSUME call \in [Shards -> Call]
    PROVE  /\ \A same \in BOOLEAN : Calls(same) \in [Shards -> Call]
           /\ Calls(TRUE) = call
           /\ \A r \in Shards : /\ ~Calls(FALSE)[r].current
                                /\ Calls(FALSE)[r].pc = call[r].pc
                                /\ Calls(FALSE)[r].verdict = call[r].verdict
<1>1. Outdated \in [Shards -> Call]
  BY DEF Outdated, Call
<1>2. \A r \in Shards : /\ ~Outdated[r].current
                        /\ Outdated[r].pc = call[r].pc
                        /\ Outdated[r].verdict = call[r].verdict
  BY DEF Outdated, Call
<1> QED
  BY <1>1, <1>2 DEF Calls

(* The failures still to be reported, of any calls.                        *)
Owed(c) ==
    {s \in Shards : c[s].pc = "back" /\ c[s].current /\ c[s].verdict \in {"failure", "panic"}}

LEMMA OwedFinite ==
    ASSUME NEW c
    PROVE  IsFiniteSet(Owed(c)) /\ Cardinality(Owed(c)) \in Nat
<1>1. Owed(c) \in SUBSET Shards
  BY DEF Owed
<1> QED
  BY <1>1, ShardsAssumption, FS_Subset, FS_CardinalityType

LEMMA FewerOwed ==
    ASSUME NEW c, NEW d, Owed(d) \subseteq Owed(c)
    PROVE  Cardinality(Owed(d)) <= Cardinality(Owed(c))
BY OwedFinite, FS_Subset

(* A step that neither the breaker nor the history of the provider's       *)
(* failures notices, and that adds no report.                              *)
LEMMA Unnoticed ==
    ASSUME EmailInv, TypeOK', Owed(call') \subseteq Owed(call),
           breaker' = breaker, fails' = fails, failed' = failed
    PROVE  EmailInv'
<1>1. Unreported = Owed(call) /\ Unreported' = Owed(call')
  BY DEF Unreported, Owed
<1>2. Cardinality(Unreported') <= Cardinality(Unreported)
  BY <1>1, FewerOwed
<1>3. Cardinality(Unreported') \in Nat /\ Cardinality(Unreported) \in Nat
  BY <1>1, OwedFinite
<1>4. fails \in Nat /\ failed \in Nat /\ MaxFailures \in Nat
  BY ConfigAssumption DEF EmailInv, TypeOK
<1> QED
  BY <1>2, <1>3, <1>4 DEF EmailInv

-----------------------------------------------------------------------------
(* The steps of a shard.                                                   *)

(* A step of a shard that leaves the breaker alone.                        *)
LEMMA QuietStep ==
    ASSUME EmailInv, UNCHANGED <<brk, expired, failed, world>>,
           relay' \in {"idle", "tick", "pausing", "paused"}, ctx' \in {"live", "paused", "budget"},
           call' \in [Shards -> Call],
           Owed(call') \subseteq Owed(call)
    PROVE  EmailInv'
<1>1. TypeOK'
  BY DEF EmailInv, TypeOK, brk, world
<1> QED
  BY <1>1, Unnoticed DEF brk

LEMMA InitEmailInv ==
    Init => EmailInv
<1> SUFFICES ASSUME Init PROVE EmailInv
  OBVIOUS
<1>1. call \in [Shards -> Call] /\ \A s \in Shards : call[s].pc = "idle"
  BY DEF Init, NoCall, Call, Verdicts
<1>2. Unreported = {}
  BY <1>1 DEF Unreported
<1>3. Cardinality(Unreported) = 0
  BY <1>2, FS_EmptySet
<1>4. 0 \in 0 .. MaxFailures - 1 /\ 0 \in 0 .. MaxFailures /\ 0 \in 0 .. MaxChanges
  BY ConfigAssumption, ChangesAssumption DEF Validate
<1>5. TypeOK
  BY <1>1, <1>4 DEF Init, TypeOK
<1> QED
  BY <1>3, <1>5 DEF EmailInv, Init

LEMMA Types ==
    ASSUME EmailInv
    PROVE  /\ call \in [Shards -> Call] /\ breaker \in {"closed", "open", "half"}
           /\ ctx \in {"live", "paused", "budget"} /\ relay \in {"idle", "tick", "pausing", "paused"}
           /\ fails \in Nat /\ fails < MaxFailures /\ failed \in Nat /\ failed <= MaxFailures
           /\ MaxFailures \in Nat /\ slot \in BOOLEAN /\ expired \in BOOLEAN
BY ConfigAssumption DEF EmailInv, TypeOK

LEMMA RejectKeeps ==
    ASSUME EmailInv, NEW s \in Shards, Reject(s)
    PROVE  EmailInv'
<1>1. call' = [call EXCEPT ![s].pc = "failing", ![s].pause = "hint"]
  BY DEF Reject
<1>2. /\ call' \in [Shards -> Call] /\ call'[s].pc = "failing"
      /\ \A r \in Shards : r # s => call'[r] = call[r]
  BY <1>1, Types, ZenonT(60) DEF Call, Verdicts
<1>3. Owed(call') \subseteq Owed(call)
  BY <1>2 DEF Owed
<1> QED
  BY <1>2, <1>3, Types, QuietStep DEF Reject

LEMMA SkipKeeps ==
    ASSUME EmailInv, NEW s \in Shards, Skip(s)
    PROVE  EmailInv'
<1>1. PICK p \in {"no", "default"} : call' = [call EXCEPT ![s].pc = "done", ![s].pause = p]
  BY DEF Skip
<1>2. /\ call' \in [Shards -> Call] /\ call'[s].pc = "done"
      /\ \A r \in Shards : r # s => call'[r] = call[r]
  BY <1>1, Types, ZenonT(60) DEF Call, Verdicts
<1>3. Owed(call') \subseteq Owed(call)
  BY <1>2 DEF Owed
<1> QED
  BY <1>2, <1>3, Types, QuietStep DEF Skip

LEMMA CancelKeeps ==
    ASSUME EmailInv, NEW s \in Shards, Cancel(s)
    PROVE  EmailInv'
<1>1. call' = [call EXCEPT ![s].pc = "done"]
  BY DEF Cancel
<1>2. /\ call' \in [Shards -> Call] /\ call'[s].pc = "done"
      /\ \A r \in Shards : r # s => call'[r] = call[r]
  BY <1>1, Types, ZenonT(60) DEF Call, Verdicts
<1>3. Owed(call') \subseteq Owed(call)
  BY <1>2 DEF Owed
<1>4. ctx' \in {"live", "paused", "budget"}
  BY Types DEF Cancel
<1> QED
  BY <1>2, <1>3, <1>4, Types, QuietStep DEF Cancel

(* A send that succeeds, or whose caller has gone.                         *)
LEMMA HarmlessBackKeeps ==
    ASSUME EmailInv, NEW s \in Shards, NEW v \in {"ok", "gone"}, Back(s, v),
           UNCHANGED <<brk, expired, ctx, relay, stored, world, failed>>
    PROVE  EmailInv'
<1>1. call' = [call EXCEPT ![s].pc = "back", ![s].verdict = v]
  BY DEF Back
<1>2. /\ call' \in [Shards -> Call] /\ call'[s].verdict = v
      /\ \A r \in Shards : r # s => call'[r] = call[r]
  BY <1>1, Types, ZenonT(60) DEF Call, Verdicts
<1>3. Owed(call') \subseteq Owed(call)
  BY <1>2 DEF Owed
<1> QED
  BY <1>2, <1>3, Types, QuietStep

(* A send that the provider fails, by an error or a panic.                 *)
LEMMA FailedBackKeeps ==
    ASSUME EmailInv, NEW s \in Shards, NEW v \in Verdicts, call[s].pc = "sending", Back(s, v),
           failed' = IF call[s].current THEN OneMore(failed) ELSE failed,
           UNCHANGED <<brk, expired, ctx, relay, stored, world>>
    PROVE  EmailInv'
<1>1. call' = [call EXCEPT ![s].pc = "back", ![s].verdict = v]
  BY DEF Back
<1>2. /\ call' \in [Shards -> Call] /\ call'[s].current = call[s].current
      /\ \A r \in Shards : r # s => call'[r] = call[r]
  BY <1>1, Types, ZenonT(60) DEF Call, Verdicts
<1>3. failed' \in 0 .. MaxFailures
  BY Types DEF OneMore
<1>4. TypeOK'
  BY <1>2, <1>3 DEF EmailInv, TypeOK, brk, world
<1>5. CASE ~call[s].current
  <2>1. Owed(call') \subseteq Owed(call)
    BY <1>2, <1>5 DEF Owed
  <2> QED
    BY <1>4, <1>5, <2>1, Unnoticed DEF brk
<1>6. CASE call[s].current
  <2>1. Owed(call') \in SUBSET (Owed(call) \cup {s}) /\ s \notin Owed(call)
    BY <1>2 DEF Owed
  <2>2. /\ IsFiniteSet(Owed(call) \cup {s})
        /\ Cardinality(Owed(call) \cup {s}) = Cardinality(Owed(call)) + 1
    BY <2>1, OwedFinite, FS_AddElement
  <2>3. Cardinality(Owed(call')) <= Cardinality(Owed(call)) + 1
    BY <2>1, <2>2, FS_Subset
  <2>4. Unreported = Owed(call) /\ Unreported' = Owed(call')
    BY DEF Unreported, Owed
  <2>5. breaker' = breaker /\ fails' = fails /\ failed' = OneMore(failed)
    BY <1>6 DEF brk
  <2>6. Cardinality(Owed(call')) \in Nat /\ Cardinality(Owed(call)) \in Nat
    BY OwedFinite
  <2> QED
    BY <1>4, <2>3, <2>4, <2>5, <2>6, Types DEF EmailInv, OneMore
<1> QED
  BY <1>5, <1>6

LEMMA AdmitKeeps ==
    ASSUME EmailInv, NEW s \in Shards, Admit(s)
    PROVE  EmailInv'
<1> DEFINE c == Calls(State = breaker)
<1>1. call' = [c EXCEPT ![s].pc = "sending", ![s].current = TRUE]
  BY DEF Admit
<1>2. (State = breaker) \in BOOLEAN
  OBVIOUS
<1>3. c \in [Shards -> Call]
  BY <1>2, Types, CallsOutdated
<1> HIDE DEF c
<1>4. /\ call' \in [Shards -> Call] /\ call'[s].pc = "sending"
      /\ \A r \in Shards : r # s => call'[r] = c[r]
  BY <1>1, <1>3 DEF Call
<1>5. /\ breaker' = State /\ fails' = (IF State = breaker THEN fails ELSE 0)
      /\ slot' = (State = "half") /\ failed' = failed
      /\ expired' = (State = "open" /\ breaker = "open" /\ expired)
      /\ UNCHANGED <<ctx, relay, stored, world>>
  BY DEF Admit, Becomes
<1>6. TypeOK'
  <2>1. breaker' \in {"closed", "open", "half"}
    BY <1>5, Types DEF State
  <2>2. fails' \in 0 .. MaxFailures - 1
    BY <1>5, Types, ConfigAssumption DEF Validate
  <2>3. slot' \in BOOLEAN /\ expired' \in BOOLEAN
    BY <1>5
  <2> QED
    BY <1>4, <1>5, <2>1, <2>2, <2>3 DEF EmailInv, TypeOK, world
<1>7. CASE State = breaker
  <2>1. c = call
    BY <1>7, Types, CallsOutdated DEF c
  <2>2. Owed(call') \subseteq Owed(call)
    BY <1>4, <2>1 DEF Owed
  <2> QED
    BY <1>5, <1>6, <1>7, <2>2, Unnoticed
<1>8. CASE State # breaker
  <2>1. breaker = "open" /\ breaker' = "half"
    BY <1>5, <1>8 DEF State
  <2> QED
    BY <1>5, <1>6, <2>1 DEF EmailInv
<1> QED
  BY <1>7, <1>8

(* What a call that returns leaves of the calls.                           *)
LEMMA ReturnedCalls ==
    ASSUME EmailInv, NEW s \in Shards, Returns(s)
    PROVE  LET same == State = breaker /\ breaker' = breaker
           IN  /\ call' \in [Shards -> Call]
               /\ same => Owed(call') \subseteq Owed(call) \ {s}
               /\ ~same => Owed(call') = {}
<1> DEFINE same == State = breaker /\ breaker' = breaker
           c == Calls(same)
           v == call[s].verdict
           x == IF v = "ok" THEN "done" ELSE "failing"
           y == PauseAfter(v)
<1>1. call' = [c EXCEPT ![s].pc = x, ![s].pause = y]
  BY DEF Returns
<1>2. same \in BOOLEAN
  OBVIOUS
<1>3. c \in [Shards -> Call]
  BY <1>2, Types, CallsOutdated
<1>4. x \in {"done", "failing"} /\ y \in {"no", "default", "hint"}
  BY DEF PauseAfter
<1>5. same => c = call
  BY Types, CallsOutdated
<1>6. ~same => \A r \in Shards : ~c[r].current
  <2> SUFFICES ASSUME ~same
               PROVE  \A r \in Shards : ~c[r].current
    OBVIOUS
  <2>1. c = Calls(FALSE)
    BY DEF Calls
  <2> QED
    BY <2>1, Types, CallsOutdated
<1> HIDE DEF same, c, x, y
<1>7. /\ call' \in [Shards -> Call] /\ call'[s].pc = x
      /\ \A r \in Shards : r # s => call'[r] = c[r]
  BY <1>1, <1>3, <1>4 DEF Call
<1>8. s \notin Owed(call')
  BY <1>4, <1>7 DEF Owed
<1>9. same => Owed(call') \subseteq Owed(call) \ {s}
  BY <1>5, <1>7, <1>8 DEF Owed
<1>10. ~same => Owed(call') = {}
  BY <1>6, <1>7, <1>8 DEF Owed
<1> QED
  BY <1>7, <1>9, <1>10 DEF same

(* The breaker goes to a state.                                            *)
LEMMA BecomesTyped ==
    ASSUME EmailInv, NEW b \in {"closed", "open", "half"}, NEW n \in 0 .. MaxFailures - 1,
           NEW taken \in BOOLEAN, Becomes(b, n, taken),
           call' \in [Shards -> Call], failed' \in 0 .. MaxFailures,
           UNCHANGED <<ctx, relay, world>>
    PROVE  TypeOK' /\ breaker' = b /\ fails' = n
BY DEF EmailInv, TypeOK, Becomes, world

LEMMA ReturnsKeeps ==
    ASSUME EmailInv, NEW s \in Shards, Returns(s)
    PROVE  EmailInv'
<1> DEFINE same == State = breaker /\ breaker' = breaker
<1>1. /\ call' \in [Shards -> Call]
      /\ same => Owed(call') \subseteq Owed(call) \ {s}
      /\ ~same => Owed(call') = {}
  BY ReturnedCalls
<1>2. UNCHANGED <<ctx, relay, world>> /\ call[s].pc = "back"
  BY DEF Returns
<1>3. State \in {"closed", "open", "half"} /\ (State # breaker => breaker = "open" /\ State = "half")
  BY Types DEF State
<1>4. 0 \in 0 .. MaxFailures - 1 /\ fails \in 0 .. MaxFailures - 1 /\ 0 \in 0 .. MaxFailures
      /\ failed \in 0 .. MaxFailures
  BY Types, ConfigAssumption DEF Validate
<1>5. Unreported = Owed(call) /\ Unreported' = Owed(call')
  BY DEF Unreported, Owed
<1>6. Cardinality(Owed(call)) \in Nat /\ Cardinality(Owed(call')) \in Nat
  BY OwedFinite
<1>7. Cardinality({}) = 0
  BY FS_EmptySet
<1>8. CASE Ignored(s)
  <2>1. failed' = failed /\ Becomes(State, IF State = breaker THEN fails ELSE 0, State = breaker /\ slot)
    BY <1>8 DEF Ignored
  <2>2. (State = breaker /\ slot) \in BOOLEAN /\ (IF State = breaker THEN fails ELSE 0) \in 0 .. MaxFailures - 1
    BY <1>4
  <2>3. TypeOK' /\ breaker' = State /\ fails' = IF State = breaker THEN fails ELSE 0
    BY <1>1, <1>2, <1>3, <1>4, <2>1, <2>2, BecomesTyped
  <2>4. CASE State = breaker
    BY <1>1, <2>1, <2>3, <2>4, Unnoticed
  <2>5. CASE State # breaker
    BY <1>3, <2>1, <2>3, <2>5 DEF EmailInv
  <2> QED
    BY <2>4, <2>5
<1>9. CASE call[s].current /\ State = breaker /\ Succeeded(s)
  <2>1. Becomes("closed", 0, FALSE) /\ failed' = IF breaker = "half" THEN 0 ELSE failed
    BY <1>9 DEF Succeeded
  <2>2. TypeOK' /\ breaker' = "closed" /\ fails' = 0
    BY <1>1, <1>2, <1>4, <2>1, BecomesTyped
  <2>3. CASE breaker = "closed"
    <3>1. Owed(call') \subseteq Owed(call)
      BY <1>1, <1>9, <2>2, <2>3
    <3>2. Cardinality(Unreported') <= Cardinality(Unreported)
      BY <1>5, <3>1, FewerOwed
    <3>3. failed' = failed
      BY <2>1, <2>3
    <3> QED
      BY <1>5, <1>6, <2>2, <2>3, <3>2, <3>3, Types DEF EmailInv
  <2>4. CASE breaker # "closed"
    <3>1. Cardinality(Unreported') = 0
      BY <1>1, <1>5, <1>7, <2>2, <2>4
    <3>2. failed' >= 0
      BY <2>1, Types
    <3> QED
      BY <2>2, <3>1, <3>2 DEF EmailInv
  <2> QED
    BY <2>3, <2>4
<1>10. CASE call[s].current /\ State = breaker /\ Failed(s)
  <2>1. s \in Owed(call)
    BY <1>2, <1>10 DEF Failed, Owed
  <2>2. failed' = failed
    BY <1>10 DEF Failed
  <2>3. CASE breaker = "half" \/ ReadyToTrip(fails + 1)
    <3>1. Becomes("open", 0, FALSE)
      BY <1>10, <2>3 DEF Failed
    <3>2. TypeOK' /\ breaker' = "open"
      BY <1>1, <1>2, <1>4, <2>2, <3>1, BecomesTyped
    <3>3. Cardinality(Owed(call)) >= 1
      BY <2>1, <1>6, OwedFinite, FS_EmptySet
    <3>4. failed = MaxFailures
      <4>1. CASE breaker # "closed"
        BY <4>1 DEF EmailInv
      <4>2. CASE breaker = "closed"
        <5>1. fails + 1 >= MaxFailures
          BY <2>3, <4>2 DEF ReadyToTrip
        <5>2. fails + Cardinality(Owed(call)) <= failed \/ failed = MaxFailures
          BY <1>5, <4>2 DEF EmailInv
        <5> QED
          BY <5>1, <5>2, <3>3, <1>6, Types
      <4> QED
        BY <4>1, <4>2
    <3> QED
      BY <2>2, <3>2, <3>4 DEF EmailInv
  <2>4. CASE ~(breaker = "half" \/ ReadyToTrip(fails + 1))
    <3>1. Becomes("closed", fails + 1, FALSE)
      BY <1>10, <2>4 DEF Failed
    <3>2. fails + 1 \in 0 .. MaxFailures - 1
      BY <2>4, Types DEF ReadyToTrip
    <3>3. TypeOK' /\ breaker' = "closed" /\ fails' = fails + 1
      BY <1>1, <1>2, <1>4, <2>2, <3>1, <3>2, BecomesTyped
    <3>4. CASE breaker = "closed"
      <4>1. Owed(call') \in SUBSET (Owed(call) \ {s})
        BY <1>1, <1>10, <3>3, <3>4
      <4>2. /\ IsFiniteSet(Owed(call) \ {s})
            /\ Cardinality(Owed(call) \ {s}) = Cardinality(Owed(call)) - 1
        BY <2>1, OwedFinite, FS_RemoveElement
      <4>3. Cardinality(Owed(call')) <= Cardinality(Owed(call)) - 1
        BY <4>1, <4>2, FS_Subset
      <4>4. fails + Cardinality(Owed(call)) <= failed \/ failed = MaxFailures
        BY <1>5, <3>4 DEF EmailInv
      <4>5. fails' + Cardinality(Owed(call')) <= failed \/ failed = MaxFailures
        BY <4>3, <4>4, <3>3, <1>6, Types
      <4> QED
        BY <1>5, <2>2, <3>3, <4>5 DEF EmailInv
    <3>5. CASE breaker # "closed"
      BY <2>2, <3>3, <3>5 DEF EmailInv
    <3> QED
      BY <3>4, <3>5
  <2> QED
    BY <2>3, <2>4
<1>11. CASE call[s].current /\ State = breaker /\ Excluded(s)
  <2>1. PICK kept \in BOOLEAN : Becomes(breaker, fails, slot /\ kept)
    BY <1>11 DEF Excluded
  <2>2. failed' = failed
    BY <1>11 DEF Excluded
  <2>3. (slot /\ kept) \in BOOLEAN /\ breaker \in {"closed", "open", "half"}
    BY Types
  <2>4. TypeOK' /\ breaker' = breaker /\ fails' = fails
    BY <1>1, <1>2, <1>4, <2>1, <2>2, <2>3, BecomesTyped
  <2> QED
    BY <1>1, <1>11, <2>2, <2>4, Unnoticed
<1> QED
  BY <1>8, <1>9, <1>10, <1>11 DEF Returns, AfterRequest

-----------------------------------------------------------------------------
(* The relay, the clock and the provider.                                  *)

LEMMA TickKeeps ==
    ASSUME EmailInv, NEW S \in (SUBSET Shards) \ {{}}, Tick(S)
    PROVE  EmailInv'
<1>1. call' = [s \in Shards |-> IF s \in S THEN [NoCall EXCEPT !.pc = "ready"] ELSE NoCall]
  BY DEF Tick
<1>2. call' \in [Shards -> Call] /\ \A s \in Shards : call'[s].pc # "back"
  BY <1>1 DEF NoCall, Call, Verdicts
<1>3. Owed(call') \subseteq Owed(call)
  BY <1>2 DEF Owed
<1> QED
  BY <1>2, <1>3, QuietStep DEF Tick

LEMMA TickEndsKeeps ==
    ASSUME EmailInv, TickEnds
    PROVE  EmailInv'
<1>1. call' = [s \in Shards |-> NoCall]
  BY DEF TickEnds
<1>2. call' \in [Shards -> Call] /\ \A s \in Shards : call'[s].pc # "back"
  BY <1>1 DEF NoCall, Call, Verdicts
<1>3. Owed(call') \subseteq Owed(call)
  BY <1>2 DEF Owed
<1>4. relay' \in {"idle", "tick", "pausing", "paused"}
  BY DEF TickEnds, Pause
<1> QED
  BY <1>2, <1>3, <1>4, Types, QuietStep DEF TickEnds

LEMMA NextEmailInv ==
    EmailInv /\ [Next]_vars => EmailInv'
<1> SUFFICES ASSUME EmailInv, [Next]_vars
             PROVE  EmailInv'
  OBVIOUS
<1>1. ASSUME NEW s \in Shards, ShardStep(s) \/ Panics(s)
      PROVE  EmailInv'
  <2>1. CASE Answers(s)
    BY <2>1, HarmlessBackKeeps DEF Answers
  <2>2. CASE Aborts(s)
    BY <2>2, HarmlessBackKeeps DEF Aborts, Classify
  <2>3. CASE ProviderFails(s)
    BY <2>3, FailedBackKeeps DEF ProviderFails, Classify, Verdicts
  <2>4. CASE Panics(s)
    BY <2>4, FailedBackKeeps DEF Panics, Verdicts
  <2> QED
    BY <1>1, <2>1, <2>2, <2>3, <2>4, AdmitKeeps, RejectKeeps, SkipKeeps, ReturnsKeeps, CancelKeeps
       DEF ShardStep
<1>2. ASSUME NEW S \in (SUBSET Shards) \ {{}}, Tick(S)
      PROVE  EmailInv'
  BY <1>2, TickKeeps
<1>3. CASE TickEnds
  BY <1>3, TickEndsKeeps
<1>4. CASE BudgetExpires
  BY <1>4, Types, QuietStep DEF BudgetExpires
<1>5. CASE OpenForPasses
  <2>1. TypeOK'
    BY <1>5 DEF OpenForPasses, EmailInv, TypeOK, brk, world
  <2> QED
    BY <1>5, <2>1, Unnoticed DEF OpenForPasses, brk
<1>6. CASE PauseOver
  BY <1>6, Types, QuietStep DEF PauseOver
<1>7. CASE ProviderChanges
  <2>1. provider' \in {"well", "down", "hung"} /\ changes' \in 0 .. MaxChanges
    BY <1>7, ChangesAssumption DEF ProviderChanges, EmailInv, TypeOK
  <2>2. TypeOK'
    BY <1>7, <2>1 DEF ProviderChanges, EmailInv, TypeOK, brk
  <2> QED
    BY <1>7, <2>2, Unnoticed DEF ProviderChanges, brk
<1>8. CASE UNCHANGED vars
  BY <1>8, Types, QuietStep DEF vars
<1> QED
  BY <1>1, <1>2, <1>3, <1>4, <1>5, <1>6, <1>7, <1>8 DEF Next

(* The invariant of the client and its breaker.                            *)
THEOREM EmailInvariant == Spec => []EmailInv
BY InitEmailInv, NextEmailInv, PTL DEF Spec

(* However many shards and whatever the threshold: the breaker leaves      *)
(* "closed" only for failures of the provider's own, never for calls that  *)
(* a sibling or the tick budget cut off (errCallerGone and IsExcluded).    *)
THEOREM TripsAreEarned == Spec => []TripsAreTheProviders
<1>1. EmailInv => TripsAreTheProviders
  BY ConfigAssumption DEF EmailInv, TripsAreTheProviders
<1> QED
  BY <1>1, EmailInvariant, PTL

-----------------------------------------------------------------------------
(* The text that is stored (Text).  The positions of a finite set of       *)
(* numbers: Rank counts them off from 1, and the last one is the greatest. *)

LEMMA RankType ==
    ASSUME NEW K \in SUBSET Nat, IsFiniteSet(K), NEW i \in Nat
    PROVE  /\ IsFiniteSet({k \in K : k <= i})
           /\ Rank(K, i) \in Nat /\ Rank(K, i) <= Cardinality(K)
           /\ i \in K => Rank(K, i) >= 1
<1> DEFINE B == {k \in K : k <= i}
<1>1. B \in SUBSET K
  OBVIOUS
<1>2. /\ IsFiniteSet(B) /\ Cardinality(B) <= Cardinality(K)
  BY <1>1, FS_Subset
<1>3. Cardinality(B) \in Nat
  BY <1>2, FS_CardinalityType
<1>4. i \in K => Cardinality(B) # 0
  <2>1. i \in K => i \in B
    OBVIOUS
  <2> QED
    BY <2>1, <1>2, FS_EmptySet
<1>5. Rank(K, i) = Cardinality(B)
  BY DEF Rank
<1> HIDE DEF B
<1> QED
  BY <1>2, <1>3, <1>4, <1>5 DEF B

LEMMA RankIncreases ==
    ASSUME NEW K \in SUBSET Nat, IsFiniteSet(K), NEW a \in Nat, NEW b \in K, a < b
    PROVE  Rank(K, a) < Rank(K, b)
<1> DEFINE A == {k \in K : k <= a}
           B == {k \in K : k <= b}
<1>1. b \in Nat
  OBVIOUS
<1>2. A \in SUBSET B /\ b \in B /\ b \notin A
  <2>1. \A k \in K : k \in Nat
    OBVIOUS
  <2>2. \A k \in A : k \in B
    BY <1>1, <2>1
  <2>3. b \in B /\ b \notin A
    BY <1>1
  <2> QED
    BY <2>2, <2>3
<1>3. IsFiniteSet(B)
  BY <1>1, RankType
<1>4. /\ Cardinality(A) <= Cardinality(B)
      /\ Cardinality(A) # Cardinality(B)
  BY <1>2, <1>3, FS_Subset
<1>5. Rank(K, a) = Cardinality(A) /\ Rank(K, b) = Cardinality(B)
  BY DEF Rank
<1>6. Rank(K, a) \in Nat /\ Rank(K, b) \in Nat
  BY <1>1, RankType
<1> HIDE DEF A, B
<1> QED
  BY <1>4, <1>5, <1>6

LEMMA RankNext ==
    ASSUME NEW K \in SUBSET Nat, IsFiniteSet(K), NEW a \in Nat, a + 1 \in K
    PROVE  Rank(K, a + 1) = Rank(K, a) + 1
<1> DEFINE A == {k \in K : k <= a}
<1>1. {k \in K : k <= a + 1} = A \cup {a + 1}
  <2>1. \A k \in K : k <= a + 1 <=> k <= a \/ k = a + 1
    <3> TAKE k \in K
    <3>1. k \in Nat
      OBVIOUS
    <3> QED
      BY <3>1
  <2> QED
    BY <2>1
<1>2. a + 1 \notin A
  OBVIOUS
<1>3. IsFiniteSet(A)
  BY RankType
<1>4. Cardinality(A \cup {a + 1}) = Cardinality(A) + 1
  BY <1>2, <1>3, FS_AddElement
<1> QED
  BY <1>1, <1>4 DEF Rank

(* Every number up to the size of K is the rank of one of its elements.    *)
LEMMA RankOnto ==
    ASSUME NEW K \in SUBSET Nat, IsFiniteSet(K)
    PROVE  \A j \in 1 .. Cardinality(K) : \E i \in K : Rank(K, i) = j
<1> DEFINE n == Cardinality(K)
           f == [i \in K |-> Rank(K, i)]
<1>1. n \in Nat
  BY FS_CardinalityType
<1>2. f \in [K -> 1 .. n]
  <2> SUFFICES ASSUME NEW i \in K PROVE Rank(K, i) \in 1 .. n
    OBVIOUS
  <2>1. i \in Nat
    OBVIOUS
  <2>2. /\ Rank(K, i) \in Nat /\ Rank(K, i) <= Cardinality(K)
        /\ Rank(K, i) >= 1
    BY <2>1, RankType
  <2> QED
    BY <1>1, <2>2
<1>3. ASSUME NEW a \in K, NEW b \in K, f[a] = f[b] PROVE a = b
  <2>1. a \in Nat /\ b \in Nat /\ Rank(K, a) = Rank(K, b)
    BY <1>3
  <2>2. Rank(K, a) \in Nat /\ Rank(K, b) \in Nat
    BY <2>1, RankType
  <2>3. ~(a < b) /\ ~(b < a)
    BY <2>1, <2>2, RankIncreases
  <2> QED
    BY <2>1, <2>3
<1>4. f \in Injection(K, 1 .. n)
  BY <1>2, <1>3 DEF Injection, IsInjective
<1>5. IsFiniteSet(1 .. n) /\ Cardinality(1 .. n) = n
  BY <1>1, FS_Interval
<1>6. f \in Surjection(K, 1 .. n)
  <2> HIDE DEF f
  <2> QED
    BY <1>4, <1>5, FS_Injection
<1> QED
  BY <1>6 DEF Surjection

LEMMA GreatestElement ==
    ASSUME NEW K \in SUBSET Nat, IsFiniteSet(K), K # {}
    PROVE  \E m \in K : \A k \in K : k <= m
<1>1. Cardinality(K) \in Nat /\ Cardinality(K) # 0
  BY FS_CardinalityType, FS_EmptySet
<1>2. PICK m \in K : Rank(K, m) = Cardinality(K)
  BY <1>1, RankOnto
<1>3. ASSUME NEW k \in K PROVE k <= m
  <2>1. k \in Nat /\ m \in Nat
    OBVIOUS
  <2>2. Rank(K, k) \in Nat /\ Rank(K, k) <= Cardinality(K)
    BY <2>1, RankType
  <2>3. ~(m < k)
    BY <1>1, <1>2, <2>1, <2>2, RankIncreases
  <2> QED
    BY <2>1, <2>3
<1> QED
  BY <1>3

-----------------------------------------------------------------------------
(* Runes.                                                                  *)

LEMMA WidthType == \A b : Width(b) \in {1, 2, 3}
BY DEF Width

LEMMA Prefix ==
    ASSUME NEW s \in Seq(Bytes), NEW n \in 0 .. Len(s)
    PROVE  /\ SubSeq(s, 1, n) \in Seq(Bytes) /\ Len(SubSeq(s, 1, n)) = n
           /\ DOMAIN SubSeq(s, 1, n) = 1 .. n
           /\ \A i \in 1 .. n : SubSeq(s, 1, n)[i] = s[i]
OBVIOUS

LEMMA InRunesType ==
    ASSUME NEW s \in Seq(Bytes)
    PROVE  /\ InRunes(s) \in SUBSET (1 .. Len(s)) /\ InRunes(s) \in SUBSET Nat
           /\ IsFiniteSet(InRunes(s)) /\ Cardinality(InRunes(s)) \in Nat
           /\ Cardinality(InRunes(s)) <= Len(s)
<1>1. DOMAIN s = 1 .. Len(s) /\ Len(s) \in Nat
  OBVIOUS
<1>2. InRunes(s) \in SUBSET (1 .. Len(s))
  BY <1>1 DEF InRunes
<1>3. IsFiniteSet(1 .. Len(s)) /\ Cardinality(1 .. Len(s)) = Len(s)
  BY <1>1, FS_Interval
<1>4. IsFiniteSet(InRunes(s)) /\ Cardinality(InRunes(s)) <= Len(s)
  BY <1>2, <1>3, FS_Subset
<1>5. Cardinality(InRunes(s)) \in Nat
  BY <1>4, FS_CardinalityType
<1>6. InRunes(s) \in SUBSET Nat
  BY <1>1, <1>2
<1> QED
  BY <1>2, <1>4, <1>5, <1>6

(* The bytes that ToValidUTF8 keeps, in their order.                       *)
LEMMA KeptBytes ==
    ASSUME NEW s \in Seq(Bytes)
    PROVE  /\ ToValidUTF8(s) \in Seq(Bytes)
           /\ Len(ToValidUTF8(s)) = Cardinality(InRunes(s))
           /\ \A i \in InRunes(s) :
                  /\ Rank(InRunes(s), i) \in 1 .. Len(ToValidUTF8(s))
                  /\ ToValidUTF8(s)[Rank(InRunes(s), i)] = s[i]
           /\ \A j \in 1 .. Len(ToValidUTF8(s)) : \E i \in InRunes(s) : Rank(InRunes(s), i) = j
<1> DEFINE K == InRunes(s)
           n == Cardinality(K)
           at(j) == CHOOSE i \in K : Rank(K, i) = j
           t == [j \in 1 .. n |-> s[at(j)]]
<1>1. /\ K \in SUBSET Nat /\ IsFiniteSet(K) /\ n \in Nat
      /\ K \in SUBSET (1 .. Len(s))
  BY InRunesType
<1>2. ToValidUTF8(s) = t
  BY DEF ToValidUTF8
<1> HIDE DEF K, n
<1>3. \A j \in 1 .. n : \E i \in K : Rank(K, i) = j
  BY <1>1, RankOnto DEF n
<1>4. \A j \in 1 .. n : at(j) \in K /\ Rank(K, at(j)) = j
  BY <1>3
<1>5. \A i \in K : s[i] \in Bytes
  BY <1>1
<1> HIDE DEF at
<1>6. t \in [1 .. n -> Bytes]
  BY <1>4, <1>5
<1>7. t \in Seq(Bytes) /\ Len(t) = n
  BY <1>6, <1>1
<1>8. ASSUME NEW i \in K
      PROVE  Rank(K, i) \in 1 .. n /\ t[Rank(K, i)] = s[i]
  <2>1. i \in Nat
    BY <1>1
  <2>2. Rank(K, i) \in 1 .. n
    <3>1. /\ Rank(K, i) \in Nat /\ Rank(K, i) <= Cardinality(K)
          /\ Rank(K, i) >= 1
      BY <2>1, <1>1, RankType
    <3> QED
      BY <3>1, <1>1 DEF n
  <2>3. PICK a : a = at(Rank(K, i))
    OBVIOUS
  <2>4. a \in K /\ a \in Nat /\ Rank(K, a) = Rank(K, i)
    BY <2>2, <2>3, <1>4, <1>1
  <2>5. Rank(K, i) \in Nat
    BY <2>1, <1>1, RankType
  <2>6. ~(a < i) /\ ~(i < a)
    BY <2>1, <2>4, <2>5, <1>1, RankIncreases
  <2>7. a = i
    BY <2>1, <2>4, <2>6
  <2> QED
    BY <2>2, <2>3, <2>7
<1> HIDE DEF t
<1> QED
  BY <1>2, <1>3, <1>7, <1>8 DEF n, K

(* The bytes of a whole rune are kept, one after the other.                *)
LEMMA RuneKept ==
    ASSUME NEW s \in Seq(Bytes), NEW p \in 1 .. Len(s), RuneAt(s, p),
           NEW d \in 0 .. Width(s[p]) - 1
    PROVE  /\ p + d \in InRunes(s)
           /\ Rank(InRunes(s), p + d) = Rank(InRunes(s), p) + d
<1> DEFINE K == InRunes(s)
           w == Width(s[p])
<1>1. w \in {1, 2, 3}
  BY WidthType
<1>2. p + w - 1 <= Len(s) /\ Len(s) \in Nat /\ p \in Nat
  BY DEF RuneAt
<1>3. ASSUME NEW e \in 0 .. w - 1 PROVE p + e \in K
  <2>1. p + e \in DOMAIN s /\ p \in 1 .. p + e /\ p + e < p + w
    BY <1>1, <1>2
  <2> QED
    BY <2>1 DEF InRunes
<1>4. K \in SUBSET Nat /\ IsFiniteSet(K)
  BY InRunesType
<1>5. Rank(K, p) \in Nat
  BY <1>2, <1>4, RankType
<1> HIDE DEF K, w
<1>6. p + d \in K
  BY <1>3 DEF w
<1>7. CASE d = 0
  BY <1>2, <1>5, <1>6, <1>7 DEF K
<1>8. w > 1 => Rank(K, p + 1) = Rank(K, p) + 1
  BY <1>1, <1>2, <1>3, <1>4, RankNext
<1>9. w > 2 => Rank(K, p + 2) = Rank(K, p) + 2
  <2> HAVE w > 2
  <2>1. (p + 1) + 1 \in K /\ p + 1 \in Nat
    BY <1>1, <1>2, <1>3
  <2>2. Rank(K, (p + 1) + 1) = Rank(K, p + 1) + 1
    BY <2>1, <1>4, RankNext
  <2>3. (p + 1) + 1 = p + 2
    BY <1>2
  <2> QED
    BY <2>2, <2>3, <1>1, <1>5, <1>8
<1>10. d \in {0, 1, 2} /\ (d = 1 => w > 1) /\ (d = 2 => w > 2)
  BY <1>1 DEF w
<1> QED
  BY <1>6, <1>7, <1>8, <1>9, <1>10 DEF K

(* What ToValidUTF8 returns is valid.                                      *)
LEMMA ToValidIsValid ==
    ASSUME NEW s \in Seq(Bytes)
    PROVE  IsValidUTF8(ToValidUTF8(s))
<1> DEFINE K == InRunes(s)
           t == ToValidUTF8(s)
<1>1. t \in Seq(Bytes)
  BY KeptBytes
<1>2. SUFFICES ASSUME NEW j \in 1 .. Len(t) PROVE j \in InRunes(t)
  <2>1. InRunes(t) \in SUBSET (1 .. Len(t)) /\ DOMAIN t = 1 .. Len(t)
    BY <1>1, InRunesType
  <2> HIDE DEF t
  <2> QED
    BY <2>1 DEF IsValidUTF8, t
<1>3. PICK i \in K : Rank(K, i) = j
  BY KeptBytes
<1>4. PICK p \in 1 .. i : RuneAt(s, p) /\ i < p + Width(s[p])
  BY <1>3 DEF InRunes
<1>5. K \in SUBSET (1 .. Len(s)) /\ Len(s) \in Nat
  BY InRunesType
<1>6. i \in 1 .. Len(s) /\ i \in Nat /\ p \in 1 .. Len(s) /\ p \in Nat /\ p <= i
  BY <1>3, <1>4, <1>5
<1>7. PICK w \in {1, 2, 3} : w = Width(s[p])
  BY WidthType
<1>8. PICK q : q = Rank(K, p)
  OBVIOUS
<1> HIDE DEF K, t
<1>9. \A d \in 0 .. w - 1 : p + d \in K /\ Rank(K, p + d) = q + d
  BY <1>4, <1>6, <1>7, <1>8, RuneKept DEF K
<1>10. \A k \in K : Rank(K, k) \in 1 .. Len(t) /\ t[Rank(K, k)] = s[k]
  BY KeptBytes DEF K, t
<1>11. q \in 1 .. Len(t) /\ t[q] = s[p] /\ q \in Nat
  <2>1. 0 \in 0 .. w - 1 /\ p + 0 = p
    BY <1>6, <1>7
  <2>2. p \in K
    BY <2>1, <1>9
  <2>3. q \in 1 .. Len(t) /\ t[q] = s[p]
    BY <2>2, <1>8, <1>10
  <2> QED
    BY <2>3
<1>12. \A d \in 0 .. w - 1 : q + d \in 1 .. Len(t) /\ t[q + d] = s[p + d]
  BY <1>9, <1>10
<1>13. Len(t) \in Nat /\ DOMAIN t = 1 .. Len(t)
  BY <1>1 DEF t
<1>14. Width(t[q]) = w
  BY <1>7, <1>11
<1>15. RuneAt(t, q)
  <2>1. RuneStart(t[q])
    BY <1>4, <1>11 DEF RuneAt
  <2>2. q + w - 1 <= Len(t)
    <3>1. w - 1 \in 0 .. w - 1 /\ q + (w - 1) = q + w - 1
      BY <1>7, <1>11
    <3> QED
      BY <3>1, <1>12
  <2>3. ASSUME NEW k \in q + 1 .. q + w - 1 PROVE t[k] = "cont"
    <3>1. PICK d \in 1 .. w - 1 : d = k - q /\ k = q + d
      BY <1>7, <1>11
    <3>2. t[k] = s[p + d]
      BY <3>1, <1>7, <1>12
    <3>3. p + d \in p + 1 .. p + w - 1
      BY <3>1, <1>6, <1>7
    <3>4. s[p + d] = "cont"
      BY <3>3, <1>4, <1>7 DEF RuneAt
    <3> QED
      BY <3>2, <3>4
  <2> QED
    BY <2>1, <2>2, <2>3, <1>14 DEF RuneAt
<1>16. j = q + (i - p) /\ i - p \in 0 .. w - 1
  <2>1. i - p \in 0 .. w - 1 /\ p + (i - p) = i
    BY <1>4, <1>6, <1>7
  <2> QED
    BY <2>1, <1>3, <1>9
<1>17. q \in 1 .. j /\ j < q + w
  BY <1>6, <1>7, <1>11, <1>16
<1> QED
  BY <1>13, <1>14, <1>15, <1>17, <1>2 DEF InRunes, t

(* A valid text comes back as it went in.                                  *)
LEMMA ToValidKeepsValid ==
    ASSUME NEW s \in Seq(Bytes), IsValidUTF8(s)
    PROVE  ToValidUTF8(s) = s
<1> DEFINE n == Len(s)
           t == ToValidUTF8(s)
<1>1. InRunes(s) = 1 .. n /\ n \in Nat
  BY DEF IsValidUTF8
<1>2. ASSUME NEW i \in 1 .. n PROVE Rank(1 .. n, i) = i
  <2>1. {k \in 1 .. n : k <= i} = 1 .. i
    BY <1>1
  <2>2. Cardinality(1 .. i) = i
    BY <1>1, FS_Interval
  <2> QED
    BY <2>1, <2>2 DEF Rank
<1>3. Cardinality(1 .. n) = n
  BY <1>1, FS_Interval
<1>4. t \in Seq(Bytes) /\ Len(t) = n
  BY <1>1, <1>3, KeptBytes
<1>5. \A i \in 1 .. n : t[i] = s[i]
  BY <1>1, <1>2, KeptBytes
<1> HIDE DEF t
<1> QED
  BY <1>4, <1>5 DEF t

-----------------------------------------------------------------------------
(* truncateUTF8.                                                           *)

(* Where truncateUTF8 cuts.                                                *)
IsCut(s, maxBytes, n) ==
    /\ n = 0 \/ RuneStart(s[n + 1])
    /\ \A k \in n + 1 .. maxBytes : ~RuneStart(s[k + 1])

LEMMA CutExists ==
    ASSUME NEW s \in Seq(Bytes), NEW maxBytes \in Nat, maxBytes < Len(s)
    PROVE  \E n \in 0 .. maxBytes : IsCut(s, maxBytes, n)
<1> DEFINE C == {n \in 1 .. maxBytes : RuneStart(s[n + 1])}
<1>1. CASE C = {}
  <2>1. \A k \in 1 .. maxBytes : ~RuneStart(s[k + 1])
    BY <1>1
  <2>2. 0 + 1 .. maxBytes = 1 .. maxBytes /\ 0 \in 0 .. maxBytes
    OBVIOUS
  <2>3. IsCut(s, maxBytes, 0)
    BY <2>1, <2>2 DEF IsCut
  <2> QED
    BY <2>2, <2>3
<1>2. CASE C # {}
  <2>1. IsFiniteSet(1 .. maxBytes) /\ C \in SUBSET (1 .. maxBytes)
    BY FS_Interval
  <2>2. IsFiniteSet(C) /\ C \in SUBSET Nat
    BY <2>1, FS_Subset
  <2>3. PICK m \in C : \A k \in C : k <= m
    BY <1>2, <2>2, GreatestElement
  <2> QED
    BY <2>3 DEF IsCut
<1> QED
  BY <1>1, <1>2

LEMMA TruncateCuts ==
    ASSUME NEW s \in Seq(Bytes), NEW maxBytes \in Nat, maxBytes < Len(s)
    PROVE  \E n \in 0 .. maxBytes :
               IsCut(s, maxBytes, n) /\ truncateUTF8(s, maxBytes) = ToValidUTF8(SubSeq(s, 1, n))
<1> DEFINE cut == CHOOSE n \in 0 .. maxBytes :
                      /\ n = 0 \/ RuneStart(s[n + 1])
                      /\ \A k \in n + 1 .. maxBytes : ~RuneStart(s[k + 1])
<1>1. cut \in 0 .. maxBytes /\ IsCut(s, maxBytes, cut)
  BY CutExists DEF IsCut
<1>2. ~(Len(s) <= maxBytes)
  OBVIOUS
<1>3. truncateUTF8(s, maxBytes) = ToValidUTF8(SubSeq(s, 1, cut))
  BY <1>2 DEF truncateUTF8
<1> QED
  BY <1>1, <1>3

(* Of a valid text the cut leaves whole runes.                             *)
LEMMA CutIsValid ==
    ASSUME NEW s \in Seq(Bytes), IsValidUTF8(s), NEW maxBytes \in Nat, maxBytes < Len(s),
           NEW n \in 0 .. maxBytes, IsCut(s, maxBytes, n)
    PROVE  IsValidUTF8(SubSeq(s, 1, n))
<1> DEFINE P == SubSeq(s, 1, n)
<1>0. n \in 0 .. Len(s) /\ n \in Nat /\ Len(s) \in Nat
  OBVIOUS
<1>1. /\ P \in Seq(Bytes) /\ Len(P) = n /\ DOMAIN P = 1 .. n
      /\ \A i \in 1 .. n : P[i] = s[i]
  BY <1>0, Prefix
<1> HIDE DEF P
<1>2. SUFFICES ASSUME NEW i \in 1 .. n PROVE i \in InRunes(P)
  BY <1>1, InRunesType DEF IsValidUTF8, P
<1>3. i \in InRunes(s) /\ i \in Nat
  BY <1>0 DEF IsValidUTF8
<1>4. PICK p \in 1 .. i : RuneAt(s, p) /\ i < p + Width(s[p])
  BY <1>3 DEF InRunes
<1>5. PICK w \in {1, 2, 3} : w = Width(s[p])
  BY WidthType
<1>6. s[n + 1] # "cont"
  BY <1>0, <1>2 DEF IsCut, RuneStart
<1>7. p + w - 1 <= n
  <2> SUFFICES ASSUME ~(p + w - 1 <= n) PROVE FALSE
    OBVIOUS
  <2>1. n + 1 \in p + 1 .. p + w - 1
    BY <1>0, <1>2, <1>3, <1>5
  <2>2. s[n + 1] = "cont"
    BY <2>1, <1>4, <1>5 DEF RuneAt
  <2> QED
    BY <2>2, <1>6
<1>8. P[p] = s[p] /\ Width(P[p]) = w
  BY <1>0, <1>1, <1>3, <1>5
<1>9. \A k \in p + 1 .. p + w - 1 : P[k] = "cont"
  <2> TAKE k \in p + 1 .. p + w - 1
  <2>1. k \in 1 .. n
    BY <1>0, <1>3, <1>5, <1>7
  <2> QED
    BY <2>1, <1>1, <1>4, <1>5 DEF RuneAt
<1>10. RuneAt(P, p)
  BY <1>1, <1>4, <1>7, <1>8, <1>9 DEF RuneAt
<1> QED
  BY <1>1, <1>2, <1>4, <1>5, <1>8, <1>10 DEF InRunes

(* No longer prefix that fits has whole runes only.                        *)
LEMMA CutIsLongest ==
    ASSUME NEW s \in Seq(Bytes), IsValidUTF8(s), NEW maxBytes \in Nat, maxBytes < Len(s),
           NEW n \in 0 .. maxBytes, IsCut(s, maxBytes, n),
           NEW m \in n + 1 .. maxBytes
    PROVE  ~IsValidUTF8(SubSeq(s, 1, m))
<1> SUFFICES ASSUME IsValidUTF8(SubSeq(s, 1, m)) PROVE FALSE
  OBVIOUS
<1> DEFINE Q == SubSeq(s, 1, m)
<1>0. m \in 0 .. Len(s) /\ m \in Nat /\ Len(s) \in Nat /\ m + 1 \in 1 .. Len(s)
  OBVIOUS
<1>1. /\ Q \in Seq(Bytes) /\ Len(Q) = m /\ DOMAIN Q = 1 .. m
      /\ \A i \in 1 .. m : Q[i] = s[i]
  BY <1>0, Prefix
<1>2. s[m + 1] = "cont"
  BY DEF IsCut, RuneStart
<1>3. m + 1 \in InRunes(s)
  BY <1>0 DEF IsValidUTF8
<1>4. PICK p \in 1 .. m + 1 : RuneAt(s, p) /\ m + 1 < p + Width(s[p])
  BY <1>3 DEF InRunes
<1>5. s[p] # "cont" /\ p \in 1 .. m
  <2>1. s[p] # "cont"
    BY <1>4 DEF RuneAt, RuneStart
  <2>2. p # m + 1
    BY <2>1, <1>2
  <2> QED
    BY <2>1, <2>2, <1>0
<1>6. InRunes(Q) = 1 .. m
  BY <1>1 DEF IsValidUTF8
<1> HIDE DEF Q
<1>7. PICK q \in 1 .. p : RuneAt(Q, q) /\ p < q + Width(Q[q])
  BY <1>5, <1>6 DEF InRunes
<1>8. PICK w \in {1, 2, 3} : w = Width(Q[q])
  BY WidthType
<1>9. q = p
  <2> SUFFICES ASSUME q # p PROVE FALSE
    OBVIOUS
  <2>1. p \in q + 1 .. q + w - 1
    BY <1>5, <1>7, <1>8
  <2>2. Q[p] = "cont"
    BY <2>1, <1>7, <1>8 DEF RuneAt
  <2> QED
    BY <2>2, <1>1, <1>5
<1>10. q + w - 1 <= m
  BY <1>1, <1>7, <1>8 DEF RuneAt
<1>11. w = Width(s[p])
  BY <1>1, <1>5, <1>8, <1>9
<1> QED
  BY <1>0, <1>4, <1>5, <1>8, <1>9, <1>10, <1>11

(* LongestPrefix is the prefix it says.                                    *)
LEMMA LongestIs ==
    ASSUME NEW s \in Seq(Bytes), NEW maxBytes \in Nat,
           NEW n \in 0 .. Len(s), n <= maxBytes, IsValidUTF8(SubSeq(s, 1, n)),
           \A m \in n + 1 .. Len(s) : m <= maxBytes => ~IsValidUTF8(SubSeq(s, 1, m))
    PROVE  LongestPrefix(s, maxBytes) = SubSeq(s, 1, n)
<1> DEFINE fits == {k \in 0 .. Len(s) : k <= maxBytes /\ IsValidUTF8(SubSeq(s, 1, k))}
           top == CHOOSE k \in fits : \A j \in fits : j <= k
<1>1. n \in fits /\ fits \in SUBSET Nat
  OBVIOUS
<1>2. \A k \in fits : k <= n
  <2> SUFFICES ASSUME NEW k \in fits, ~(k <= n) PROVE FALSE
    OBVIOUS
  <2>1. k \in n + 1 .. Len(s) /\ k <= maxBytes /\ IsValidUTF8(SubSeq(s, 1, k))
    OBVIOUS
  <2> QED
    BY <2>1
<1>3. LongestPrefix(s, maxBytes) = SubSeq(s, 1, top)
  BY DEF LongestPrefix
<1> HIDE DEF fits
<1>4. top \in fits /\ \A j \in fits : j <= top
  BY <1>1, <1>2
<1> HIDE DEF top
<1>5. top = n
  BY <1>1, <1>2, <1>4
<1> QED
  BY <1>3, <1>5

(* What truncateUTF8 makes of any bytes is valid and fits, and of a valid  *)
(* text it is the longest prefix that does (persistence/outbox.go).        *)
THEOREM TruncateFits ==
    ASSUME NEW s \in Seq(Bytes), NEW maxBytes \in Nat
    PROVE  /\ IsValidUTF8(truncateUTF8(s, maxBytes))
           /\ Len(truncateUTF8(s, maxBytes)) <= maxBytes
           /\ IsValidUTF8(s) => truncateUTF8(s, maxBytes) = LongestPrefix(s, maxBytes)
<1>0. Len(s) \in Nat
  OBVIOUS
<1>1. CASE Len(s) <= maxBytes
  <2>1. truncateUTF8(s, maxBytes) = ToValidUTF8(s)
    BY <1>1 DEF truncateUTF8
  <2>2. Len(ToValidUTF8(s)) <= Len(s) /\ Len(ToValidUTF8(s)) \in Nat
    BY KeptBytes, InRunesType
  <2>3. ASSUME IsValidUTF8(s) PROVE s = LongestPrefix(s, maxBytes)
    <3>1. SubSeq(s, 1, Len(s)) = s
      OBVIOUS
    <3>2. Len(s) \in 0 .. Len(s) /\ Len(s) + 1 .. Len(s) = {}
      BY <1>0
    <3> QED
      BY <3>1, <3>2, <1>1, <2>3, LongestIs
  <2>4. Len(ToValidUTF8(s)) <= maxBytes
    BY <1>0, <1>1, <2>2
  <2> QED
    BY <2>1, <2>3, <2>4, ToValidIsValid, ToValidKeepsValid
<1>2. CASE maxBytes < Len(s)
  <2>1. PICK n \in 0 .. maxBytes :
            IsCut(s, maxBytes, n) /\ truncateUTF8(s, maxBytes) = ToValidUTF8(SubSeq(s, 1, n))
    BY <1>2, TruncateCuts
  <2> DEFINE P == SubSeq(s, 1, n)
  <2>2. n \in 0 .. Len(s) /\ n \in Nat /\ n <= maxBytes
    BY <1>0, <1>2
  <2>3. P \in Seq(Bytes) /\ Len(P) = n
    BY <2>2, Prefix
  <2> HIDE DEF P
  <2>4. Len(ToValidUTF8(P)) <= Len(P) /\ Len(ToValidUTF8(P)) \in Nat
    BY <2>3, KeptBytes, InRunesType
  <2>5. Len(ToValidUTF8(P)) <= maxBytes
    BY <2>2, <2>3, <2>4
  <2>6. ASSUME IsValidUTF8(s) PROVE P = LongestPrefix(s, maxBytes) /\ IsValidUTF8(P)
    <3>1. IsValidUTF8(P)
      BY <1>2, <2>1, <2>6, CutIsValid DEF P
    <3>2. ASSUME NEW m \in n + 1 .. Len(s), m <= maxBytes PROVE ~IsValidUTF8(SubSeq(s, 1, m))
      <4>1. m \in n + 1 .. maxBytes
        BY <3>2, <2>2, <1>0
      <4> QED
        BY <4>1, <1>2, <2>1, <2>6, CutIsLongest
    <3> QED
      BY <3>1, <3>2, <2>2, LongestIs DEF P
  <2>7. truncateUTF8(s, maxBytes) = ToValidUTF8(P)
    BY <2>1 DEF P
  <2>8. IsValidUTF8(ToValidUTF8(P))
    BY <2>3, ToValidIsValid
  <2>9. IsValidUTF8(s) => ToValidUTF8(P) = LongestPrefix(s, maxBytes)
    BY <2>3, <2>6, ToValidKeepsValid
  <2> QED
    BY <2>5, <2>7, <2>8, <2>9
<1> QED
  BY <1>0, <1>1, <1>2

-----------------------------------------------------------------------------
(* What StoredErrorFits says of a stored error e.                          *)
Fits(e) ==
    /\ IsValidUTF8(e.text)
    /\ Len(e.text) <= MaxErrLen
    /\ IsValidUTF8(e.reason) => e.text = LongestPrefix(e.reason, MaxErrLen)

LEMMA LastErrorsFit == \A e \in LastErrors : Fits(e)
<1> SUFFICES ASSUME NEW t \in Texts
             PROVE  Fits([reason |-> t, text |-> truncateUTF8(t, MaxErrLen)])
  BY DEF LastErrors
<1>1. t \in Seq(Bytes) /\ MaxErrLen \in Nat
  BY TextsAssumption
<1>2. PICK u : u = truncateUTF8(t, MaxErrLen)
  OBVIOUS
<1>3. /\ IsValidUTF8(u) /\ Len(u) <= MaxErrLen
      /\ IsValidUTF8(t) => u = LongestPrefix(t, MaxErrLen)
  BY <1>1, <1>2, TruncateFits
<1>4. Fits([reason |-> t, text |-> u])
  BY <1>3 DEF Fits
<1> QED
  BY <1>2, <1>4

LEMMA NoErrorFits == Fits(NoError)
<1> DEFINE e == << >>
<1>1. e \in Seq(Bytes) /\ Len(e) = 0 /\ MaxErrLen \in Nat
  BY TextsAssumption
<1>2. IsValidUTF8(e)
  BY DEF IsValidUTF8, InRunes
<1> HIDE DEF e
<1>3. Len(e) <= MaxErrLen
  BY <1>1
<1>4. truncateUTF8(e, MaxErrLen) = e
  BY <1>1, <1>2, <1>3, ToValidKeepsValid DEF truncateUTF8
<1>5. e = LongestPrefix(e, MaxErrLen)
  BY <1>1, <1>2, <1>4, TruncateFits
<1>6. Fits([reason |-> e, text |-> e])
  BY <1>2, <1>3, <1>5 DEF Fits
<1> QED
  BY <1>6 DEF NoError, e

(* Only a tick's beginning and its end touch what is stored.               *)
LEMMA StoredSteps ==
    [Next]_vars => stored' = stored \/ stored' = NoError \/ stored' \in LastErrors
<1> SUFFICES ASSUME [Next]_vars
             PROVE  stored' = stored \/ stored' = NoError \/ stored' \in LastErrors
  OBVIOUS
<1>1. ASSUME NEW s \in Shards, ShardStep(s) \/ Panics(s)
      PROVE  stored' = stored
  <2>1. CASE Admit(s) \/ Reject(s) \/ Skip(s)
    BY <2>1 DEF Admit, Reject, Skip
  <2>2. CASE Answers(s) \/ ProviderFails(s) \/ Aborts(s) \/ Panics(s)
    BY <2>2 DEF Answers, ProviderFails, Aborts, Panics
  <2>3. CASE Returns(s) \/ Cancel(s)
    BY <2>3 DEF Returns, Cancel
  <2> QED
    BY <1>1, <2>1, <2>2, <2>3 DEF ShardStep
<1>2. ASSUME NEW S \in (SUBSET Shards) \ {{}}, Tick(S)
      PROVE  stored' = NoError
  BY <1>2 DEF Tick
<1>3. CASE TickEnds
  BY <1>3 DEF TickEnds
<1>4. CASE BudgetExpires \/ OpenForPasses \/ PauseOver \/ ProviderChanges
  BY <1>4 DEF BudgetExpires, OpenForPasses, PauseOver, ProviderChanges
<1>5. CASE UNCHANGED vars
  BY <1>5 DEF vars
<1> QED
  BY <1>1, <1>2, <1>3, <1>4, <1>5 DEF Next

(* Whatever texts the panics come with, of any length and of any bytes,    *)
(* and whatever room the column has: last_error holds whole runes that     *)
(* fit, and of a valid text as many as do (truncateUTF8).                  *)
THEOREM StoredTextFits == Spec => []StoredErrorFits
<1>1. Init => StoredErrorFits
  BY NoErrorFits DEF Init, Fits, StoredErrorFits
<1>2. StoredErrorFits /\ [Next]_vars => StoredErrorFits'
  <2> SUFFICES ASSUME StoredErrorFits, [Next]_vars
               PROVE  StoredErrorFits'
    OBVIOUS
  <2>1. Fits(stored)
    BY DEF Fits, StoredErrorFits
  <2>2. Fits(stored')
    BY <2>1, StoredSteps, NoErrorFits, LastErrorsFit
  <2> QED
    BY <2>2 DEF Fits, StoredErrorFits
<1> QED
  BY <1>1, <1>2, PTL DEF Spec
=============================================================================
