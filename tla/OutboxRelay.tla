---------------------------- MODULE OutboxRelay ----------------------------
(***************************************************************************)
(* The transactional email outbox: several relay processes (one per API    *)
(* instance, internal/infrastructure/outbox/relay.go) claim rows of the    *)
(* MySQL table email_outbox (internal/infrastructure/persistence/outbox.go)*)
(* under FOR UPDATE SKIP LOCKED, send them in concurrent shards, remember  *)
(* each delivery in a Redis marker (internal/infrastructure/cache/dedup.go)*)
(* and settle all of a tick's rows in the transaction that claimed them.   *)
(*                                                                         *)
(* Message contents, durations and log output are left out: a row is its   *)
(* id, a pause is a flag that the clock clears, a backoff is "not due".    *)
(***************************************************************************)
EXTENDS Integers, Sequences, FiniteSets, Functions

CONSTANTS
    Relays,        \* the relay processes that share the table
    NoRelay,       \* the holder of a row nobody has locked
    Ids,           \* AUTO_INCREMENT ids that may be enqueued
    Batch,         \* Config.Batch
    Workers,       \* Config.Workers
    MaxAttempts,   \* Config.MaxAttempts
    Disturbances,  \* what the environment may do in this model
    MaxFaults      \* bound: how many faults happen in one behaviour

(* "stop" and "budget" are part of normal operation and are not counted.   *)
Faults == {"provider", "late", "panic", "redis", "expiry", "mysql", "crash"}

ASSUME NoRelayAssumption == NoRelay \notin Relays
ASSUME IdsAssumption == Ids \subseteq Nat
\* Config.Validate refuses zero and negative values of these three.
ASSUME ConfigAssumption ==
    Batch \in Nat \ {0} /\ Workers \in Nat \ {0} /\ MaxAttempts \in Nat \ {0}
ASSUME BoundsAssumption ==
    MaxFaults \in Nat /\ Disturbances \subseteq Faults \cup {"stop", "budget"}

Slots == 1 .. Workers

VARIABLES
    outbox,    \* the table: id -> status, attempts, due (next_retry_at passed)
    lock,      \* InnoDB row locks: id -> the relay whose transaction holds it
    marker,    \* the ids whose "sent" key is in Redis
    accepted,  \* history: how often the provider accepted each message
    charged,   \* history: how often a message was rejected, or lost to a panic
    faults,    \* how many faults have happened
    relay,     \* the state of each relay and of its current tick
    shard      \* the state of each goroutine of the current tick

vars == <<outbox, lock, marker, accepted, charged, faults, relay, shard>>

-----------------------------------------------------------------------------
(* Types.  "none" is a row not committed yet, "deleted" a row that Delete   *)
(* removed: the table itself knows only pending and failed.                *)
Row == [status: {"none", "pending", "failed", "deleted"}, attempts: Nat, due: BOOLEAN]

(* tx: none, open, or lost (rolled back by the server or by the expiry of  *)
(* the settle window while the tick still runs).  cause: the state of the  *)
(* context the shards share, context.Cause once it is done.                *)
Relay == [pc: {"idle", "dispatch", "stopped"},
          tx: {"none", "open", "lost"},
          cause: {"live", "paused", "shutdown", "budget"},
          stopping: BOOLEAN,
          paused: BOOLEAN,
          claimed: Seq(Ids),
          snap: [Ids -> Nat]]

(* pending, ok and sent/retry/delivered/paused are processShard's locals   *)
(* and its shardOutcome; todo is what is left of the loop it is in.        *)
Shard == [pc: {"idle", "start", "check", "send", "answer", "mark", "done"},
          todo: Seq(Ids),
          pending: Seq(Ids),
          ok: SUBSET Ids,
          sent: SUBSET Ids,
          retry: SUBSET Ids,
          delivered: Nat,
          paused: BOOLEAN]

(* The type of the table, the locks, the markers and the relays.           *)
TypeOK ==
    /\ outbox \in [Ids -> Row]
    /\ lock \in [Ids -> Relays \cup {NoRelay}]
    /\ marker \in SUBSET Ids
    /\ accepted \in [Ids -> Nat]
    /\ charged \in [Ids -> Nat]
    /\ faults \in Nat
    /\ relay \in [Relays -> Relay]
    /\ shard \in [Relays -> [Slots -> Shard]]

NoSnap == [id \in Ids |-> 0]

FreshRelay == [pc |-> "idle", tx |-> "none", cause |-> "live", stopping |-> FALSE,
               paused |-> FALSE, claimed |-> <<>>, snap |-> NoSnap]

(* A goroutine about to run over the rows q; with no rows there is none.   *)
NewShard(q) == [pc |-> IF q = <<>> THEN "idle" ELSE "start",
                todo |-> q, pending |-> <<>>, ok |-> {}, sent |-> {}, retry |-> {},
                delivered |-> 0, paused |-> FALSE]

NoShards == [w \in Slots |-> NewShard(<<>>)]

Init ==
    /\ outbox = [id \in Ids |-> [status |-> "none", attempts |-> 0, due |-> TRUE]]
    /\ lock = [id \in Ids |-> NoRelay]
    /\ marker = {}
    /\ accepted = [id \in Ids |-> 0]
    /\ charged = [id \in Ids |-> 0]
    /\ faults = 0
    /\ relay = [r \in Relays |-> FreshRelay]
    /\ shard = [r \in Relays |-> NoShards]

-----------------------------------------------------------------------------
(* The environment's budget of faults.                                     *)
Fault(kind) == kind \in Disturbances /\ faults < MaxFaults /\ faults' = faults + 1

(* The context of r's shards ends for the given reason: first cause wins.  *)
Ended(r, cause) == IF relay[r].cause = "live" THEN cause ELSE relay[r].cause

(* The locks once r's transaction has ended, one way or the other.         *)
Released(r) == [id \in Ids |-> IF lock[id] = r THEN NoRelay ELSE lock[id]]

-----------------------------------------------------------------------------
(* The statements of the outbox repository, as functions of the table.     *)

Enqueue(id) ==
    /\ outbox[id].status = "none"
    /\ outbox' = [outbox EXCEPT ![id].status = "pending"]
    /\ UNCHANGED <<lock, marker, accepted, charged, faults, relay, shard>>

(* Mutant: a plain SELECT, that does not skip locked rows.                 *)
ClaimableWithLocked == {id \in Ids : outbox[id].status = "pending" /\ outbox[id].due}

(* Mutant: a claim that never comes back to a rescheduled row.             *)
ClaimableFirstAttempt == {id \in Ids : /\ outbox[id].status = "pending"
                                       /\ outbox[id].attempts = 0
                                       /\ lock[id] = NoRelay}

Claimable == {id \in Ids : /\ outbox[id].status = "pending"
                           /\ outbox[id].due
                           /\ lock[id] = NoRelay}

(* q is what the claiming SELECT returns: the first Batch claimable rows   *)
(* in id order.                                                            *)
IsClaim(q) ==
    /\ Range(q) \subseteq Claimable
    /\ \A i, j \in DOMAIN q : i < j => q[i] < q[j]
    /\ \A id \in Claimable \ Range(q), i \in DOMAIN q : q[i] < id
    /\ Len(q) = IF Cardinality(Claimable) < Batch THEN Cardinality(Claimable) ELSE Batch

Delete(table, S) ==
    [id \in Ids |-> IF id \in S THEN [table[id] EXCEPT !.status = "deleted"] ELSE table[id]]

(* UPDATE ... WHERE id IN (...) finds no row that was deleted before it.   *)
Reschedule(table, S) ==
    [id \in Ids |-> IF id \in S /\ table[id].status # "deleted"
                    THEN [status |-> "pending", attempts |-> table[id].attempts + 1, due |-> FALSE]
                    ELSE table[id]]

MarkFailed(table, S) ==
    [id \in Ids |-> IF id \in S /\ table[id].status # "deleted"
                    THEN [table[id] EXCEPT !.status = "failed", !.attempts = @ + 1]
                    ELSE table[id]]

-----------------------------------------------------------------------------
(* tick and dispatch: claim rows and start one goroutine per shard.        *)

(* shardBy: contiguous slices of equal size, the last one shorter; the     *)
(* slice of slot w, empty for the slots that get no rows.                  *)
shardBy(q, w) ==
    LET workers == IF Workers > Len(q) THEN Len(q) ELSE Workers
        size    == (Len(q) + workers - 1) \div workers
        start   == (w - 1) * size
    IN  SubSeq(q, start + 1, IF start + size < Len(q) THEN start + size ELSE Len(q))

(* A tick that finds nothing to claim changes nothing and is left out.     *)
Claim(r) ==
    /\ relay[r].pc = "idle"
    /\ ~relay[r].stopping
    /\ ~relay[r].paused
    /\ Claimable # {}
    /\ \E n \in 1 .. Batch : \E q \in [1 .. n -> Ids] :
          /\ IsClaim(q)
          /\ lock' = [id \in Ids |-> IF id \in Range(q) THEN r ELSE lock[id]]
          /\ relay' = [relay EXCEPT ![r] =
                          [relay[r] EXCEPT !.pc = "dispatch", !.tx = "open", !.claimed = q,
                                           !.snap = [id \in Ids |-> outbox[id].attempts]]]
          /\ shard' = [shard EXCEPT ![r] = [w \in Slots |-> NewShard(shardBy(q, w))]]
    /\ UNCHANGED <<outbox, marker, accepted, charged, faults>>

-----------------------------------------------------------------------------
(* processShard, one goroutine: shard[r][w].                               *)

(* A shard whose context is already done is skipped.                       *)
ShardStart(r, w) ==
    /\ shard[r][w].pc = "start"
    /\ shard' = [shard EXCEPT ![r][w] =
                    [shard[r][w] EXCEPT !.pc = IF relay[r].cause = "live" THEN "check" ELSE "done"]]
    /\ UNCHANGED <<outbox, lock, marker, accepted, charged, faults, relay>>

(* The answer of the dedup.  For a marked row it is FALSE when Redis fails *)
(* and when the context it is given is done.                               *)
WasSent(r, id, answer) ==
    \/ answer = (id \in marker) /\ UNCHANGED faults
    \/ ~answer /\ id \in marker /\ relay[r].cause # "live" /\ UNCHANGED faults
    \/ ~answer /\ id \in marker /\ Fault("redis")

(* The dedup check of one row: it is settled as sent or goes to SendBatch. *)
CheckRow(r, w) ==
    LET s    == shard[r][w]
        id   == Head(s.todo)
        rest == Tail(s.todo)
        \* the loop goes on, or SendBatch is next, or there is nothing to send
        Then(pending) == IF rest # <<>> THEN "check" ELSE IF pending # <<>> THEN "send" ELSE "done"
        Hit  == shard' = [shard EXCEPT ![r][w] =
                    [s EXCEPT !.pc = Then(s.pending), !.todo = rest, !.sent = @ \cup {id}]]
        Miss == shard' = [shard EXCEPT ![r][w] =
                    [s EXCEPT !.pc = Then(Append(s.pending, id)), !.todo = rest,
                              !.pending = Append(@, id)]]
    IN  /\ s.pc = "check"
        /\ \/ WasSent(r, id, TRUE) /\ Hit
           \/ WasSent(r, id, FALSE) /\ Miss
        /\ UNCHANGED <<outbox, lock, marker, accepted, charged, relay>>

(* SendBatch hands the batch to the provider, unless the context is done;  *)
(* the provider accepts the messages A and rejects the others.             *)
Provider(r, w, A) ==
    LET s == shard[r][w]
    IN  /\ s.pc = "send"
        /\ relay[r].cause = "live"
        /\ A \subseteq Range(s.pending)
        /\ accepted' = [id \in Ids |-> IF id \in A THEN accepted[id] + 1 ELSE accepted[id]]
        /\ shard' = [shard EXCEPT ![r][w] = [s EXCEPT !.pc = "answer", !.ok = A]]
        /\ UNCHANGED <<outbox, lock, marker, charged, faults, relay>>

(* Mutant: an answer that comes after the context ended is not recorded.   *)
SendAnsweredWhileLive(r, w) ==
    LET s == shard[r][w]
    IN  /\ s.pc = "answer"
        /\ shard' = [shard EXCEPT ![r][w] =
                        IF relay[r].cause = "live" THEN [s EXCEPT !.pc = "mark", !.todo = s.pending]
                        ELSE [s EXCEPT !.pc = "done"]]
        /\ UNCHANGED <<outbox, lock, marker, accepted, charged, faults, relay>>

(* SendBatch returns a verdict per message, even to a context that ended.  *)
SendAnswered(r, w) ==
    LET s == shard[r][w]
    IN  /\ s.pc = "answer"
        /\ shard' = [shard EXCEPT ![r][w] = [s EXCEPT !.pc = "mark", !.todo = s.pending]]
        /\ UNCHANGED <<outbox, lock, marker, accepted, charged, faults, relay>>

(* Mutant: a failed send is charged to every message of the batch.         *)
SendFailedRetries(r, w) ==
    LET s == shard[r][w]
    IN  /\ s.pc \in {"send", "answer"}
        /\ Fault("provider")
        /\ shard' = [shard EXCEPT ![r][w] =
                        [s EXCEPT !.pc = "done", !.paused = TRUE, !.retry = Range(s.pending)]]
        /\ relay' = [relay EXCEPT ![r] = [relay[r] EXCEPT !.cause = Ended(r, "paused")]]
        /\ UNCHANGED <<outbox, lock, marker, accepted, charged>>

(* SendBatch returns an error, or a result per message is missing: the     *)
(* batch is left as it was, the siblings are cancelled, the relay pauses.  *)
SendFailed(r, w) ==
    /\ shard[r][w].pc \in {"send", "answer"}
    /\ Fault("provider")
    /\ shard' = [shard EXCEPT ![r][w] = [shard[r][w] EXCEPT !.pc = "done", !.paused = TRUE]]
    /\ relay' = [relay EXCEPT ![r] = [relay[r] EXCEPT !.cause = Ended(r, "paused")]]
    /\ UNCHANGED <<outbox, lock, marker, accepted, charged>>

(* Mutant: a send that shutdown does not interrupt.                        *)
SendAbortedNotByShutdown(r, w) ==
    LET s == shard[r][w]
    IN  /\ s.pc \in {"send", "answer"}
        /\ relay[r].cause \notin {"live", "shutdown"}
        /\ IF s.pc = "answer" /\ s.ok # {} THEN Fault("late") ELSE UNCHANGED faults
        /\ shard' = [shard EXCEPT ![r][w] = [s EXCEPT !.pc = "done", !.paused = TRUE]]
        /\ UNCHANGED <<outbox, lock, marker, accepted, charged, relay>>

(* SendBatch returns because its context ended.  Only a shutdown leaves    *)
(* the relay unpaused.  A provider that had accepted something by then is  *)
(* a fault, "late": its answer is lost.                                    *)
SendAborted(r, w) ==
    LET s == shard[r][w]
    IN  /\ s.pc \in {"send", "answer"}
        /\ relay[r].cause # "live"
        /\ IF s.pc = "answer" /\ s.ok # {} THEN Fault("late") ELSE UNCHANGED faults
        /\ shard' = [shard EXCEPT ![r][w] =
                        [s EXCEPT !.pc = "done", !.paused = relay[r].cause # "shutdown"]]
        /\ UNCHANGED <<outbox, lock, marker, accepted, charged, relay>>

(* What the rejection or the loss of the messages S charges them with.     *)
Charge(S) == charged' = [id \in Ids |-> IF id \in S THEN charged[id] + 1 ELSE charged[id]]

(* The delivery is remembered, unless Redis fails, which is only logged.   *)
MarkSent(id) ==
    \/ marker' = marker \cup {id} /\ UNCHANGED faults
    \/ UNCHANGED marker /\ Fault("redis")

(* The verdict on one message: a rejected one is retried later, an         *)
(* accepted one is marked and counted.                                     *)
MarkRow(r, w) ==
    LET s  == shard[r][w]
        id == Head(s.todo)
        t  == [s EXCEPT !.todo = Tail(@), !.pc = IF Tail(s.todo) = <<>> THEN "done" ELSE "mark"]
    IN  /\ s.pc = "mark"
        /\ \/ /\ id \notin s.ok
              /\ shard' = [shard EXCEPT ![r][w] = [t EXCEPT !.retry = @ \cup {id}]]
              /\ Charge({id})
              /\ UNCHANGED <<marker, faults>>
           \/ /\ id \in s.ok
              /\ MarkSent(id)
              /\ shard' = [shard EXCEPT ![r][w] =
                              [t EXCEPT !.delivered = @ + 1, !.sent = @ \cup {id}]]
              /\ UNCHANGED charged
        /\ UNCHANGED <<outbox, lock, accepted, relay>>

(* A panic in the goroutine: whatever is not counted as delivered is       *)
(* retried, the siblings are cancelled, and the relay is not paused.       *)
Undelivered(s) == Range(SubSeq(s.pending, s.delivered + 1, Len(s.pending)))

ShardPanics(r, w) ==
    LET s == shard[r][w]
    IN  /\ s.pc \in {"check", "send", "answer", "mark"}
        /\ Fault("panic")
        /\ shard' = [shard EXCEPT ![r][w] =
                        [s EXCEPT !.pc = "done", !.retry = @ \cup Undelivered(s)]]
        /\ Charge(Undelivered(s))
        /\ relay' = [relay EXCEPT ![r] = [relay[r] EXCEPT !.cause = Ended(r, "paused")]]
        /\ UNCHANGED <<outbox, lock, marker, accepted>>

-----------------------------------------------------------------------------
(* collect and the end of the tick.                                        *)

AllDone(r) == \A w \in Slots : shard[r][w].pc \in {"idle", "done"}

(* Mutant: everything handed to SendBatch counts as sent.                  *)
SentIsPending(r) == UNION {shard[r][w].sent \cup Range(shard[r][w].pending) : w \in Slots}

Sent(r) == UNION {shard[r][w].sent : w \in Slots}
Retried(r) == UNION {shard[r][w].retry : w \in Slots}

(* Mutant: one attempt too many.                                           *)
ExhaustedTooLate(r) == {id \in Retried(r) : relay[r].snap[id] + 1 > MaxAttempts}

(* collect: the attempts counted are those read by Claim.                  *)
Exhausted(r) == {id \in Retried(r) : relay[r].snap[id] + 1 >= MaxAttempts}

(* The tick is over: the relay pauses, or keeps its pause, and is idle.    *)
TickOver(r, pause) ==
    /\ lock' = Released(r)
    /\ relay' = [relay EXCEPT ![r] =
                    [FreshRelay EXCEPT !.stopping = relay[r].stopping, !.paused = pause]]
    /\ shard' = [shard EXCEPT ![r] = NoShards]

(* Mutant: the settlement runs outside the transaction of the claim.       *)
SettleOutsideTx(r) ==
    /\ relay[r].pc = "dispatch"
    /\ AllDone(r)
    /\ outbox' = MarkFailed(Reschedule(Delete(outbox, Sent(r)), Retried(r) \ Exhausted(r)),
                            Exhausted(r))
    /\ TickOver(r, \E w \in Slots : shard[r][w].paused)
    /\ UNCHANGED <<marker, accepted, charged, faults>>

Settle(r) ==
    /\ relay[r].pc = "dispatch"
    /\ relay[r].tx = "open"
    /\ AllDone(r)
    /\ outbox' = MarkFailed(Reschedule(Delete(outbox, Sent(r)), Retried(r) \ Exhausted(r)),
                            Exhausted(r))
    /\ TickOver(r, \E w \in Slots : shard[r][w].paused)
    /\ UNCHANGED <<marker, accepted, charged, faults>>

(* A statement or the commit fails: nothing of the tick is stored, and the *)
(* pause the shards asked for is taken all the same.                       *)
TickFails(r) ==
    /\ relay[r].pc = "dispatch"
    /\ relay[r].tx = "lost"
    /\ AllDone(r)
    /\ TickOver(r, \E w \in Slots : shard[r][w].paused)
    /\ UNCHANGED <<outbox, marker, accepted, charged, faults>>

(* A panic in the tick itself, before or after the shards ran.             *)
TickPanics(r) ==
    /\ relay[r].pc = "dispatch"
    /\ AllDone(r)
    /\ Fault("panic")
    /\ TickOver(r, TRUE)
    /\ UNCHANGED <<outbox, marker, accepted, charged>>

-----------------------------------------------------------------------------
(* Shutdown, clocks and failures.                                          *)

(* The worker context is cancelled.                                        *)
Stop(r) ==
    /\ "stop" \in Disturbances
    /\ ~relay[r].stopping
    /\ relay' = [relay EXCEPT ![r] =
                    [relay[r] EXCEPT !.stopping = TRUE,
                                     !.cause = Ended(r, "shutdown")]]
    /\ UNCHANGED <<outbox, lock, marker, accepted, charged, faults, shard>>

(* Run returns and closes done, which is what Drain waits for.             *)
Exit(r) ==
    /\ relay[r].pc = "idle"
    /\ relay[r].stopping
    /\ relay' = [relay EXCEPT ![r] = [relay[r] EXCEPT !.pc = "stopped"]]
    /\ UNCHANGED <<outbox, lock, marker, accepted, charged, faults, shard>>

BudgetExpires(r) ==
    /\ "budget" \in Disturbances
    /\ relay[r].pc = "dispatch"
    /\ relay[r].cause = "live"
    /\ relay' = [relay EXCEPT ![r] = [relay[r] EXCEPT !.cause = "budget"]]
    /\ UNCHANGED <<outbox, lock, marker, accepted, charged, faults, shard>>

PauseOver(r) ==
    /\ relay[r].paused
    /\ relay' = [relay EXCEPT ![r] = [relay[r] EXCEPT !.paused = FALSE]]
    /\ UNCHANGED <<outbox, lock, marker, accepted, charged, faults, shard>>

RetryDue(id) ==
    /\ outbox[id].status = "pending"
    /\ ~outbox[id].due
    /\ outbox' = [outbox EXCEPT ![id].due = TRUE]
    /\ UNCHANGED <<lock, marker, accepted, charged, faults, relay, shard>>

(* MySQL rolls the transaction back, or the settle window closes, while    *)
(* the shards still run: other relays may claim the rows.                  *)
LoseTx(r) ==
    /\ relay[r].tx = "open"
    /\ Fault("mysql")
    /\ lock' = Released(r)
    /\ relay' = [relay EXCEPT ![r] = [relay[r] EXCEPT !.tx = "lost"]]
    /\ UNCHANGED <<outbox, marker, accepted, charged, shard>>

(* The process dies and is started again.                                  *)
Crash(r) ==
    /\ relay[r].pc = "dispatch"
    /\ Fault("crash")
    /\ lock' = Released(r)
    /\ relay' = [relay EXCEPT ![r] = FreshRelay]
    /\ shard' = [shard EXCEPT ![r] = NoShards]
    /\ UNCHANGED <<outbox, marker, accepted, charged>>

(* The marker's TTL passes, or Redis evicts it.                            *)
MarkerExpires(id) ==
    /\ id \in marker
    /\ Fault("expiry")
    /\ marker' = marker \ {id}
    /\ UNCHANGED <<outbox, lock, accepted, charged, relay, shard>>

-----------------------------------------------------------------------------
ShardStep(r, w) ==
    \/ ShardStart(r, w) \/ CheckRow(r, w)
    \/ (\E A \in SUBSET Range(shard[r][w].pending) : Provider(r, w, A))
    \/ SendAnswered(r, w) \/ SendFailed(r, w) \/ SendAborted(r, w)
    \/ MarkRow(r, w) \/ ShardPanics(r, w)

RelayStep(r) ==
    \/ Claim(r) \/ Settle(r) \/ TickFails(r) \/ TickPanics(r)
    \/ Stop(r) \/ Exit(r) \/ BudgetExpires(r) \/ PauseOver(r) \/ LoseTx(r) \/ Crash(r)

RowStep(id) == Enqueue(id) \/ RetryDue(id) \/ MarkerExpires(id)

Next ==
    \/ \E r \in Relays, w \in Slots : ShardStep(r, w)
    \/ \E r \in Relays : RelayStep(r)
    \/ \E id \in Ids : RowStep(id)

Spec == Init /\ [][Next]_vars

(* Fairness.  The runtime schedules every goroutine and the ticker fires;  *)
(* the send context has a deadline, so SendBatch returns; clocks advance.  *)
(* Nothing is assumed of faults, shutdown or invitations.                  *)
ShardProgress(r, w) ==
    \/ ShardStart(r, w) \/ CheckRow(r, w)
    \/ (\E A \in SUBSET Range(shard[r][w].pending) : Provider(r, w, A))
    \/ SendAnswered(r, w) \/ SendAborted(r, w) \/ MarkRow(r, w)

RelayProgress(r) == Claim(r) \/ Settle(r) \/ TickFails(r) \/ Exit(r)

Fairness ==
    /\ \A r \in Relays : /\ WF_vars(RelayProgress(r)) /\ WF_vars(PauseOver(r))
                         /\ \A w \in Slots : WF_vars(ShardProgress(r, w))
    /\ \A id \in Ids : WF_vars(RetryDue(id))

FairSpec == Spec /\ Fairness

-----------------------------------------------------------------------------
(* Properties.                                                             *)

(* No email is lost: a row leaves the table only after the provider has    *)
(* accepted its message, whatever panics, rollbacks, stale markers and     *)
(* cancelled shards came before (tick: Delete(ctx, s.sent)).               *)
DeletedWasDelivered ==
    \A id \in Ids : outbox[id].status = "deleted" => accepted[id] >= 1

(* The dead-letter threshold is exact under concurrent relays: a row fails *)
(* at MaxAttempts attempts and no pending row has used them up, although   *)
(* collect decides on the attempts read by Claim and MarkFailed adds one   *)
(* to the attempts stored.                                                 *)
DeadLetterAtMaxAttempts ==
    \A id \in Ids : /\ outbox[id].status = "failed" => outbox[id].attempts = MaxAttempts
                    /\ outbox[id].status = "pending" => outbox[id].attempts < MaxAttempts

(* Outages spend no attempts: a row's attempts never exceed the times its  *)
(* message was rejected or was in the hands of a shard that panicked.      *)
(* Send errors, cancelled shards, rollbacks and restarts cost nothing.     *)
AttemptsAreCharged ==
    \A id \in Ids : outbox[id].attempts <= charged[id]

(* Every delivery after the first is paid for by a fault of its own:       *)
(* shutdown, the tick budget, retries and concurrent relays alone never    *)
(* send a message twice.                                                   *)
DuplicatesPaidByFaults ==
    \A id \in Ids : accepted[id] <= 1 + faults

(* Without faults the tick settles what it sent: once no transaction holds *)
(* a row, its message was accepted exactly when the row is deleted, also   *)
(* after siblings were cancelled by shutdown or by the tick budget.        *)
CleanTicksSettle ==
    faults = 0 => \A id \in Ids : lock[id] = NoRelay =>
        accepted[id] = IF outbox[id].status = "deleted" THEN 1 ELSE 0

(* What README.md says of the Redis marker: a crash between send and       *)
(* commit does not send a message again (processShard marks after SendBatch*)
(* has returned).                                                          *)
CrashNeverResends ==
    \A id \in Ids : accepted[id] <= 1

(* A failed row and a deleted row are final: a relay that lost its         *)
(* transaction, and settles after another relay has, changes nothing.      *)
ResolvedRowsAreFinal ==
    [][\A id \in Ids : outbox[id].status \in {"failed", "deleted"} =>
          outbox'[id] = outbox[id]]_vars

(* Every message is delivered or dead-lettered, unless every relay stops   *)
(* or the tick budget expires for ever, which charges nobody's attempts.   *)
EveryMessageResolves ==
    \/ []<>(\E r \in Relays : relay[r].cause = "budget")
    \/ \A id \in Ids : outbox[id].status = "pending" ~>
           \/ outbox[id].status \in {"deleted", "failed"}
           \/ \A r \in Relays : relay[r].pc = "stopped"

(* Drain returns: a relay told to stop ends its tick and its loop.         *)
DrainCompletes ==
    \A r \in Relays : relay[r].stopping ~> (relay[r].pc = "stopped" \/ ~relay[r].stopping)

-----------------------------------------------------------------------------
(* The inductive invariant behind the safety properties.                   *)

(* A goroutine with state s works on the rows C of its relay's claim, and  *)
(* is in a loop, or in a send, only while there is something to do.        *)
ShardOK(s, C) ==
    /\ s.pc \in {"start", "check", "mark"} => s.todo # <<>>
    /\ s.pc \in {"send", "answer"} => s.pending # <<>>
    /\ Range(s.todo) \subseteq C /\ Range(s.pending) \subseteq C
    /\ s.ok \subseteq C /\ s.sent \subseteq C /\ s.retry \subseteq C

ShardInv == \A r \in Relays, w \in Slots : ShardOK(shard[r][w], Range(relay[r].claimed))

(* While its transaction is open a relay owns the rows it claimed: they    *)
(* are still pending, with the attempts that Claim read.                   *)
TxInv ==
    \A r \in Relays : \A id \in Range(relay[r].claimed) :
        /\ outbox[id].status # "none"
        /\ relay[r].tx = "open" => /\ lock[id] = r
                                   /\ outbox[id].status = "pending"
                                   /\ outbox[id].attempts = relay[r].snap[id]

AttemptsInv ==
    /\ DeadLetterAtMaxAttempts
    /\ \A id \in Ids : outbox[id].status = "none" => outbox[id].attempts = 0

(* Whatever says "sent" says so of a message that was accepted.            *)
DeliveryInv ==
    /\ DeletedWasDelivered
    /\ \A id \in marker : accepted[id] >= 1
    /\ \A r \in Relays, w \in Slots : \A id \in shard[r][w].ok \cup shard[r][w].sent :
          accepted[id] >= 1

(* A retry that an open transaction will store has been charged for.       *)
ChargeInv ==
    /\ AttemptsAreCharged
    /\ \A r \in Relays, w \in Slots : \A id \in shard[r][w].retry :
          relay[r].tx = "open" => outbox[id].attempts < charged[id]

(* The rows in a goroutine's hands; those the dedup has let pass and those *)
(* not offered to the provider yet; and those that were accepted and are   *)
(* on their way to being settled as sent.                                  *)
Work(s) == Range(s.todo) \cup Range(s.pending) \cup s.ok \cup s.sent \cup s.retry

Checked(s) == {id \in Range(s.pending) : s.pc \in {"start", "check", "send"}}

Unsent(s) == Checked(s) \cup {id \in Range(s.todo) : s.pc \in {"start", "check"}}

Safe(s) ==
    s.sent \cup {id \in s.ok : \/ s.pc = "answer" /\ id \in Range(s.pending)
                               \/ s.pc = "mark" /\ id \in Range(s.todo)}

(* No row is both to be sent and settled as sent.                          *)
Placed(s) ==
    /\ s.pc \in {"start", "check"} =>
          IsInjective(s.todo) /\ Range(s.todo) \cap (Range(s.pending) \cup s.sent) = {}
    /\ s.pc \in {"start", "check", "send"} => Range(s.pending) \cap s.sent = {}

(* A relay has rows only in a tick, and each with one of its goroutines.   *)
PlaceInv ==
    \A r \in Relays :
        /\ relay[r].pc # "dispatch" => relay[r].tx = "none"
        /\ relay[r].tx = "none" => Range(relay[r].claimed) = {}
        /\ \A w \in Slots : Placed(shard[r][w])
        /\ \A w, v \in Slots : w # v => Work(shard[r][w]) \cap Work(shard[r][v]) = {}

(* The message is accepted and the open transaction will delete its row.   *)
Secured(id) == \E r \in Relays, w \in Slots : relay[r].tx = "open" /\ id \in Safe(shard[r][w])

(* An open transaction will offer the message, though it may be marked.    *)
Sending(id) ==
    \E r \in Relays, w \in Slots :
        relay[r].tx = "open" /\ relay[r].cause = "live" /\ id \in Checked(shard[r][w])

(* The row as it stands leads to one more delivery.                        *)
Deliverable(id) ==
    /\ outbox[id].status \in {"none", "pending"}
    /\ ~Secured(id)
    /\ id \notin marker \/ Sending(id)

(* The relays that lost the row with their transaction and may still send. *)
Astray(id) ==
    {r \in Relays : relay[r].tx = "lost" /\ \E w \in Slots : id \in Unsent(shard[r][w])}

(* Deliveries made and deliveries to come, without another fault, are paid *)
(* for by the faults so far.                                               *)
PaidFor(id) ==
    /\ IsFiniteSet(Astray(id))
    /\ accepted[id] + Cardinality(Astray(id)) + (IF Deliverable(id) THEN 1 ELSE 0) <= 1 + faults

DebtInv == \A id \in Ids : PaidFor(id)

(* Before the first fault a message was accepted exactly if its row is     *)
(* deleted or the transaction that holds it is going to.                   *)
CleanInv ==
    faults = 0 =>
        /\ \A r \in Relays : relay[r].tx # "lost"
        /\ \A id \in Ids :
              accepted[id] = IF outbox[id].status = "deleted" \/ Secured(id) THEN 1 ELSE 0

(* The inductive invariant: every conjunct, and with it every safety       *)
(* property above that it contains, is preserved by every step.            *)
IInv ==
    /\ TypeOK /\ ShardInv /\ TxInv /\ AttemptsInv /\ DeliveryInv /\ ChargeInv
    /\ PlaceInv /\ DebtInv /\ CleanInv

-----------------------------------------------------------------------------
(* The abstract outbox that the relays implement.                          *)
Abstract == INSTANCE Outbox WITH
    status     <- [id \in Ids |-> outbox[id].status],
    attempts   <- [id \in Ids |-> outbox[id].attempts],
    deliveries <- accepted

(* Relays, shards, locks and markers implement the abstract outbox: only   *)
(* committed messages are sent, a settlement touches pending rows only,    *)
(* deletes what was delivered and counts attempts up to MaxAttempts.       *)
ImplementsOutbox == Abstract!AbstractSpec
=============================================================================
