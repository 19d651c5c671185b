# Verification of task_tracker

TLA+ models of the parts of task_tracker whose correctness depends on the order
in which processes, goroutines, MySQL and Redis act; TLC runs that check them on
small instances; and TLAPS proofs of the main safety results for every instance.

## 1. The system

task_tracker is a Go HTTP API for teams, tasks and comments on MySQL, with Redis
for a list cache, the rate limiter and delivery markers, and a background relay
that sends invitation emails from a transactional outbox. Several instances run
against one MySQL and one Redis.

| Component (source under `internal/`) | State | Operations | Hard behaviour | Module |
|---|---|---|---|---|
| Outbox relay (`infrastructure/outbox/relay.go`) | pause deadline, the current tick: claimed rows, shard goroutines, two contexts, a transaction | `Run`, `Drain`, `tick`, `dispatch`, `processShard`, `collect`, `pause` | concurrent relays and shards, sibling cancellation, shutdown, panics, crashes, lost transactions | `OutboxRelay` |
| Outbox table (`infrastructure/persistence/outbox.go`) | rows: status, attempts, next_retry_at, last_error | `Enqueue`, `Claim` (SKIP LOCKED), `Delete`, `Reschedule`, `MarkFailed`, `truncateUTF8` | row locks, several statements in one transaction, a cut inside a rune | `OutboxRelay`, `Text` |
| Dedup marker (`infrastructure/cache/dedup.go`) | Redis keys with a TTL | `WasSent`, `MarkSent` | best effort: Redis failures, expiry, cancelled contexts | `OutboxRelay` |
| Email client (`infrastructure/email/client.go`) | circuit breaker | `SendBatch` | whose context ended, half-open under concurrent shards | `EmailClient` |
| Task list cache (`infrastructure/cache/tasks.go`) | version counter and list entries in Redis | `GetList`, `SetList`, `InvalidateTeam` | late fills, lost invalidations, a Redis that loses its data | `TaskListCache` |
| Task service and repository (`service/tasks.go`, `infrastructure/persistence/task.go`) | tasks, task_history | `Create`, `ByID`, `List`, `Update`, `History` | commit, then invalidate; FOR UPDATE against snapshot reads; the history chain | `TaskAudit`, `TaskListCache`, `Reports` |
| Comments (`service/comments.go`, `infrastructure/persistence/comment.go`) | task_comments | `Create`, `List`, `Update`, `Delete` | an update racing a delete, a check on a snapshot, paging while rows come and go | `Comments`, `Reports` |
| Teams (`service/teams.go`, `infrastructure/persistence/team.go`) | teams, team_members | `Create`, `List`, `Invite` | membership and invitation in one transaction, checks before it | `Teams` |
| Users and auth (`service/auth.go`, `identity/provider.go`, `infrastructure/persistence/user.go`) | users; signed tokens | `Register`, `Login`, `GrantAdmin`, `Issue`, `Parse` | expiry in whole seconds; promotion in two statements | `Teams`, `Admission` |
| Authorizer (`service/authorizer.go`) | none | `RequireAdmin`, `RequireTeamRole` | checked before the transaction it guards | with each caller |
| Analytics (`infrastructure/persistence/analytics.go`) | none | `TeamStats`, `TopCreators`, `OrphanAssignees` | a cursor over teams on a page of rows | `Reports` |
| Rate limiter and middleware (`infrastructure/ratelimit`, `transport/http/middleware`) | one entry per key in Redis | `Allow`, `Auth`, `RateLimit`, `RateLimitByIP` | fails open, rounds its Retry-After | `Admission` |
| Lifecycle (`infrastructure/lifecycle`), health, wiring (`app.go`, `config.go`) | drain and close lists; readiness; deadlines | `NewApp`, `Run`, `ShutDown`, `Start`, `Validate`, readiness | stuck or panicking closers, a signal at any moment, a tick that outlives its drain | `Lifecycle` |
| Commands, logging, metrics, generated docs | none | | | see section 6 |

They interact so: HTTP handlers call services; services open transactions and
call repositories; `Teams.Invite` enqueues a message in the transaction that adds
the member; the relay of every instance polls the table and sends through the
email client; `Tasks.Create` and `Tasks.Update` bump the cache version after
their commit; shutdown cancels the worker context and waits in `Drain`.

What makes each part correct:

- relay and table: no email is lost; a message is dead-lettered after exactly
  `MaxAttempts` attempts of its own; outages cost no attempts; duplicates happen
  only through faults; a row's fate is decided once; every message is eventually
  resolved; shutdown ends and records what already left;
- email client: only the provider's own failures open the breaker; it closes
  again; what is stored of an error is valid text that fits its column;
- list cache: a reader never misses a write that was invalidated before its
  request; a lost invalidation heals when the entries expire;
- task audit: an unbroken chain of old and new values per field, completed_at
  set exactly while a task is done, a response that shows the update;
- comments: only the author or an admin changes one; what was acknowledged
  holds;
- teams: a membership exists exactly if its invitation was committed; roles are
  only gained; whoever appears was invited by someone entitled to;
- admission: the rate is bounded, a refusal is earned and its Retry-After can be
  relied on, a token serves for its TTL;
- reports: a walk through the pages shows each row once;
- lifecycle: shutdown ends within its deadlines, every closer runs, the release
  has its full phase, and no settlement is cut off by the release of MySQL.

## 2. Modules

| Module | What it is |
|---|---|
| `OutboxRelay` | relays, shards, the table with its locks, markers, provider; properties and inductive invariant |
| `Outbox` | the abstract specification: commit, deliver, resolve |
| `OutboxRelayProofs` | proofs about `OutboxRelay`, including that it implements `Outbox` |
| `EmailClient`, `Text`, `EmailClientProofs` | `SendBatch` behind the circuit breaker, one tick's shards as its callers; `truncateUTF8`; proofs |
| `TaskListCache`, `TaskListCacheProofs` | writers, readers, the version counter and the entries; proofs |
| `TaskAudit` | concurrent updates of one task on InnoDB, its history rows |
| `AuditedTask` | the abstract specification of updates: each is atomic, with its audit rows |
| `TaskAuditProofs` | proofs about `TaskAudit`, including that it implements `AuditedTask` |
| `Comments`, `CommentsProofs` | the comments of one task and concurrent requests that write them; proofs |
| `Teams`, `TeamsProofs` | accounts, teams, invitations; the outbox behind them is an instance of `Outbox`; proofs |
| `Admission` | tokens, the rate limiter and the middleware in front of every handler |
| `Reports` | the task list, the comments of a task and the three reports, read page by page |
| `ApiProofs` | proofs about `Admission` and `Reports` |
| `Lifecycle`, `LifecycleProofs` | one process from `main` to its exit; proofs |
| `MC...` | constants and symmetry for TLC; `MCApi` puts `Admission` and `Reports` side by side, `MCTasks` does so with `TaskAudit` and `Comments` |

Mutants used to test the properties are definitions just before the one they
vary; no specification refers to them.

### OutboxRelay

`outbox` is the table, extended by the statuses "none" (not committed yet) and
"deleted", so that a row's history can be spoken of. `due` says that
`next_retry_at` has passed. `lock` holds InnoDB's row locks, `marker` the ids with
a Redis marker. `relay[r]` holds one process: whether it is in a tick, whether its
transaction is open or lost, why the context of its shards ended (`cause`, Go's
`context.Cause`), pause, shutdown, and the rows claimed with the attempts `Claim`
read. `shard[r][w]` holds one goroutine of the tick: its program counter, the loop
it is in, and `processShard`'s `pending` and `shardOutcome`. `accepted` and
`charged` are history: what the provider accepted, and what was rejected or was in
a panicking shard's hands.

One tick is the sequence `Claim`, then for each shard `ShardStart`, `CheckRow` per
row, `Provider`, one of `SendAnswered`/`SendFailed`/`SendAborted`, `MarkRow` per
row, and finally `Settle` (the three statements and the commit, one atomic change
of the table because they share a transaction), or `TickFails`, or `TickPanics`.
Steps of different shards and relays interleave freely. `Provider` and the
return of `SendBatch` are two steps, because a crash, a cancellation or a lost
transaction may come between them. `ShardPanics` may strike anywhere in
`processShard` after its first check.

The environment: `LoseTx` (MySQL rolls back, or the settle window closes, while
shards run on), `Crash`, `MarkerExpires`, failing Redis calls, provider errors and
mismatched results, a provider that accepts a batch whose answer is lost to a
cancelled context ("late"), panics. Each is a fault that the constant
`Disturbances` admits and `faults` counts, up to `MaxFaults`. `Stop` (shutdown)
and `BudgetExpires` are normal operation and are not counted.

What is abstracted: message contents, durations (a pause and a backoff end when
their clock action happens), the breaker behind `SendBatch`, metrics, logs. A
commit whose acknowledgement is lost has the effect of `Settle`. A tick that
claims nothing, or whose claim fails, changes nothing and is left out.
`SendBatch` of this repository returns no per-message errors yet; the relay
handles them, and the model's provider produces them.

### TaskListCache

One team and one filter: both are part of every key. A list is the set of writes
it shows. `version` is `tasks:ver:<team>` (0 while the key is absent), `entries`
the list keys, each with the version in its key. A write is `Commit`, then
`InvalidateTeam` or `InvalidateFails` (Redis error, or the process dies in
between, or the acknowledgement of the commit is lost and the service returns
before it invalidates). The client repeats a command whose reply was lost
(`NewRedis`, `max_retries`): `IncrRetried` is an Incr that is counted and tried
again, and `InvalidateFails` may be one that was counted and reported as failed. The
constant `Flaky` names the writes this may happen to. A read is `GetVersion`, then `GetHit` or `GetMiss`, `Query` or
`QueryFails`, `SetList`. `Expire` is the TTL or an eviction, `Flush` a Redis that
restarts without its data, once in a behaviour. `stamp` and a reader's `floor`
are history: the version a write produced (the last, if its Incr was retried),
and the writes invalidated before the reader's request, of which those that the
answer does not show are kept when it has been given.

### TaskAudit

One task, as tasks are independent. `task` is the committed row, `hist` the
committed rows of `task_history` per field, `rowLock` the row lock, `put[q]` a PUT:
`Load` is `ByID` with the role and assignee checks, all in the snapshot that the
transaction's first read takes; `LockTask` is the FOR UPDATE read, which waits
for the lock and sees what is committed; `Store` is the UPDATE; `CommitUpdate` is the
history rows, the read back and the commit, one step because nobody else can see
or change the row in between; `Rollback` is any failure. A commit whose
acknowledgement is lost has the effect of `CommitUpdate`; its answer is an error and
shows no values (`shown` is then what it would have been). The service runs its
transactions at MySQL's default isolation, REPEATABLE READ. InnoDB (external) is
modelled by two rules: a plain SELECT reads the transaction's own version of the
row if it wrote one and the snapshot otherwise; an UPDATE that changes no column
writes no version. `AuditInit` is the state after some `Create` request, whose
"created" event row is left out of `hist`. Refused requests change nothing and
are left out. Members only grow: the repository has no operation that removes
one. Completion times are values of `clock`, 0 for NULL.

`AuditedTask` is what `Update` promises its callers: a row, a log per field, a team, and
one action, `Apply`, that sets the values, appends the moves to the log, keeps or sets
the completion time and checks the assignee, all in the state of that moment. There are
no snapshots, locks or rollbacks in it. Under the mapping (`row` is `task`, `log` is
`hist`, and the requests that are done have been applied)
`CommitUpdate` is `Apply`, `AddMember` is `Join`, and every other step stutters.

### EmailClient and Text

One tick after the other, each with some of `Shards`. `call[s]` is a shard's
`SendBatch`: `Admit` or `Reject` is the breaker's answer, `Answers`,
`ProviderFails`, `Aborts` and `Panics` the end of the send, `Returns` what the
breaker is told and what `SendBatch` returns, `Cancel` the `cancel(errPaused)` of
`processShard`, through which one shard ends the context of the others. `Classify`
is the rule this client adds: an error is `errCallerGone`, which `IsExcluded`
keeps from counting, exactly if the caller's own context has ended. The relay then
pauses for the hint (`OpenFor`) or for the default. The breaker is gobreaker,
external, by its documented states and generations; whether an excluded probe gives
its half-open slot back cannot be seen from this repository and is left open
(`Excluded`). The provider is well, down or hung, and changes `MaxChanges` times.
`deliver`, the send installed today, is a mock that always succeeds; the client is
written and tested for one that may fail, hang or panic, and so is the model.

`Text` models `truncateUTF8` on sequences of bytes, each byte being what a decoder
tells apart. `ToValidUTF8`, of the library, keeps the bytes of whole runes, in their
order: byte j of the result is the kept byte whose `Rank` among the kept ones is j.
`LongestPrefix` is the reference `truncateUTF8` is compared with. A tick that saw a
panic stores a text through it.

### Comments

One task. `Check` is the SELECTs at the head of the transaction, which read one
snapshot; `Insert`, `Update` and `Delete` are the statement, on the latest committed
row and under its lock; `Commit` ends the transaction with the handler's answer,
`Abort` rolls it back and answers 500, and `CommitLost` answers 500 although the
transaction has committed, its acknowledgement having been lost. InnoDB is modelled by the same two rules as in `TaskAudit`. Users
may join the team or become admins at any moment (`Promote`); nothing takes either
away in this code. The list of comments is one of the reads of `Reports`.

`Comments` and `TaskAudit` share no variable, so `MCTasks` checks them in one run in
which each moves while the other is in an initial state.

### Teams

`Register`, `Create`, `Invite` and the command grant-admin, one statement per step:
`Authorize` and `Lookup` run before the transaction, `AddMember` waits for a
transaction that has inserted the same key, `Enqueue` writes the message in the same
transaction, `Commit` makes both visible; `CommitLost` does so, too, and is answered
with an error, as the acknowledgement was lost. What happens to the committed message is
`Box == INSTANCE Outbox`: `Commit` takes `Box!Commit` and `Relay` takes `Box!Deliver`
and `Box!Resolve`, which `OutboxRelay` is proved to implement. So a service is
composed with the promise of the relay and not with its details.

### Admission and Reports

`Admission`: time in units, `Second` of which are a second, because two conversions
matter: `Issue` cuts a token's expiry to whole seconds, and `rejectOrServe` cuts the
wait to seconds and adds one. The limiter is redis_rate, external: GCRA on one time
per key (`tat`). Redis may fail, and the limiter then lets requests through; it may
come back with its entries or empty, as `docker-compose.yaml` gives it no volume. A
reply may be lost after the script ran (`ReplyLost`): the client's retry is one more
step of `Serve`, `Login` or their refusals, so a request may be counted twice, or be
counted and then let through by a limiter that fails open. An empty Redis forgets what
it counted, and so does the history `served`: the rate is bounded between two losses.
`watched` is any one client, whose last requests and last Retry-After are kept as
history.

`Reports`: the queries as functions of the tables, `Page` and `NextCursor` shared as
in the code, the access checks, and a client that reads one list (tasks, comments or a
report) to its end while the tables change. The two modules share no variable, and each property is about one
of them, so `MCApi` lets each move while the other is at rest.

### Lifecycle

`main` is where the main goroutine is; `closer[c]` is a registered function of the
`Closer`: spawned by its phase, running, its outcome handed to the channel,
collected. Deadlines are kept as what is left of them: `Tock` takes one unit from
each, and cannot pass a step that a runnable goroutine is about to take (`Urgent`).
The relay appears as waiting, entering a tick, in a tick with its settle window,
done. Closers may hang or panic; pings, listening and DSNs may fail; a signal may
come at any moment after `main` has installed its handler. `Configs` holds
configurations on both sides of each limit that `Validate` draws.

## 3. Runs

| Run | Instance | Checks |
|---|---|---|
| `relay_crash` | 2 relays, 2 messages, batch 2, 1 worker, MaxAttempts 2, 2 faults of MySQL, crash, Redis, expiry, panic, provider | `IInv`, `DuplicatesPaidByFaults`, `ResolvedRowsAreFinal`, `ImplementsOutbox` (the refinement) |
| `relay_shards` | 1 relay, 2 messages in 2 shards, 2 faults of provider, panic, late answer, MySQL; budget, stop | `DeletedWasDelivered`, `DeadLetterAtMaxAttempts`, `AttemptsAreCharged`, `CleanTicksSettle`, `EveryMessageResolves`, `DrainCompletes` |
| `relay_resend` | 2 relays, 1 crash | violated: see Findings |
| `email` | 2 shards, MaxFailures 2, 3 changes of the provider, all texts of up to 5 bytes with room for 3 | `TripsAreTheProviders`, `StoredErrorFits`, `Recovers` |
| `email_recovery` | 2 shards, 2 changes of the provider | violated: see Findings |
| `cache` | 2 writes, one with an Incr that may lose a reply, 2 readers, 1 restart of Redis | `Fresh`, `EntriesComplete`, `StaleUntilItExpires` |
| `tasks` | 3 updates, 2 users, 4 inputs, rollbacks, invitations; 2 requests on comments at a time, 3 calls, 2 ids | `HistoryChain`, `CompletedIffDone`, `AssigneeIsMember`, `ChangesAreShown`, `CompletedAtKept`, `ImplementsAuditedTask` (the refinement), `LocksEndWithTheirRequest`, `OnlyAuthorOrAdmin`, `AcknowledgedWritesHold` |
| `audit_answer` | 2 requests | violated: see Findings |
| `comments_gone` | 2 requests on comments | violated: see Findings |
| `teams` | 3 people, 2 requests at a time, 4 calls, 1 team, 2 messages | `TypeOK`, `MembershipsAccountedFor`, `RolesOnlyGained`, `InvitedByAdmin`, `InviteAnswers` |
| `api` | 2 clients and their address, 2 requests per window of 4, TTL 3, seconds of 2, times to 5, 1 outage or lost reply; 2 readers, 3 teams, pages of 2, 2 changes | `RateBound`, `HonestRefusal`, `TokenLifetime`, `WalkComplete` |
| `lifecycle` | 4 configurations around `Validate`'s limits, 1 request in flight | `ReadyOnlyWhileServing`, `SettledBeforeRelease`, `NothingForgotten`, `ReleaseHasAFullPhase`, `NoIdleWait`, `ShutdownEnds` |

What each passing run shows:

- `relay_crash`: a lost claim may be taken over by the other relay while shards of
  the first still send. Rows still have one fate, and every duplicate has a fault
  that paid for it.
- `relay_shards`: a shard that fails, panics or answers late cancels its sibling;
  no outcome is lost, none is charged twice, and a stopped relay drains.
- `email`: cancelled siblings and ticks that ran out of budget never open the
  breaker; panics do, as gobreaker counts them; every text that is stored is
  valid and fits.
- `cache`: late fills go to versions nobody reads any more, also when versions are
  skipped by a repeated Incr. Lists that an invalidation failed to reach are stale until
  their TTL, no longer.
- `tasks`: history rows fit together although each request decided what to
  write after waiting for a lock with an old snapshot in hand; seen from outside, each
  update happens at its commit or not at all. For comments, check and write do not read
  the same state either, yet no comment is changed by anyone else than its author or an
  admin, a deletion stays, and a success or a refusal is the truth, but for the edit of a
  comment that was deleted meanwhile (`comments_gone`). A 500 only says that all of the
  request was done or nothing, as the commit may have taken effect.
- `teams`: two invitations of one user, or an invitation and a rollback, leave
  exactly one email per membership, and an answer other than an error is the truth about
  it; the role checked before the transaction is
  still held when the membership appears, because nothing takes roles away.
- `api`: a window of the limiter counts at most 2 * Requests - 1 requests of a client as
  long as Redis keeps its entry, a client is refused only when it was itself counted often
  enough, and one that waited as told is not refused before it is counted again; walks are complete, also for the
  report whose page is counted in teams and filled with up to three rows of each.
- `lifecycle`: with every configuration `Validate` accepts, the drain outlasts any
  tick that was under way, whatever hangs; with a looser `Validate` it does not.

Why these bounds are enough to meet the interesting cases: two relays are needed
for a claim to be lost and taken over, two shards for sibling cancellation, two
attempts for a row to be both rescheduled and dead-lettered, two faults for a lost
transaction to be followed by a crash of the relay that took over. Three changes of
the provider let it fail, return and fail again while the breaker is half-open. Two
writes let a fill be overtaken by an invalidation and race another. Three requests
let one that has loaded wait while a second commits and a third overtakes it. Three
calls let a comment be created, and updated while it is deleted; three teams on pages
of two make a full and a last page; three people make a founder, an invitee and an
inviter whom grant-admin made one. Five units of time are more than a window and than a
token's life. The safety properties are all proved below without these bounds.

Deadlock is checked in `email`, `email_recovery` and `api`. Elsewhere the system may
rest: relays stop or resolve everything, a process exits, and requests, whose number
is bounded, end.

### Fairness

`FairSpec` of `OutboxRelay` assumes weak fairness of the steps a relay or a shard
takes by itself (the Go runtime schedules every goroutine, the ticker fires,
`SendBatch` runs under a context with a deadline and so returns), of the end of a
pause and of a row becoming due (clocks advance). Nothing is assumed of
invitations, shutdown, budget expiry or faults; faults are finitely many in a
behaviour, which is the assumption that outages end. `EveryMessageResolves` excepts
a relay whose ticks run out of budget for ever, which the code cannot exclude, and
one that is stopped. It is checked with one relay: relays do not wait for each
other (SKIP LOCKED), so a second one adds interleavings, not obstacles.

`FairSpec` of `TaskListCache` assumes that a request once begun goes on and that
entries expire; nobody has to send requests.

`FairSpec` of `EmailClient` assumes that shards go on, that clocks advance, and that
there are messages to send, so that ticks keep coming. Nothing is assumed of the
provider: the properties say what happens once it stays well.

`FairSpec` of `Lifecycle` assumes that the main goroutine goes on, that a goroutine
that has been started runs, that time passes, and that a ping returns (its context
has a deadline). Nothing is assumed of closers, ticks or requests: each may hang
for ever, and `ShutdownEnds` holds all the same.

### Properties that could really fail

Each property has a mutant: a plausible bug of the code under which the same run
fails. Among them: a claim without SKIP LOCKED, an answer ignored because the
shared context had ended, everything handed to `SendBatch` counted as sent, one
attempt too many, an outage charged to the messages, a settlement outside the
claim's transaction, a fill under the current instead of the remembered version, old
values read from the snapshot instead of under the lock, a history that is written over,
an error classified without
asking whose context ended, a text stored unchecked because it is short enough, a
phase that waits for all its closers, a panic that sends nothing to the channel, a
settle window not compared with the phase, locks that survive a rollback, an
invitation enqueued outside the transaction, an upsert in place
of an insert, a Retry-After rounded down, a cursor counted in rows instead of teams.

## 4. Proofs

Every safety property of the passing runs is a theorem, for arbitrary sets of relays, messages, requests, users, readers and shards, any batch,
workers, attempts, durations, rates and number of faults. The assumptions are those
named in the modules, and TLC evaluates them in every run:

- `OutboxRelay`: positive configuration values, as `Config.Validate` demands; ids are
  numbers; the null holder is no relay;
- `TaskAudit`: every request gives all four fields; the null holder is no request;
- `Comments`: the null holder is no request; the bodies include the empty one, which a
  fresh request has; ids and calls are counted in numbers;
- `Teams`: the null holder is neither a request nor an address; there is an address;
- `EmailClient`: `Validate`, and finitely many shards, as `shardBy` makes them; texts are
  any sequences of bytes;
- `Lifecycle`: the configurations are records of durations; the ones that `Validate`
  refuses are among them;
- `Admission`: `Validate`, and a window that is a multiple of the number of requests.
  The unit of time is free, so this only says that it is fine enough to express the
  limiter's interval `T`;
- `Reports`: the tables hold finitely many rows; a page has at least one.

`TaskListCache` needs none. None of the properties is inductive; each module therefore
has an invariant that is, listed with its argument.

`OutboxRelayProofs`: `InvariantHolds` is `Spec => []IInv`.

- `TxInv` is the heart: while its transaction is open a relay holds the locks of
  what it claimed, so these rows are still pending with the attempts `Claim`
  read. That is why `collect` may decide on the attempts it read earlier.
  `ShardInv` keeps shards within their relay's claim, `DeliveryInv` says that a
  marker, a verdict and `out.sent` speak only of accepted messages, `ChargeInv`
  that a retry about to be stored has been charged for. `TypeCorrect`, `NoEmailLost`,
  `DeadLetterExact` and `OutagesAreFree` follow;
- `DuplicatesPaidFor` needs an account of each message, `DebtInv`: what was accepted, plus
  the relays that have lost their transaction and may still send it (`Astray`), plus one
  if the row leads to another delivery (`Deliverable`), is at most one more than the
  faults. A delivery within an open transaction takes the last term away, as no other
  goroutine has the row: `TxInv` excludes other relays, and `PlaceInv` siblings, because
  `shardBy` cuts an ascending claim into slices without a common row (`SlicesApart`). A
  delivery without a transaction takes a relay from `Astray`. A lost transaction adds to
  `Astray` and is itself the fault that pays;
- `CleanTicks` rests on `CleanInv`: before the first fault a message was accepted exactly if
  its row is deleted or its shard holds the answer in an open transaction;
- `ResolvedFinal`: an action property from `TxInv`: `Settle` is the only step that
  writes resolved statuses, and all it writes to was pending;
- `RelayImplementsOutbox`: `Settle` is `Outbox!Resolve`, `Provider` is
  `Outbox!Deliver`, `Enqueue` is `Outbox!Commit`, everything else a stutter;
- `ShardsPartitionTheClaim`, of `shardBy` alone: whatever the size of the claim and the
  number of workers, every row is in the slice of exactly one goroutine. Row i is in slice
  (i - 1) div size, and that is one of the slots because the size is rounded up
  (`SlicesCover`).

`TaskListCacheProofs`: `CacheInvariant`, and from it `ListsAreFresh` and
`NoLateFill`. The invariant: no reader and no entry is ahead of the counter, so no
later increment reproduces a version that an in-flight fill will write to, and
what was read from MySQL after reading version v contains every write stamped up
to v. It is stated for a Redis that has not lost its data, as the argument needs
a counter that never goes back.

`TaskAuditProofs`: `AuditInvariant`, and from it `HistoryNeverDrifts`,
`CompletionExact`, `AnswersShowChanges`, `AssigneesBelong` and the action property
`CompletionStays`. The chain alone is not inductive: `LockInv` adds that the
holder of the row lock has as `old` the row that is committed, so the rows it
appends start where the history ends, whatever was committed between its
snapshot and its lock. `AssigneeInv` adds that the assignee a request checked in its
snapshot is still a member when it commits, as members only grow. The same two facts
make `CommitUpdate` a step of `AuditedTask`: what it compares, keeps and checks is, at that
moment, the state itself (`CommitApplies`), and no other step of a request can be seen
(`QuietSteps`). `UpdatesAreAtomic` is `Spec => ImplementsAuditedTask`.

`CommentsProofs`: `CommentsInvariant`, then `LocksEnd`, `WritersAreEntitled` and
`WritesHold`. `ReqOK` says what a request still knows after its wait for the lock: it is
entitled to the row that its snapshot showed, and that row is the same comment or gone;
and it commits only a row that it has locked, unless the row is gone.

`TeamsProofs`: `TeamsInvariant`, then `TeamsTyped`, `OneInvitationEach`, `RolesAreKept`,
`InvitersAreEntitled` and `AnswersAreTrue`. `KeyInv`: the index entry of a membership is
taken exactly by the request about to commit it, and the membership is not there yet;
`ReqInv`: a right, once checked, is kept until the commit; `TeamInv`: a team has its owner
or does not exist, and ids handed out differ; `MailInv`: messages and memberships by
invitation belong together one to one. `TeamsImplementOutbox`: seen from the services,
too, the table behaves as `Outbox`, the specification that the relays implement.

`ApiProofs`, about `Reports`: `ReadsInvariant` and `WalksAreComplete`. What a page shows is an
initial segment, by id, of what lies beyond the cursor, and a page that is not full shows
all of it; for the report of top creators this holds in teams, as every team with a task has
a first rank (`ReadIsAPage`). Hence the invariant: of the rows that belonged to the read all
along, the client has been shown those up to the cursor, and nothing beyond it.

`ApiProofs`, about `Admission`: `AdmissionInvariant`, then `RateIsBounded`, `RefusalsAreHonest`
and `TokensLiveTheirTTL`. `Bucket` bounds the limiter's `tat` from both sides by the requests
that were counted: each has pushed it `T` further, and it never ran more than a window
ahead. It speaks of the times at which the client was counted, not of its requests, so a
lost reply that is retried is no exception to it (`CountedKeepsLimiter` serves both), and
an empty Redis starts it anew. `Promised`: the time a client was told lies beyond its last refusal. `Issued`: a
token's expiry, cut to a second, is less than a second early.

`EmailClientProofs`: `EmailInvariant` and `TripsAreEarned`. The failures the breaker has
counted in a row, plus those that calls of its current generation are still to report, are
no more than the provider has made since the breaker closed; siblings that were cancelled
and ticks out of budget add to neither.

`EmailClientProofs`, about `Text`: `TruncateFits` is about `truncateUTF8` on any bytes, and
`StoredTextFits` (`StoredErrorFits` always) follows, as only the beginning and the end of
a tick touch what is stored. No induction over texts is needed, because `Text` says what
`ToValidUTF8` keeps and not how it goes about it: `Rank` is an injection of the kept
positions into as many numbers, hence onto them (`RankOnto`), which also shows that a
finite set has a greatest element, the one that the cut and `LongestPrefix` choose. The
bytes of a whole rune have consecutive ranks (`RuneKept`), so they are a whole rune again
in the result (`ToValidIsValid`). The cut is at the start of a rune, so of a valid text it
leaves whole runes (`CutIsValid`); a longer prefix that fits would end within one
(`CutIsLongest`).

`LifecycleProofs`: `LifeInvariant`, then `TicksSettleFirst`, `EveryCloserRuns`,
`ReadyMeansServing`, `ReleaseIsNotStarved` and `PhasesWaitForWork`. `RelayInv`: once the drain
has begun, what is left of a tick's settle window is no more than what is left of the
drain phase, which is what `Validate` compares; `CloserInv`: the total exceeds the drain by
what the release will need, and a closer that is still to be spawned has lost no time.

The invariants other than `IInv` have no run of their own: the runs check the properties
they are there for.

Only model-checked: liveness (`EveryMessageResolves`, `DrainCompletes`, `StaleUntilItExpires`,
`Recovers`, `ShutdownEnds`), as fairness and ENABLED are out of the prover's reach.

## 5. Findings

`relay_resend`. README.md:133-135 of the repository says that the marker is
written before the aggregate commit, "so a crash between send and commit doesn't
re-send". `processShard` writes markers after `SendBatch` has returned
(relay.go:282). A crash between the provider's acceptance and the mark leaves
neither marker nor deleted row, and the message is sent again. The marker
narrows the window; `DuplicatesPaidByFaults` is what does hold.

`audit_answer`. `TaskRepo.Update` answers with a plain SELECT (task.go:212). Two
equal PUTs overlap: both load the task, the first commits, the second's UPDATE
then changes no column, so its SELECT still reads the snapshot taken before the
first. A successful PUT is answered with the values from before, against what
`tests/integration/tasks_test.go:178-180` expects of an answer and the handler's
"new task state". The row and its history are right; `ChangesAreShown` is what
does hold.

`email_recovery`. `client_test.go:75` says of the breaker that it "must recover once
the provider does". Half-open, gobreaker admits one shard of a tick and rejects the
others (`client_test.go:128-129`). A rejected shard calls `cancel(errPaused)` on the
context it shares with the admitted one (relay.go:259); the probe then ends with
`errCallerGone`, which counts neither way, and the breaker stays half-open. The relay
pauses and the next tick repeats it, for as long as the rejection comes before the
probe's answer, although the provider is well. A send that ignores its context, as the
mock `deliver` does, cannot be cut short in this way. `Recovers` is what does
hold: ticks of one shard close the breaker. A probe that is excluded and keeps its
slot, which depends on the library, is excepted in both (`Leaked`).

`comments_gone`. The handler documents 404 for a comment that is not there
(`transport/http/comments/comments.go:131`). `CommentRepo.Update` does not look at how
many rows its UPDATE changed (comment.go:84), and its SELECT reads the snapshot that the
check took: an update of a comment deleted between its check and its UPDATE is answered
200 with the old body. `AcknowledgedWritesHold` is what does hold: nothing brings the
comment back, and an edit of one that is there is stored.

Seen while modelling, without a run of their own:

- an UPDATE of a comment that changes nothing reads back the snapshot, as in `audit_answer`;
- a commit whose acknowledgement is lost is answered 500 with the change stored
  (`service/comments.go:90`, `service/teams.go:79`): an invitation that failed in this way
  conflicts when it is repeated, though its mail is on its way, and an update of a task
  skips the invalidation of the cache (`service/tasks.go:123`);
- the Redis client repeats a command whose reply was lost (`cache/redis.go:22`), and the
  limiter's script is not idempotent: one request may be counted twice, and even be refused
  by its own retry. `HonestRefusal` says that a client is refused only for what was counted;
- `GrantAdmin` tells "already an admin" from "no such user" with a second statement; for
  a user who registers between the two, the command prints that they are now admin
  (`cmd/cli/main.go:59`) though they are not;
- `backoff` compares with its cap after multiplying by `time.Second` (relay.go:358-360), which
  overflows from attempt 310 on; only a `MaxAttempts` that large would meet it;
- "Requests per Window" is GCRA with a full burst: a window may see up to
  2 * Requests - 1 requests (`RateBound`).

## 6. Not modelled

- Cryptography: password hashes and token signatures. A token is what `Issue` put in it.
- Decoding of JSON, the body limit, and the texts of errors: functions of one request.
- Operations that only read one row or one list without paging: `/me`, a user's teams,
  a task's history, `OldestPendingAge` (a gauge).
- Metrics and logs (output only), the load generator (a test tool), generated
  documentation.
- The value of `backoff` (attempt to the fourth power, in seconds, at most an hour): a row
  becomes due again at some later moment.
- The rates of the two limiters are one constant of the model.
- MySQL, Redis, gobreaker, redis_rate and the mail provider are external: each is
  modelled by what the code relies on.

## 7. Plan

Done: the relay and its table, the email client, the list cache, the task audit,
comments, teams, admission, reports, lifecycle; a proof of every safety property; and two
abstract specifications, of the outbox and of audited updates, with proofs that the
detailed ones implement them. What would add most next:

1. what can be proved of lists read after Redis lost its data (`Flush`), which the invariant
   of the cache leaves open: it would need the readers from before the loss to be told from
   later ones;
2. the value of `backoff`, with the range of attempts in which it does not overflow. TLC has
   32-bit numbers, and the provers do not calculate with constants of this size reliably;
3. an abstract specification of comments, in which each request acts at one moment.
