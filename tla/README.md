# Kovo in TLA+

A verification project for the Kovo framework (`packages/`). It models the parts of the
server whose correctness depends on interleavings, failures and time, model-checks them
with TLC on small instances, and proves the central facts about them with TLAPS for every
value of the constants.

What is here now:

- **durable tasks** (SPEC §9.6): the job table, the runners that drain it, and the
  materializer of recurring tasks;
- **mutation replay** over Postgres (SPEC §10): the requests that carry one idempotency
  token, the rows they share, and the abstract promise they implement;
- **optimistic mutations** in the browser: predictions, server truth, the named queue, and
  the refetches that write the store beside them.

What comes next is under *Plan*.

## 1. The system

Kovo compiles an application into a server and a small browser runtime. Most of the
repository is a compiler, static analysis and a sequential pipeline per request. The parts
that keep state across steps of several actors are these.

| Component | State | Operations | Interacts with | Hard because of |
|---|---|---|---|---|
| Job table (`server/task-queue.ts`) | `_kovo_jobs` with a partial unique index | enqueue (plain, debounce, throttle), cancel, claim, heartbeat, succeed, fail, reap, erase | runners, requests, cron, erasure | concurrent statements, expiring leases, retries, the index |
| Task runner (`server/task-runner.ts`) | tick loop, slots, one execution per claim | tick, claim, run, time out, lose a lease, settle, schedule children | job table | crashes, errors, bodies that outlive their claim |
| Task runtime (`server/task-runtime.ts`) | lazy start, cron timer | start, schedule, cancel | runner, cron, request transactions | failed starts |
| Recurring tasks (`server/task-cron.ts`) | `_kovo_task_cron_occurrences` | reserve, enqueue, bind | job table | three statements without a transaction, on every node |
| Principal erasure (`server/principal-erasure.ts`) | none of its own | delete and probe | job table, replay, blobs | work in flight |
| Mutation replay (`server/replay.ts`, `postgres-replay.ts`, `mutation/replay-policy.ts`) | pending and committed answers, a watermark | read, reserve, join, abort, commit, retire, release | requests, webhooks | duplicates, expiry, capacity, clocks |
| Exactly-once continuation (`server/exactly-once-continuation.ts`) | one gate per transaction | run, close, quiesce | replay, adapters | ambiguous commits |
| Principal epochs (`server/principal-epoch.ts`) | an epoch per principal, tombstones | advance, tombstone, verify | requests, erasure | races with requests |
| Load shedding, deadlines (`server/app-load-shed.ts`, `request-deadline.ts`) | buckets, occupancy, an abort race | admit, complete, expire | every request | late completion |
| Mutation queue (`browser/mutation-queue.ts`) | a FIFO per name | run, time out, finish | mutation submission | heads that time out and run on |
| Optimism, query store (`browser/optimism.ts`, `mutation-optimistic.ts`, `query-store.ts`) | server truth, pending predictions | predict, rebase, settle, drop | mutations, refetches | truth out of order |
| Refetch, broadcast, navigation (`browser/query-refetch.ts`, `broadcast.ts`, `enhanced-navigation.ts`) | generations | refetch, retire, apply | query store | answers out of order |

What makes each correct. *Job table*: a lease has one holder and passes only through
`ready`; attempts are bounded; a started job is never rewritten. *Runner*: only the claim
that holds the job can settle it; caps hold for the bodies that really run; every job ends.
*Cron*: one job per occurrence, and none lost. *Replay*: the work of a token is done at most
once, its answer is that of the request that did it, every retry gets that answer, nobody
waits for ever, and what was erased stays erased. *Browser*: what the page falls back to is
a value of the server, every effect on the screen is committed or predicted, each
prediction is settled, and queues are serial and never stuck.

`PROJECT.json` lists every component, modelled or not, and under "hazards" what in this
code is hard to test, each at its line and with the properties that watch it.

## 2. Modules

| Module | Models | Builds on |
|---|---|---|
| `TaskQueue` | the table and every statement of `PostgresDurableTaskQueue` | |
| `TaskRunner` | nodes running `DurableTaskRunner` on that table, with requests, erasure, time, crashes and store errors | extends `TaskQueue` |
| `OccurrenceOnce` | what the materializer promises of an occurrence: an abstract specification | |
| `TaskCron` | nodes running the materializer on that table | extends `TaskQueue`, instantiates `OccurrenceOnce` |
| `OnceOnly` | what mutation replay promises: the abstract specification | |
| `DurableReplay` | requests with idempotency tokens over the Postgres store | instantiates `OnceOnly` with a refinement mapping |
| `OptimisticRebaser` | the rebaser's operations on one query instance | |
| `TurnQueue` | what a named mutation queue promises: an abstract specification | |
| `OptimisticMutations` | a page: its submissions, its queue, its refetches, and the server that answers | extends `OptimisticRebaser`, instantiates `TurnQueue` |
| `TaskQueueProofs`, `TaskRunnerProofs`, `TaskClaimsProofs`, `TaskSettlementProofs`, `TaskCronProofs`, `DurableReplayProofs`, `OptimisticProofs` | theorems | the module they name (`TaskClaimsProofs` and `TaskSettlementProofs`: `TaskRunner`), TLAPS |
| `MCTaskQueue`, `MCTaskRunner`, `MCTaskCron`, `MCDurableReplay`, `MCOptimisticMutations` | instances for TLC | the module they name |

`TaskQueue` has two roles. It is a component, and its `QueueSpec`, where any node may send
any statement at any time with any token, is the *abstract specification* that `TaskRunner`
implements: `TaskRunner` shares the three variables of the table, so the refinement mapping
is the identity on them. `TaskCron` implements it in the same way. Its client is in two
parts, `Enqueues(inputs)` (the schedules) and `RowsMove` (every other statement, and time),
so that a module that extends it can say which schedules are its own.

### TaskQueue

`rows` maps the ids present to their rows. `spent` holds the ids ever inserted (ids are
random and never come back), `minted` counts the lease tokens; token *n* is the *n*-th.
One action is one SQL statement, since Postgres runs each atomically and locks the rows it
writes.

| Action | Code |
|---|---|
| `Insert`, `Debounce`, `Throttle` (`Enqueue`) | `enqueue`: the insert, and the two `on conflict do update` |
| `Cancel` | `cancelReady` |
| `ClaimDue` | `claimDue` with `limit 1` |
| `Heartbeat`, `MarkSucceeded`, `MarkFailed` | the fenced updates; `Holds` is the fence |
| `MarkFailedRejected`, `ReapRejected` | the same statements when the unique index refuses them |
| `ReapExpiredLeases` | one update of every expired row |
| `ErasePrincipal` | `eraseDurableTaskPrincipalRows` |
| `BecomesDue`, `LeaseExpires` | `run_at` and `leased_until` being reached |

Abstractions. An instant is what a statement compares it with: *due*, *expired*. A clock
that a node read too early, or that runs ahead of another, is an interleaving of
`BecomesDue` and `LeaseExpires` with the statements: the bit is set just before the first
statement whose clock sees it. Which due row a claim takes is left open: `order by
priority desc, run_at, created_at` ranks only the rows that `skip locked` does not pass
over. `lineage`, `last_error` and the time stamps are left out, and `maxGenerations` is one
constant for all tasks. The status `failed`, which the check constraint declares, is
written by no statement and is not in `Statuses`; `QueueTypeOK` shows that it is not needed.

### TaskRunner

`tick[n]` is where node *n* is in `runOnce` (`idle`: between ticks, before the reaper;
`claim`: in `claimAvailable`; `drain`: in `Promise.all`; `down`: crashed). `execs` is the
sequence of executions: a claim mints a token and starts one, so execution *t* holds token
*t*. An execution remembers its job as the claim returned it, its phase in `runJob`, whether
its body runs (`live`), has returned in time (`ok`) or is over, whether it has a slot
(`inFlight`, `inFlightByTask`), and whether the tick waits for it.

Between two store calls of one node anything else may happen. `Interrupt` separates an
execution from its body: the body stays `live` and settles later (`ZombieSettles`), which is
what the code can guarantee of JavaScript that ignores `ctx.signal`. A heartbeat, or a schedule
of the body (`BodySchedules`), sent before the body was interrupted or settled may reach the
table after it. Store calls of a `Faulty` node may throw, before or after they took effect.
`Crash` leaves the rows with their leases. `OwnerOf` gives nodes the same owner string in every run, as
`kovo-task-runner:<pid>` does in containers, so only tokens tell nodes apart.

Not modelled: `stop()`, which the application runtime never calls; the runner with an empty
registry, which `createAppTaskRuntime` does not build (it is the only one that could claim
an unregistered task); what a body does other than `ctx.schedule`.

### TaskCron

`reserved` and `bound` are the occurrence table, `clock` the database clock in minutes,
`mode`, `began`, `todo` and `doing` the pass of each node (`began` is the time it read, its `now`),
stopped between any two of its three statements. `Fires` says which minutes a cron expression matches; `CatchUp` and
`BackfillLimit` select among them as `dueOccurrences` does. A failed first pass fails the
start (`Boot` again); a failed later one waits for the timer.

Beside the materializers the whole client of the job table runs (`JobMoves`): runners claim,
settle and reap, requests schedule and cancel, principals are erased. Two facts of the code
limit it, and `ScopeAssumption` names them. The key of an occurrence is built by
`frameworkScopedKey` under the scope `durable-task-cron` (`task-cron.ts:107`), so no other
schedule has it; and an erasure deletes the rows of a principal, while a job of the
materializer has none. Anyone may cancel a ready job of an occurrence.

`OccurrenceOnce` keeps, per occurrence, that it was taken, its job and the job it is bound to,
and lets each be set once. The mapping reads the first and the last from the occurrence table
and the second from the job table (`JobOf`).

### DurableReplay

`rows` is `_kovo_replay` (per key its row: whose reservation, pending or committed, which
admission slot), `reclaimed` the watermark `reclaimed_through`, `epoch` the epoch of the
principal, and `reqs[r]` where a request is. One action is one SQL statement, or what a
request does between two awaits.

| Action | Code |
|---|---|
| `Bind`, `GoStale`, `Verify` | the wrappers of `get` and `reserve`: token horizon and epoch, before and after each call |
| `Retire` | `retireExpiredCommitted`, the statement before every other one |
| `Find`, `FindNothing`, `FindConflict`, `StopWaiting` | `readSettled`, a poll until `pendingWaitMs` is over |
| `SendInsert`, `InsertClaim`, `InsertRefused`, `Peek` | `reserve`: the insert with its snapshot of the slots, and the look at the row in the way |
| `Admit`, `HandlerReturns`, `HandlerFails`, `HandlerDeclines`, `Commits`, `CommitAmbiguous` | the run under its transaction |
| `Settle`, `Publish`, `Abort` | rendering, `commit` and `abort` of the store |
| `Crash` | the process or its connection dies |
| `OperatorRelease` | `releasePendingReplay` |
| `EndEpoch`, `EraseRows`, `Probe` | advance or tombstone, `erasePrincipal` and its probe |

Abstractions. A clock reading is *any* of `Times`: a statement takes its time when it
begins, before it waits for the lock on the watermark, replicas differ, and a database
clock may go back. An insert's slots come from its snapshot while the watermark and the
unique indexes speak of the moment it runs (`busy` against `TakenSlots`). The epoch is
reduced to *open*, *over*, *deleted* and *receipt*. Inputs are compared by `Fingerprint`
only. `stuck` is every end that leaves the claim behind: a commit with an unknown outcome,
a settlement that failed after the commit, a crash.

`OnceOnly` knows nothing of claims and clocks: per key who took effect and whose answer is
the truth, per request whose answer it was told. The mapping reads them from the requests
(`effect`, `answered`, `told`), not from the rows, so an answer stays given when its row is
retired or erased.

### OptimisticRebaser and OptimisticMutations

A query value is, per mutation, how often its effect is in the value. Transforms are pure
but not idempotent, so a prediction re-applied over truth that has its effect already shows
it twice; that is what the value must be able to say. Effects commute, so the pending log
is a set.

`inst[q]` is the store's value, the rebaser's truth and its log; `queue` the named queue,
head first; `stage` how far each submission is; `committed` and `reply` the server;
`reads` the bodies a visible return has received and not yet applied.

| Action | Code |
|---|---|
| `Submit` | admission, `addChange` of all targets or, when a transform throws, of none |
| `Commit`, `Rerun` | the server: commit, and the re-run of the queries over whatever has committed by then |
| `Apply` (`Reconciled`) | targets without truth rolled back, the log settled, the truth applied |
| `Fail`, `Timeout`, `Abandon` | failed response, the head's timer, the aborted task's own end |
| `Read`, `ApplyReads`, `DropReads` | the single-flight refetch of `query-visible-return`: bodies held back to the end, then written raw, or dropped together when one is denied, malformed or skewed |
| `PageHide` | `discardPendingOptimism` |

Abstractions. All queries are loaded. Only full-value chunks are modelled. A submission
that the depth limit refuses changes nothing and is no action; an answer the page no longer
waits for is left out. `Fail` stands for 422 answers and transport errors, after which the
server may still commit. Broadcasts and mutations without a transform write the store the
way `ApplyReads` does.

`TurnQueue` is a line whose first has the turn, and what is over has no turn again. The
mapping takes `queue` for the line, the queued submissions in flight for the turn, and those
that ended or were aborted by their timer for what is over: an aborted task may still run,
which is the case the code has to get right.

## 3. Runs

| Run | Instance | Checks | Distinct states |
|---|---|---|---|
| `table` | `MCTaskQueue.cfg` | the table under its most general client | 9,080 |
| `fleet` | `MCRunnerFleet.cfg` | two nodes, a crash, no store errors | 1.1 million |
| `faults` | `MCRunnerFaults.cfg` | one node, store errors, throttled and debounced keyed jobs, children of their own lineage | 1.5 million |
| `recovery` | `MCRunnerRecovery.cfg` | liveness and refinement, with erasure of a principal | 57,853 |
| `cron` | `MCTaskCron.cfg` | two materializing nodes, both failing, one crashing, while jobs wait or are cancelled; refinement and liveness | 389,924 |
| `replay` | `MCDurableReplay.cfg` | three requests of one key, with crashes, operator and erasure; refinement and liveness | 199,136 |
| `optimism` | `MCOptimistic.cfg` | three mutations of two queries, two of them queued, two transforms that may throw; refinement and liveness | 267,695 |
| `stall`, `slots`, `effectkey`, `lostcron`, `doublecount` | the cfgs of the findings | one violated property each | |

Deadlock is checked except in `replay`, `optimism` and `doublecount`: requests end, and a
page on which everything was submitted may stay quiet.

**Properties.** Each is stated, with the code it is about, where it is defined.

- Table: `AttemptsBounded`, `LeaseConsistent`, `ScheduleNeverTouchesStarted`, `NoTakeover`.
- Runner: `SuccessIsEarned` (a job is recorded as succeeded only if the body of its *newest*
  claim returned), `LeaseLostOnlyByExpiry`, `AttemptsAreClaims`, `HealthyBodiesCapped`,
  `FinishedClaimsReleased`, `GenerationsBounded`, `RetriesRunAlike` (no attempt of a job
  runs other arguments than the one before, unless its task is debounced), and the liveness properties
  `ReadyJobsSettle` and `ExpiredLeasesReaped`.
- Cron: `OneJobPerOccurrence`, `BindingsName`, `PassesCatchUp` (a pass misses nothing that was
  due when it began, although the window slides on under it), the refinement
  `OccurrencesServedOnce`, and the liveness property `RetriedUntilReserved` (what stays in the
  window is reserved in the end, however often a pass, or the first one, fails). An occurrence
  may leave the window unreserved: the clock waits for nobody. `PassesCatchUp` says when, only
  if no pass that began in its window came to its end.
- Replay: `EffectsOnce` (a token never has the effect of two requests, and its answer tells
  of the effect), `ClaimsReleased` (every pending claim belongs to a request that still runs
  or is `stuck`), `ErasedStaysErased`, `EffectsRemembered` (an effect is
  forgotten only when its token can no longer be admitted), `FailuresChangeNothing`, the
  refinement `OnceImplemented`, and the liveness property `RequestsEnd`.
- Browser: `BaseIsServerTruth`, `ScreenExplained`, `PredictionsHaveOwners`, `HeadInFlight`,
  `SiblingsKept` (the end of a mutation takes from a log its own prediction and those whose
  transforms throw in that very step; else only `PageHide` takes any),
  `SerializedCountedOnce` (a query whose writers share the queue shows no
  effect twice), the refinement `TurnsTaken`, and the liveness property
  `QueuedSubmissionsEnd`.

Every property of a passing run has a mutant: a definition of the model changed the way a
plausible bug would change the code (the fence without the token, the reaper without the
ceiling, the slot freed at the timeout...). TLC finds the property violated in each.

**Bounds, and why they are enough.** Only `Jobs` and the ceilings bound a behaviour: ids
are never used again, and a job is claimed at most as often as its ceiling says, so the
tokens are bounded too. Two jobs are enough for rows to interfere (a ready twin, one reap
for two rows, two slots). Two nodes are enough for a zombie and its successor, and a third
claim of one job needs no third node. Ceilings 2 and 1 give a retry, an exhaustion, and a
task that is never retried; `recovery` uses 3, so that a retry is retried. Caps of one body
per task and two per node make both caps bind. Only the bodies of `faults` schedule
children, and the ceiling is 1 there, the smallest under which a lineage goes on and ends: they
schedule a task debounced under a key of its own, so that a child meets the ready row of a
request or of its own lineage, waiting for its first attempt or for its retry, and a
child past the ceiling must leave that row alone (both ids are spent by then, so the dead row
such a child becomes is left to the theorem). The other schedule of the run is throttled with two argument lists, under which a ready job can be met with either; jobs
and those argument lists are symmetric. In `cron`, `Horizon = 3` with `BackfillLimit = 2` is the
smallest instance in which an occurrence leaves the window, under a pass that has begun or
before any has; three jobs give each occurrence one, and a second job for one of them would be
found. Jobs wait or are cancelled there, which is enough for one that no longer coalesces;
claims are left out of the run, not of the module, to keep it small: with three occurrences
they multiply its states by far more than they add to its questions, and the theorems hold with
them. No other schedule runs there: each takes an id from `Jobs`, and a pass that finds
none left would stop at its enqueue, which no real pass does. The theorems about `TaskCron`
hold with any. What small bounds cannot show of the table, and the bound on generations, is
proved.

In `replay`, three requests of one key are two retries and a conflicting reuse: with two
that agree, one can hold the claim while the other joins, is answered, or takes over after
a release, and the third meets either as a conflict. A second key would meet the first
only at the slots and at the watermark, and `Slots = {1}` makes the single slot bind among
three requests already; the proofs do not depend on it. `Times = {0, 1}` with a horizon of 1
is a clock before and after the horizon, read in any order. In `optimism`, two queued
mutations give a head and a tail, the third races them unqueued. Of the two queries, one is
written by the queued two (so that `SerializedCountedOnce` speaks of it), the other by one of
them and by the third; an answer may cover one target and not the other; `MaxDepth = 2` is reached; a transform of two
mutations may throw (`Fragile`), of one of them for one query and not for the other.

**Fairness, and why the code justifies it.** Of the runners, only nodes that neither crash nor
meet store errors (`Healthy`) are fair: their timers fire, and what follows a store call is
synchronous. Bodies that started settle, in time or late, because JavaScript cannot
preempt them and the runner relies on it: a body that never settles keeps its slot for ever.
Time passes, so rows come due and leases expire. Strong fairness is assumed of them in one place, a
claim that is possible at infinitely many polls: no transaction has a due row locked at
every poll. Nothing forces requests, crashes or erasure.

In `cron` the nodes that do not crash (`Lasting`) are fair, also when their statements throw:
requests reach them, which is what retries a failed start, and their timers fire, which is what
retries a failed pass. A reservation that is tried again and again goes through in one of the
tries (strong fairness of `ReserveNext` for each occurrence): `task-runtime.ts:174` speaks of
"transient DB errors" that "the next tick retries". A statement that throws for ever would
excuse every loss.

In `replay` the steps of a request that was sent are fair: statements return, handlers
settle, and polls are bounded by `pendingWaitMs`. Crashes, the operator and erasure are not.
`RequestsEnd` then says that nobody waits for ever for a claim that is never released. In
`optimism` only the queue's timer and the rejection of an aborted task are fair; nothing is
promised of the network, and `QueuedSubmissionsEnd` holds all the same.

**Findings.** Five runs expect a violation. Where a theorem draws the line between what is
lost and what is not, it is named here.

1. `stall`: a keyed job rescheduled while it runs, whose body then fails, can neither be
   retried nor reaped, because a ready twin holds the unique key. From its lease expiry on
   every reap throws, every tick ends before it claims, and all tasks of the queue stand
   still. One healthy node is enough. `RefusedReapsHaveTwins` proves that nothing else stops
   the reaper: a refused reap meets an expired keyed row and a ready or expired twin of it.
2. `lostcron`: a reserved occurrence whose enqueue failed is never enqueued.
   `NothingLostWithoutFailure` proves that it takes a failure: where no node crashes and no
   statement throws, what is reserved has its job or a node about to enqueue it.
3. `slots`: when `markFailed` throws after a timeout, the slot of a live body is freed.
   Without store errors, only a retry that the unique index refuses could do the same:
   `UnkeyedBodiesCapped` proves that nothing else does.
4. `effectkey`: a debounce into a row that waits for its retry changes what its job id, the
   idempotency key, stands for. `RetriesAlwaysRunAlike` proves that only debouncing does: the
   claims of a job whose task is never debounced under a key run the same arguments for the
   same principal, and all claims run the same task and generation.
5. `doublecount`: an answer settles only the prediction of its own mutation
   (`wire-response.ts:367`), although its re-run holds what others have committed. The
   predictions of those are applied over truth that has them already, until their own
   answers arrive. `spec/09-wire-protocol.md:169` says that the settlement set names them.
   `ScreenExplained` bounds the damage: twice only while the mutation is pending, and
   `SerializedAlwaysCountedOnce` says how to avoid it: name one queue for all writers of the
   query.

Because of the first, `recovery` runs an unkeyed job: liveness of keyed jobs does not hold.

Seen while modelling, without a run: two inserts that read the same snapshot pick the same
slot and one is refused with 429 although slots are free (`postgres-replay.ts:618`), safe
and retryable; the loader gives refetches and broadcasts no rebaser
(`loader.ts:288`, against the wiring `query-apply.ts:66` describes), so they show a page
without its predictions until the next answer.

## 4. Proofs

TLAPS checks, for every value of the constants that satisfies their assumptions (the named
`ASSUME`s of the modules, which TLC evaluates in every run that extends them):

- `TaskQueueProofs`: `TypeCorrect`, `AttemptsStayBounded`, `LeasesStayConsistent`,
  `StartedJobsUntouched`, `LeasesNeverTakenOver`;
- `TaskRunnerProofs`: `RunnerTypeCorrect`, `GenerationsStayBounded`,
  `RunnerImplementsQueue`, and with the latter `RunnerAttemptsBounded` and
  `RunnerLeasesNeverTakenOver`;
- `TaskClaimsProofs`: `SuccessesAreEarned`, `AttemptsCountClaims`,
  `LeasesLostOnlyByExpiry`, `RetriesAlwaysRunAlike`;
- `TaskSettlementProofs`: `FinishedClaimsAreReleased`, `SlotsStayCapped`, `ReadyKeysStayUnique`,
  `RefusedReapsHaveTwins` and, when no schedule has a key, `UnkeyedBodiesCapped`;
- `TaskCronProofs`: `CronTypeCorrect`, `OccurrencesHaveOneJob`, `BindingsAlwaysName`,
  `PassesAlwaysCatchUp`, `CronImplementsQueue` and with it `CronAttemptsBounded`, `OccurrencesAreServedOnce` (the
  refinement of `OccurrenceOnce`) and, without crashes and failing statements,
  `NothingLostWithoutFailure`;
- `DurableReplayProofs`: `ReplayTypeCorrect`, `EffectsHappenOnce`, `RepliesAlwaysAgree`,
  `ClaimsAreReleased`, `ErasureHolds`, `EffectsStayRemembered`, `FailuresNeverChange`, and
  `ReplayImplementsOnce`, the refinement of `OnceOnly`;
- `OptimisticProofs`: `OptimismTypeCorrect`, `BaseAlwaysServerTruth`,
  `ScreenAlwaysExplained`, `PredictionsAlwaysOwned`, `HeadAlwaysInFlight`,
  `SiblingsAlwaysKept`, `SerializedAlwaysCountedOnce`, and `TurnsAlwaysTaken`, the refinement
  of `TurnQueue`.

**The argument for the table.** `AttemptsBounded` is not inductive: a claim adds one to
`attempts`, so ready rows must be below the ceiling, and a reap decides by the ceiling of
the row, so that one must be below the task's. `LeaseConsistent` needs that a running row's
token was minted and that a row which does not run has none. `QueueInv` is therefore a
condition on each row by itself (`RowInv`: types, attempts by status, ceilings, lease
columns by status) and one on pairs (`TokensUnique`). Every statement changes rows one by
one, so the proof has a lemma per statement about the row it writes and one step about
tokens: only `ClaimDue` writes one, and it is greater than all.

**The argument for the runners.** `RunnerInv` adds to `QueueInv` that live rows are within
the generation ceiling (`GenerationStatus` writes the others dead, and a debounce keeps the
generation of the row), and that executions are well formed, as many as tokens, and within
the ceiling. For the refinement, each action is shown to be a statement of the table, with
inputs that the table's client may use, or to leave the table alone; the generation of a
child is within the range `QueueNext` allows *because* its parent's is bounded, which is
why the invariant comes first.

**The argument for claims.** `SuccessIsEarned` speaks of finished jobs, and becomes true
while they still run: `markSucceeded` is fenced by the token of the row, so it suffices that
this token is the *newest* claim of the row and that an execution which reports success has
a body that returned in time. `ClaimsInv` says both of every state. All statements but
`ClaimDue` and `MarkSucceeded` are *quiet*: they make no row run or succeed and keep its
attempts. A claim makes its token the newest and adds one to claims and attempts alike;
sets of claims are finite, so the two counts stay equal. For `LeasesLostOnlyByExpiry`, quiet
statements other than `markFailed` leave unexpired leases alone (only the reaper takes one,
and it asks for expiry), and a settlement needs the token of the row, so it ends the
execution that settles and no other. `RetriesAlwaysRunAlike` needs to look at rows as well:
`AlikeInv` says that every execution agrees with the row of its job, if there still is one,
and with every other execution of it. Throttles, settlements, claims and reaps leave what a
row stands for alone, a claim copies it, and a job that was erased is never claimed again
because its id is spent.

**The argument for settlements and slots.** A step lets every execution but one go on as it
is: same identity, no new slot, a body only under a slot. The one it may end has let its row
go, unless its node meets store errors or its retry was refused. The refusal needs a second
ready row with the same key, hence a key; that ready keys are unique
(`ReadyKeysStayUnique`) is what makes `markFailed` of an unkeyed row succeed. A row that was
let go is never held again under its old token, since claims mint new ones. Slots are
counted against claims: `ClaimNext` is the only step that adds to the executions that count,
one at a time and only where `HasRoom` and `ClaimableKeys` leave room, so `SlotsCapped` holds
whatever the store does. Bodies are within the slots as long as no settlement throws, which
is why `UnkeyedBodiesCapped` assumes that no schedule has a key and speaks of nodes without
store errors; finding 3 is what happens on the others.

**The argument for recurring tasks.** One job per occurrence is not kept by the job table
(its index knows only ready rows) but by the occurrence table: a reservation is inserted
once, and whoever inserted it is alone with it. `CronInv` says so: the node whose next
statement enqueues an occurrence is the only one, and the occurrence has no job yet; jobs of
the table belong to reserved occurrences, one each; a binding names the job of its
occurrence. What others do to a row keeps its key, no other schedule has the key of an
occurrence, and an erasure spares rows without a principal (`ScopeAssumption`), so they never
matter. The proof needs that the task has some argument to be enqueued with
(`ArgsAssumption`).

`PassesCatchUp` is inductive with the facts that a node without a pass has begun none
(`Due(0)` is empty) and that reservations are never taken back: what a pass takes off its list
it has reserved, or has found reserved.

For the refinement of `OccurrenceOnce`, a reservation that is inserted is a `Take`, an enqueue
a `Give`, a bind that finds the column null a `Name`; everything else leaves the occurrence
table alone and every occurrence with the job it has. That `Give` finds the occurrence without
a job is the part of `CronInv` about the node that is alone with it: so the throttle of the
enqueue never coalesces. For `NothingLostWithoutFailure`, a node drops what it is about to
enqueue only when it crashes or a statement of its throws.

**The argument for replay.** Call a request *engaged* once it is admitted: it may take
effect, has, or is the answer. `EffectsOnce` would follow if an engaged request always held
the row of its token, which is false: an erasure deletes pending rows under a running
handler, and a retirement deletes answers. `ReplayInv` says that no token has two engaged
requests and why none can come. While the epoch of the token is open, its engaged request
still holds the row, or its answer was reclaimed and the watermark, which the same statement
raised, is past the horizon of the token, so that no reservation passes it. Once the epoch
is over, whatever was erased, nobody is admitted any more. The refinement maps a commit to
`TakeEffect`, a publication to `Answer`, a verified read to `Tell`, and everything else to
stuttering.

**The argument for optimism.** `PageInv` has a part per instance (`Sound`: types, a truth
kept exactly while predictions are pending, an honest base, an explained screen), a part on
owners (pending predictions are those of submissions under way), one on answers and one on
held reads (both hold committed effects, each once), and one on the queue. Every rebaser
operation is shown to preserve `Sound` from an honest value; that a late answer or a read
taken long ago is honest follows because `committed` only grows. `SiblingsKept` follows
action by action: an operation takes back the mutation it names (`TakesBack`) and those
whose transforms for that query threw, and spares the rest. The statement names the step by what
it does: for every choice of throwing transforms that explains it, a sibling that is gone is
among them; so a failure that wipes its siblings along with itself is no such step.

`SerializedCountedOnce` needs more than the screen: a truth must hold none of the effects that
are predicted over it. `SerialInv` says so for every query whose writers share the queue. It is
kept because what waits in the queue has not committed, only the head is sent, and an answer
brings truth to the targets of its own mutation alone: when it arrives, the predictions it is
applied under are of mutations that still wait. For `TurnQueue`, a submission to the queue is
`Join`, an applied or failed answer and the timeout of the head are `Leave`, and what an
aborted task does later is stuttering.

**Only model-checked.** Liveness and `ENABLED`, which are out of the provers' reach
(`ReadyJobsSettle`, `ExpiredLeasesReaped`, `RetriedUntilReserved`, `RequestsEnd`,
`QueuedSubmissionsEnd`). Every other property of a passing run is proved, invariants, action
properties and refinements alike: `HealthyBodiesCapped` for schedules without keys, the others
without a restriction.

## 5. Plan

In the order of what matters most to the system. What follows extends modules that
have a run already.

1. Streaming answers and delta chunks in `OptimisticMutations`: both take a value that holds
   predictions for the truth, so `BaseIsServerTruth` decides what they do.
2. The recovery latch that several refetchers share, and its generations.
3. `stop()` and `start()` of the runner, whose two timers share one tick.
4. The in-memory stores: the replay store against `OnceOnly`, the queue against `TaskQueue`.

## 6. Not modelled

- Of replay: the in-memory store, `settleWithoutReservation`, the `LIMIT` of one
  retirement, handlers without a transaction, mutations that change privileges, webhook and
  capability surfaces (they differ in their keys), the vocabulary of refusals.
- Of the browser: streaming answers, deltas, `await-fragment` entries, document reloads,
  session transitions, build skew, navigation, the principals of broadcasts.
- Of tasks: `stop()`, observability, the parser of cron expressions (`Fires` is a constant),
  the 366-day horizon.
- The compiler, static analysis, build and command-line tools, which are most of the
  repository's lines: batch programs over source text, without state that survives a step.
- Cryptographic formats, rendering, interface components, assets, adapters, scripts.
