# GreyQueue in TLA+

GreyQueue is a job queue on PostgreSQL. Clients submit jobs to any of several
coordinators; workers pull jobs over HTTP under renewable, fenced leases; a
maintenance loop in every coordinator takes back what lost workers held. This
directory holds TLA+ models of it, TLC configurations that check them on
small instances, and TLAPS proofs of the main results for every instance.
Paths below are relative to the repository.

## 1. Inventory of the system

| Component | State | Operations | Talks to |
| --- | --- | --- | --- |
| Job service (`greyqueue/service.py`) | tables jobs, attempts, results, events | admit, claim, start, renew, finish, cancel | called by every API route, in one transaction each |
| Scheduler policies (`scheduler.py`) | none | the query of a claim: eligibility and order | used by claim |
| Job recovery (`recovery.recover_jobs`) | the same tables | expire leases, cancel blocked children | maintenance loop of each coordinator |
| Worker registry (`api.py` register, heartbeat, drain) | table workers | register / replay / takeover, heartbeat, drain | worker processes, operators |
| Failure detector (`recovery.detect_workers`) | table workers | HEALTHY to SUSPECT to DEAD | maintenance loop |
| Coordinator API (`api.py`) | none of its own | routes, session check `identity` | joins the above; any number of coordinators share the database |
| Worker process (`worker.py`) | asyncio tasks: heartbeat, one consume loop per slot, renewal | register, heartbeat, claim, start, renew, finish, shutdown | coordinator over HTTP with retries; executor |
| Executors (`executors.py`) | pools, child processes | run with timeout, cancel, close | worker |
| External sink (`scripts/side_effects.py`) | SQLite tables receipts, effects | commit an effect once per job | a task between start and finish |
| Schema migrations (`migrations/`) | alembic_version, the shape of all tables | four upgrades, four downgrades with refusals | run by an operator on a database with work in it |
| Dashboard (`dashboard/app.js`) | token, generation, busy and repeat flags, panels | connect, disconnect, refresh, filter, buttons, submit | read and write routes over HTTP |
| Middleware, observability, CLI, tasks, db, config, benchmarks, other scripts | none that outlives a call | | |

What is hard here, and what a unit test rarely reaches:

* transactions of several coordinators, workers and sweeps interleave on the
  same rows, and some rows (a parent, an attempt) are read without a lock;
* answers get lost, so claims, submissions, registrations and completions are
  repeated, late, and after the world has changed;
* leases expire under workers that still run; a worker is declared dead and
  comes back; another process takes over its id;
* jobs depend on jobs, and a parent may fail after its child was admitted;
* something must eventually happen to every lease and every job;
* in a worker, callables that cannot be stopped, renewals that race the end of
  the task, and cancellations that meet a coroutine at any of its awaits;
* migrations that find work under way, and are refused half way;
* in the dashboard, answers that overtake each other and the user's clicks.

Correctness properties, by component:

* job service: exclusive ownership, unambiguous fences, exact retry budget, one
  attempt per slot, result of the newest attempt, finality of what has ended,
  idempotent admission, queue and rate limits, a truthful event history;
* recovery: live leases are never taken, dead ones never honoured, every
  attempt and every blocked child ends;
* registry and detector: verdicts rest on silence, drains survive verdicts, an
  id changes hands only from a silent owner, silence is always noticed;
* composition: drained workers get no work, work fits the process that gets it,
  a replaced process cannot complete anything;
* transactions: nobody waits in a circle, nobody writes what another has read
  and goes by, and a sweep never takes a lease that was renewed beside it;
* worker and executor: a task runs only for an attempt whose start was taken, a
  started attempt is never abandoned silently, the pool is never given more than
  it can run, a worker told to end ends and leaves nothing behind;
* sink: an effect happens once per job, however often the job is executed;
* migrations: the program always finds tables it can work on, no command leaves
  the database between two versions, drains and old work survive;
* dashboard: the page shows the current connection and comes to show what the
  user asked for.

`PROJECT.json` lists the hazards at their lines with the properties that cover
them.

## 2. Modules and how they correspond to the code

| Module | Models |
| --- | --- |
| `Lifecycle` | job states, `TRANSITIONS`, the test of `transition()` |
| `JobStore` | the four job tables and every transaction that writes them, `recover_jobs` included |
| `Delivery` | the abstract promise to a client about each job; no tables, leases, clocks |
| `WorkerIds` | the worker ids that tables attempts and workers share |
| `WorkerRegistry` | table workers; register, heartbeat, drain, `detect_workers` |
| `Coordinator` | the API routes and maintenance steps, over the tables and transactions of `JobStore` and `WorkerRegistry`, which it extends |
| `RowLocks` | the same transactions taken apart into statements and row locks |
| `EffectSink` | `JobStore` with tasks that write to an external sink |
| `Executor` | `executors.py`: runs, the pool, timeouts, cancellation, a broken pool |
| `WorkerProcess` | `worker.py` on top of `Executor`: registration, heartbeat, consume loops, supervision |
| `Migrations` | the four revisions, the command that runs them, and the program in outline |
| `Dashboard` | `app.js` |
| `JobStoreProofs`, `DeliveryProofs`, `HistoryProofs` | theorems about `JobStore`, `Delivery` and `EffectSink` |
| `CoordinatorProofs` | theorems about `WorkerRegistry` and `Coordinator` |
| `RowLocksProofs`, `WorkerProcessProofs`, `MigrationsProofs`, `DashboardProofs` | theorems about the module each is named after |
| `MCJobStore`, `MCEffectSink`, `MCWorkerRegistry`, `MCCoordinator`, `MCRowLocks` | constant values for TLC |

Conventions of `JobStore`, `WorkerRegistry` and `Coordinator`:

* **One action is one committed transaction.** `api.session` opens one per
  request and commits at its end; `tick` opens two. Within one, the code locks
  the row it decides on (worker, then job) before it reads the clock and the
  columns, and holds it to the commit; admission and the sweep run under
  advisory locks. So transactions that meet are serialised where it matters. This
  is an assumption of these modules and what `RowLocks` is about: its
  ReadsStayCurrent fails when such a lock is left out, while the properties of
  these modules, whose transactions cannot overlap, would not notice. A crash of
  a coordinator rolls a transaction back: it did not happen.
* **A refused or replayed request is a stuttering step**: it leaves every table
  as it was. The guards of an action are the conditions and early returns of its
  handler; the comment beside a guard names what its failure answers.
* **Lost, repeated and late calls need no network.** Any handler may run at any
  time with any arguments a client or worker can send, so every order of every
  late or repeated call is among the behaviours. A lost answer is a transaction
  after which nobody acts. A crashed worker is one that takes no more steps.
* **Time is relative.** `clock_timestamp()` is the only clock. An instant is kept
  as the time left until it (`wait` for available_at, `lease` for expires_at,
  `cap` for started_at + timeout + 5) or since it (`age` of created_at, `silent`
  for last_seen), with a floor or ceiling past which no code looks. `Tick` passes
  a unit. `expires_at <= now` is `lease = 0`. This keeps the state space finite
  with no bound on time. The timers of a finished attempt are set to 0; nothing
  reads them.
* **The claim id names the attempt.** claim_id is unique; the attempt's primary
  key, which is also the token, is determined by it.
* **SKIP LOCKED is nondeterminism.** A claim may take any eligible job and a
  sweep any part of what qualifies, up to its LIMIT. The ORDER BY of the policies
  is therefore not in the model: no property here depends on it.
* A definition's sha256 is the definition; a completion carries an output or an
  error, and only an error can be retryable (`protocol.Completion`). Jitter is a
  choice of any delay between half and one and a half times the backoff.
* `Coordinator` adds two history variables: `claimant`, the session that claimed
  each attempt, and `drained`. A process learns a token only as the answer to its
  own claim, so a session reports only on attempts it claimed.
* `system_events`, task arguments, metadata and priorities are left out.

The other modules:

* **`RowLocks`** is about why a transaction may be one step elsewhere. A
  connection runs one transaction at a time; each statement that locks is an
  action; writes show at the commit; any transaction may be rolled back
  (`lock_timeout`, a lost connection). PostgreSQL's READ COMMITTED is part of the
  model: a locking query sees the rows committed when it began, and tests the
  locked row again, not the attempt joined to it. That is the gap the recheck at
  `recovery.py:39` closes. The recheck is a step of its own for each row
  (`Recheck`), between the first query and the second; what it finds is kept in
  `due`, which the commit writes, so everything that can happen between recheck
  and commit does happen here. `read` holds what a transaction has read and goes
  by to its end: the worker's row (session, state, last_seen, and its slots, which
  only its claims fill), the queue counted by `admit` (`Admission`), and jobs. A
  sweep or a report frees a slot without the worker's row, which makes a claim
  refuse at worst. A parent is read without a lock; that this does no harm is
  DependencyRespected and BlockedChildEnds in `JobStore`. Heartbeat, drain and
  registration are the operation `touch`. Which jobs are children of failed
  parents is left open.
* **`Executor` and `WorkerProcess`.** A slot's variable says at which `await` its
  consume loop is; cancellation is what asyncio does to a coroutine at that
  await. `post` has no action of its own: a request is pending while the loop is
  at it, the coordinator carries it out in one step and the answer arrives in
  another, so any number of lost answers lies between. `held` is the coordinator
  reduced to what this process can tell of it: the unfinished attempt of each
  slot and whether its lease lasts. `Coordinator` shows that it behaves so for
  any process. Timeouts and task ends are nondeterministic. `Pooling` says
  whether tasks go to the pool: always (`thread`, `process`), never
  (`subprocess`), or some (`hybrid`).
* **`EffectSink`** adds the sink's tables to `JobStore`. An execution commits at
  any time after its start, even when its lease is over; success is reported only
  after that.
* **`Migrations`** keeps the columns that a revision computes or tests and those
  that ownership rests on. A command runs its revisions in the one transaction of
  `env.py`; the first revision down from the head takes locks that stop the
  program until the end. `tx.began` remembers all tables as the command found
  them, for NeverStranded. The database starts empty, as v0.1 left it with a job
  in any state, or before the last revision.
* **`Dashboard`**: JavaScript runs a callback to its next await, so an action is
  such a stretch. The answer to a refresh, its catch and finally clauses, the
  refresh that finally may send, and what the connect form does after its await,
  are one action.

A definition whose name says how it deviates and whose comment begins "Mutant:"
is a plausible mistake in the definition after it. Each property is shown to
fail when one of them takes that definition's place.

## 3. Runs

| Run | Instance | Shows |
| --- | --- | --- |
| `store_safety` | 2 jobs (parent, child due later), 2 workers, 4 attempts, lease 2, backoff up to 2 with jitter (27,944 states) | TypeOK, Ownership, FenceHistory, RetryBudget, SlotExclusive, ResultIsLastWord, DependencyRespected, AuditTrail, LeaseDecides, HistoryIsFinal, KeepsPromise |
| `admission` | 3 jobs, 2 keys, 2 definitions, limits of 2 (250,763 states) | KeyAdmitsOnce, QueueBounded, RateBounded |
| `recovery` | `EffectSink`: chain of 3 jobs, the last with a retry, 4 attempts, lease 2 against a cap of 2, sweep limit 1 (34,343 states) | EffectOnce, AttemptEnds, BlockedChildEnds, EveryJobConcludes |
| `registry` | 2 ids, 3 processes (1,369 states) | DrainHolds, VerdictsAreEarned, IdsChangeHandsOnlyWhenSilent, SilenceIsNoticed |
| `coordinator` | 1 id, 2 processes of capacity 2 and 1, 2 jobs of different tasks, 2 attempts (148,907 states) | PlacementFits, DrainedGetsNoWork, ReplacedProcessIsFenced |
| `row_locks` | 3 connections, 2 workers, 2 jobs, both advisory locks (353,662 states up to symmetry) | NoWaitCycle, DecisionStands, ReadsStayCurrent, SweepTakesOnlyLapsed |
| `worker` | 2 slots, pooled and other tasks, any number of jobs (343,308 states) | PoolNeverQueues, CleanExitLeavesNothing, WorkMatchesLease, EndsWhenTold |
| `migration` | 2 jobs, 3 attempts, 1 worker, 2 slots, targets 0 to 4 (276,481 states) | HeadOwnsWork, DrainOutlivesUpgrade, NeverStranded, OldWorkConcludes |
| `dashboard` | 2 filters, 5 connections and disconnections, 1 click in flight (268,712 states) | ScreenIsCurrent, OneRefreshAtATime, ScreenCatchesUp |
| `adr007` | 1 job, lease 3, timeout 1 | CapBoundsOwnership is violated |
| `worker_broken_pool` | 2 slots, all tasks pooled | FailedSlotEndsProcess is violated |
| `migration_drain` | targets 3 and 4 | DowngradeKeepsDrain is violated |

**Why the bounds suffice.** The interesting cases need a second attempt (retry,
fencing), a second worker (reassignment), a parent and a child, a grandchild
(cascade over two sweeps), a limit that is reached and released, and a lease
that is shorter, and one that is longer, than the cap. Each is reached in one of
the runs. Ids bound behaviours: once the claim ids are used up no further claim
is made, and four are enough for both jobs of `store_safety` to use up their
budgets. `recovery` has as many claim ids as attempts are possible, so running
out of them never blocks a job; there `IdsInOrder` has jobs admitted in the order
of the chain and claim ids, which are random, used in one order. Time is
unbounded everywhere. Symmetry is used over ids that no definition or constant
names, in runs without liveness only.
`worker` bounds nothing but the number of slots: two are enough for one to fail
or be cancelled while the other is at any of its awaits. Three connections and
two rows of each kind make every cycle of two and three waits possible.
`migration` reaches a second attempt after the one v0.1 left, and a command
refused at each revision that can refuse. Five changes of connection let two old
refreshes be in flight beside the current one.

**Fairness.** `RecoveryFairness`: time passes, and for each job a sweep that
deals with it is not put off for ever once it stays due. `maintain` loops in
every coordinator, survives database errors, and sweeps up to 100 rows each time;
rows locked by others are locked for one short transaction. Nothing is assumed of
workers: they may crash, never start, never report, or renew for ever.
EveryJobConcludes is stated under one more assumption, `WorkersPoll`: as long as
some job is claimable by a free slot, some claim is made in the end (`consume`
loops over claim). It does not say that a job with low priority gets its turn
against an endless stream of others (ADR 002 says it may not); admissions are
finite in the run. `DetectorSpec`: time passes and `detect_workers` runs again
and again. `WorkerFairness`: every request of the process is answered in the end
(`post` repeats it, and the coordinator comes back), every task ends or times
out, and a coroutine that can go on does; claims need not be granted, leases need
not lapse. `MigrationFairness`: a command ends by commit or rollback, and leases
that keep getting the chance between commands lapse and are swept (strong
fairness, because a command suspends the program). OldWorkConcludes is stated
under the premise `[]<>InService`, that the program is back at the head version
again and again: a downgrade that stays leaves the work where it is. `Dashboard!FairSpec`: requests
end within the ten seconds of `AbortSignal.timeout`, and intervals fire.

**Findings.** (`adr007`) ADR 007 (`docs/design-decisions.md:22`) and the
comment at `greyqueue/service.py:258` say the timeout-plus-five-seconds cap
always bounds ownership, as unstarted leases are not renewable. Only `renew`
applies the cap; the first lease, given by `claim`, keeps its full length
through `start`. With `lease_seconds` greater than timeout + 5 an attempt is
owned, and may complete, after the cap. Ownership is still bounded (AttemptEnds),
by the longer of the two.

(`worker_broken_pool`) `executors.py:99` lets BrokenProcessPool through so that
the worker exits, the pool being unusable. The slot that gets it fails and the
task group cancels the others, once. A slot that is in its finally clause then
(`worker.py:156`) is awaiting its own execution or renewal under
`suppress(CancelledError)`: it swallows the group's cancellation and goes back to
polling, and the process lives on with a broken pool until that slot, too, is
given a job for the pool. EndsWhenTold shows that a drain, a signal or a takeover
still ends it.

(`migration_drain`) `docs/persistence.md:12` says that both later downgrades
refuse to lose data they cannot represent. That of `b8f1c3a7d952` drops
`drain_requested` without a test; a worker that was told to drain and is SUSPECT
or DEAD at that time comes back HEALTHY after the next upgrade.

Observed on the way, and no finding, since no document says otherwise:
`executor.close()` is not reached when `run` ends by an error (`worker.py:178`
raises it again first); a downgrade to v0.1 and back numbers all attempts of an
ended job 1, so FenceHistory, RetryBudget and ResultIsLastWord hold at the head
version for jobs that were not ended before such a round trip (HeadOwnsWork is
what does hold); a dashboard that reconnects while a connection is being made
keeps an interval that nothing clears, which OneRefreshAtATime makes harmless.

## 4. Proofs

Each theorem is about the specification its run checks (without fairness, which
safety does not need) and holds for every value of the constants under the named
assumptions below. TLC evaluates them in the runs.

| Assumptions | Say |
| --- | --- |
| `JobStore`: DefinitionAssumption, PayloadAssumption, TimingAssumption, LimitAssumption | definitions are well-formed rows, slots are numbers, outputs, errors and NULL are told apart, timings and limits are numbers, positive where the settings demand it |
| `WorkerRegistry`: RegistryTiming, RegistryCapacity | `suspect_after < dead_after` (`config.Settings.timings`), capacities are positive |
| `Coordinator`: ProfileAssumption | a process registers with one capacity and one set of tasks |
| `RowLocks`: LocksAssumption | workers, jobs, the two advisory locks and "none" are told apart |
| `Executor`: ExecutorAssumption | a process has finitely many slots; tasks end in one of the listed ways |
| `Migrations`: MigrationAssumption | slot 0 exists, the head is a target, targets are versions |

No proof bounds the number of jobs, workers, attempts, connections or slots, nor
time. (`Migrations` takes ids from `1 .. MaxJobs` and `1 .. MaxAttempts`, for any
values of these. The proofs about `Dashboard` use no assumption.)

### `JobStoreProofs`

* `TypeCorrect`: `TypeOK`, with the foreign keys. It is inductive.
* `OwnershipHolds`, `FencesHold`, `SlotsHold` follow from
  `Core == TypeOK /\ Ownership /\ FenceHistory /\ SlotExclusive`. None of the
  three is inductive alone: that a claim creates no second holder needs "a
  waiting job has no unfinished attempt" (Ownership); that the new fence is fresh
  needs that fences fill 1 .. attempt_count; that a report ends the only holder
  needs that fences are unique. Each action has its lemma; actions that release
  a job (finish, cancel, sweep) share `CoreReleased`.
* `LeasesDecide`: the action property from `TypeOK` alone.

### `DeliveryProofs`

* `JobChange` lists the ways one transaction can change one job, and `NextJobs`
  shows that every transaction stays within it. A sweep might cancel a job it has
  just taken back; `SweepsApart` excludes it, because a job that was held has a
  parent that succeeded. So `NextJobs` needs `DependencyRespected`.
* `Kept == Core /\ DependencyRespected /\ RetryBudget /\ KeyAdmitsOnce /\ ResultsOfEnded`
  is inductive (`NextKept`) and gives `RetriesAreBounded`, `DependenciesHold` and
  `KeysAdmitOnce`.
* `PromiseKept`: `JobStore` implements `Delivery`; `PromiseStep` matches each
  change with a step of the promise.
* `HistoryStaysFinal`: from the same changes, and `TimersStopped` for attempts.

### `HistoryProofs`

* `ResultsAreLastWords`: the job's final state, the outcome and body of its newest
  attempt and the row in results are tied together, on top of `Kept`: a result is
  written only with the end of the newest attempt, and after that no attempt of
  the job begins or ends.
* `QueueStaysBounded`, `RateStaysBounded`: the sets of active and of recent jobs
  are finite and within their limits (`Admitted`). Only an admission adds to
  either, one job and when there is room (`WithinLimit`): a job that waits for a
  retry has been active all along, and ages only grow.
* `EventsTellTheStory`: a transaction leaves a job's part of the log alone,
  appends the job's new status, or opens it (`LogStep`). A sweep appends for
  several jobs at once; its log is known only up to the order of the jobs, which
  is all a job's own part depends on.
* `EffectsHappenOnce`: an effect is counted just when its receipt exists
  (`SinkCounts`), committed executions have receipts, and what SUCCEEDED was
  committed (`Receipts`). The last is why a lost lease does no harm: the second
  execution finds the receipt of the first.

### `CoordinatorProofs`

* A worker's row is rewritten in the ways of `RowStep`; type, DrainHolds and
  VerdictsAreEarned together are inductive (`RegistryKept`) and give
  `RegistryTypeCorrect`, `DrainAlwaysHolds` and `VerdictsAlwaysEarned`;
  `IdsChangeHandsSafely` is read off the rewrites.
* `PartsCompose`: `CoordinatorSpec` implements `JobStore!Spec` and
  `WorkerRegistry!RegistrySpec`. Every theorem above carries over, and with
  `PromiseKept` the promise to clients holds of the whole
  (`CoordinatorKeepsPromise`).
* `Tracked`: a row describes the process of its session, each attempt fits the
  process that claimed it, and drains of the present session are on record. With
  `SlotExclusive`, attempts of one process have different slots below its
  capacity, so they are no more than its capacity: `PlacementAlwaysFits`.
  `DrainStopsWork` and `ReplacedProcessesAreFenced` need `DrainHolds` and the
  session check.

### `RowLocksProofs`

`LocksInv` is the locking discipline: a connection has nothing before its first
lock, jobs come last (who has one needs nothing more, or is the sweep, which
waits for none; `Orderly`), what a transaction has read it has locked until its
end (`Guarded`), the job a decision is about is as it was read (`Decided`), and
what the sweep's loop has looked at and keeps in `due` has a lease that is over
(`Rechecked`). From it: `DecisionsStand`; `NobodyWritesWhatOthersRead` (what is
written was read, hence locked by the writer alone); `NobodyWaitsInACircle` (in a
circle each has what another wants, so each waits for a job, but who has a job
waits for nothing); and `SweepsTakeOnlyLapsed`. The last needs that `Rechecked`
lasts from the recheck to the commit. Only a renewal or a new claim would break
it, each of which has locked the job it writes, and `Guarded` says the sweep has.

### `WorkerProcessProofs`

`WorkerInv` relates, for each slot, the coordinator's attempt, the consume loop
and the run of its task (`Grip`), and for the process, why a loop failed or was
cancelled (`Excuse`, `PoolState`, `GroupState`). `PoolHasRoom` needs the latter. A
loop that swallows a cancellation (the finding `worker_broken_pool`) goes back to
claiming while its callable still runs, and would give the pool one too many. But
loops are cancelled only because another process has taken the id, whose claims
are then refused, or because the pool is broken, which takes no callable.
`CleanExits` and `WorkAlwaysMatchesLease` follow from `Grip` and `GroupState`.

### `MigrationsProofs`

`Sane` says what tables of each version are like: from v0.1, where a job under way
is on its first attempt and alone with its worker, over the versions that count
and fence attempts, to the head, where drains are marked. It is a predicate of
tables, not of the state, because it must also hold of the tables that a command
under way would restore (`Undoable`). Each revision takes `Sane` tables of its
version to `Sane` tables of the next or refuses; that the downgrades refuse is
what makes `TriedOnce` true of v0.1 tables that have been at the head before.
`Undoable` also says that what would be restored is what the command found
(`tx.undo = tx.began`), through all its revisions: from this
`CommandsNeverStrand`, that a command ends at its target or with everything as it
was. `DrainAlwaysOutlivesUpgrade` covers both directions: DRAINING rows are
marked, and marked rows are DRAINING or DEAD.

### `DashboardProofs`

`DashboardInv`: busyGen is the present generation just while a refresh of the
present connection is in flight (`InFlight`), refreshes of a connection are never
two, and what is painted was painted in okGen (`Current`). So no second refresh
is sent (`RefreshesNeverOverlap`), and when the answer to one is not painted
because the filter has changed, its finally clause finds the page free and sends
another: this is why jobs of another filter are never left standing
(`ScreenStaysCurrent`). The bounds MaxGeneration and MaxCalls play no part.

### Only model-checked

* Liveness: AttemptEnds, BlockedChildEnds, EveryJobConcludes, SilenceIsNoticed,
  EndsWhenTold, OldWorkConcludes, ScreenCatchesUp. Fairness and ENABLED are out of
  this prover's reach.
* The findings: a counterexample is their proof.


## 5. Not modelled

* The order in which the scheduler policies pass over eligible jobs: SKIP LOCKED
  lets a claim take any of them, and no handler relies on the order.
* The request-bounds middleware: all its state is local to one request.
* Read-only routes, observability, the command line, HTTP statuses and validation
  of payloads: they change no table.
* Task bodies (pure computations), SQL literals, pool sizes, database roles,
  benchmarks and the scripts that drive a deployed system.
* The warm-up barrier of a process pool, which ends before the first claim.
* In `Dashboard`: which job the inspector shows when two clicks overtake each
  other, drawing, notices, keyboard focus.

## 6. Plan

Done: every component that keeps state of its own has its module, and every safety
property that a passing run checks is a theorem. What is left are links between
modules that are arguments in this text so far: that `held` in `WorkerProcess` is
what `Coordinator` shows a process, and that a behaviour of `RowLocks` commits only
transactions that `JobStore` has as actions.
