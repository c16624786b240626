# Formal models of JailBreak-Oracle

JailBreak-Oracle runs *campaigns*: adaptive series of attacks on a target model,
started through an HTTP API, executed by worker processes and paid for by the
token. This directory holds TLA+ models of what is hard to test in it: what
happens to a campaign, its rounds and its spend when several processes, crashes,
timeouts and retries meet in one database, and what the API promises to requests
that overlap.

Paths below are relative to `backend/app/` unless they say otherwise.

## 1. The system

| Component | State | Operations | Talks to |
|---|---|---|---|
| Job queue, `services/queue.py` | table `campaign_jobs` (`models/domain.py`): status, attempts, available_at, heartbeat_at | enqueue_campaign, claim_next_job, mark_job_completed, fail_job, touch_job, recover_stale_jobs | called by the API and the workers; PostgreSQL |
| Worker, `worker.py` | one job at a time, in memory | startup recovery, then claim / execute / settle for ever | queue, lease, orchestrator |
| Lease, `services/lease.py` | `experiments.status`, `claim_owner`, `lease_expires_at`, `heartbeat_at` | acquire, renew, release, owns_lease, clear_lease | called by the orchestrator |
| Campaign start, `api/routers/campaigns.py` | table `experiments` | start_campaign (insert, then enqueue); status, findings (read only) | orchestrator, queue |
| Orchestrator, `services/campaign.py` | rounds, strategy scores, spend; persisted as attacks, results, agent runs | run_attack_loop, run_campaign, resume from the persisted rounds, heartbeats | all services below |
| Budget, `services/budget.py` | token and cost tracker of a run | estimate, check, record around every call of a provider | orchestrator, adapters |
| Execution, evaluation, verification, mutation, conversation | rows of a round | one step of a round each | adapters, database |
| Memory, defender, report, metrics | embeddings, texts | search, aggregation | database |
| Rate limiter, `core/ratelimit.py`, `core/firestore_store.py` | counters of fixed windows | admit or refuse a request | API middleware |
| Users and roles, `api/routers/auth.py`, `core/auth.py` | table `users` | register, set_user_role | API |
| Targets, `services/targets.py`, `targets/*` | table `targets`, provider clients | create, edit, enable, delete; calls out | API, orchestrator |
| Migrations, benchmarks, scripts, frontend | - | - | - |

The parts interact through the database only. A request inserts a campaign
(PENDING) and a job (PENDING). A worker claims the job (RUNNING), then acquires
the campaign (RUNNING, with an owner token), runs its rounds, writes COMPLETED
or FAILED, releases the lease, and settles the job: COMPLETED, FAILED, or
PENDING again with a backoff, in which case the campaign is reset to PENDING
too. A worker that starts first *recovers*: it hands back RUNNING campaigns with
an old heartbeat, fails or re-queues PENDING ones by their age, and makes
RUNNING jobs with an old heartbeat PENDING.

### What is hard

* The two tables have their own statuses and heartbeats, written by separate
  transactions; every pair of them can be torn by a crash or an interleaving.
* Several writes are blind: a row is read (or not even that) and its status
  overwritten by primary key.
* A dead worker and a slow one look the same; only the heartbeat tells.
* Recovery runs once per process, at its start, and never again.
* Exceptions: any database call can raise, also in a `finally` clause after the
  work has succeeded.
* A round is many awaits. What the worker knew is lost with it; the next one
  rebuilds the round, the chain of turns and the scores from the rows.
* Some failures are swallowed on purpose: a verification that raises, a ledger
  that cannot be read or written.
* Handlers check in one session and write in another; limiters count in
  transactions that are retried.

### What makes each component correct

* *Queue*: one active job per campaign; a job has one worker; an attempt is
  handed out once; a finished job stays finished; retries are bounded; only the
  worker that holds a RUNNING row settles it.
* *Worker and lease*: one worker executes a campaign; whoever executes it owns
  the lease; COMPLETED is final; a campaign in the queue is finished in the end;
  the job rows tell how the campaigns ended; a crash loses nothing.
* *Orchestrator*: a resumed run repeats no executed attack and skips no round;
  the rounds, the chains of mutations and the conversation it replays are those
  the database holds; the mutations stay bounded; a run ends.
* *Verification, memory, reports*: what they read from the rows agrees, in every
  state the loop can leave behind.
* *Budget*: spend stays within the cap up to the error of one estimate, over all
  the runs of a campaign; the ledger tells what was spent.
* *Rate limiter*: both limiters grant what one atomic fixed window would.
* *Roles and targets*: an administrator remains; an update changes what it was
  asked to change; a deletion takes no campaign with it.

## 2. The modules

| Module | Contents |
|---|---|
| `JobQueue` | `campaign_jobs` and its operations, for arbitrary callers |
| `CampaignWorker` | EXTENDS `JobQueue`: worker process, lease, campaign rows, requests, faults, clock, fairness |
| `CampaignLifecycle` | what the workers promise for a campaign, abstractly |
| `JobQueue_proofs` | theorems about `JobQueue` |
| `CampaignWorker_proofs` | theorems about `CampaignWorker`, from those about the queue |
| `CampaignLifecycle_proofs` | `CampaignWorker` implements `CampaignLifecycle`; campaigns and jobs up to the first fault |
| `CampaignRounds` | `run_campaign`: the loop of rounds, its rows, and the resume |
| `CampaignReports` | EXTENDS `CampaignRounds`: what conversation, memory, report and analytics compute from the rows |
| `CampaignBudget` | tripwire, provider call, tracker and ledger over the runs of a campaign |
| `FixedWindow` | what a rate limiter promises, abstractly |
| `RateLimiter` | the middleware, the in-memory limiter and the Firestore one |
| `ApiHandlers` | users, roles, targets and campaign starts as overlapping requests |
| `CampaignRounds_proofs`, `CampaignBudget_proofs`, `RateLimiter_proofs`, `ApiHandlers_proofs` | theorems about them |
| `CampaignChains_proofs` | what the recursions over the rows compute; theorems about `CampaignRounds` and `CampaignReports` that depend on it |
| `MCJobQueue`, `MCCampaignWorker`, `MCCampaignRounds`, `MCRateLimiter`, `MCApiHandlers` | values and symmetry for TLC |

The models are composed where the parts share state that decides: the workers
run on the queue (`CampaignWorker` EXTENDS `JobQueue`), the readers on the rows
of the loop (`CampaignReports` EXTENDS `CampaignRounds`). `CampaignRounds` and
`CampaignBudget` open up the location `round` of `CampaignWorker`. Each takes
from the models around it only what they prove: one worker at a time executes a
campaign (`MutualExclusion`), it may die at any point, and the campaign may be
handed out again. What a call does to the budget is, to the loop, one of three
outcomes of the call: an answer, an error that is stored, or an exception.

### JobQueue

`jobs` is the table: a function from the keys a behaviour can use to rows, where
`"ABSENT"` is a key not inserted yet. `claim[w]` is the job object
`claim_next_job` returned to worker `w`. `enqueuing`, `failing` and `sweeping`
are open transactions: what a process has read and not yet written back.

* Operations that are one UPDATE, or that repeat their guard in the WHERE clause
  (`Claim`, `MarkJobCompleted`, `TouchJob`, `BumpJobHeartbeat`), are one action.
  `claim_next_job` locks its candidate (`FOR UPDATE SKIP LOCKED`) and repeats
  the status in the UPDATE: `Eligible` and `Oldest` are its SELECT, `Claimed`
  its UPDATE.
* Operations that SELECT and later write by primary key are two actions:
  `EnqueueSelect` / `EnqueueInsert`, `FailJobSelect` / `FailJobWrite`,
  `RecoverSelect` / `RecoverWrite`. The ORM writes only columns that differ from
  the value that was read; `FailedRow` says so.
* `Commit` is the partial unique index: a commit that would leave two active
  jobs of a campaign fails and changes nothing.
* `LeaveJob` is a process that dies, or an exception that unwinds the call.

*Time* is relative. A RUNNING row carries the age of its heartbeat, saturated
just past the timeout; a PENDING row carries `available_at - now`, saturated
just past due. `Tick` ages the rows. Nothing else of a timestamp is ever
compared, so no bound on time is needed. `quiet[w]` is not part of the program:
it counts the ticks since worker `w` claimed its job or began a round, and gives
`TimelyWorkers` its meaning.

Two constants say what is assumed of the environment:

* `TimelyWorkers`: a worker is never silent for longer than
  `CAMPAIGN_TIMEOUT_SECONDS` (3600 s) while it has a job. The code assumes this
  and does not enforce it: there is no timeout around a round. It is a guard on
  the clock (`OnTime`): time does not pass the moment at which a worker has to
  be heard.
* `ShortTransactions`: nobody acts between the SELECT and the commit of another
  process's transaction. The window is a few milliseconds; the runs and theorems
  that do not need the assumption do without it (`queue_any`).

### CampaignWorker

Every worker is a program counter over the database operations of
`worker_loop`:

```
down -> resume [-> resuming] -> pending [-> expiring] -> requeue -> jobs [-> sweeping]
     -> poll -> touch -> acquire -> start -> round ... -> release
                          |                                  |
                          +-> complete (SKIPPED)             +-> complete
                                                             +-> fail -> failing [-> reset]
                                                             +-> mark [-> marking] -> fail   (exception)
```

| Code | Actions |
|---|---|
| `start_campaign` | CreateCampaign, SubmitSelect, SubmitQueued, SubmitInsert, SubmitLost |
| `_resume_stale_running` | ResumeSelect, ResumeWrite |
| `recover_stale_campaigns` | PendingSelect, ExpireWrite, RequeueSelect, RequeueQueued, RequeueInsert, Requeued |
| `recover_stale_jobs` at startup | JobSweepSelect, JobSweepNothing, JobSweepWrite |
| `claim_next_job`, `_touch_heartbeat` | ClaimJob, TouchCampaign |
| `lease.acquire` / `release` | Acquire, Skip, Release |
| `run_campaign` | RunStart, RunRound, RunCompleted, RunFailed |
| `_mark_failed` | MarkSelect, MarkWrite |
| `execute_job` | SettleCompleted, SettleFailSelect, SettleRetry, SettleFailed |
| `_reset_experiment_for_retry` | ResetCampaign |
| process death, `worker_loop`'s `except`, exceptions of a run | Crash, Abandon, RunRaises |

Abstractions, each with its reason:

* What happens within a round is one choice: another round, completed, failed.
  A run failed by its budget and one failed by an exception end the same way.
* `lease_expires_at` is not modelled: three functions write it, none reads it.
  So `renew` has no effect that matters, and the owner token, fresh on every
  `acquire`, stands for the worker (RENEWED cannot occur).
* `_update_experiment_status` and `_touch_heartbeat` read a row and write one
  column of it: they are one action, because the value written does not depend
  on the value read. `_mark_failed`, whose guard does, is two.
* `_record_agent_run` and `_last_campaign_failure` leave no state the model
  has. If one of them raises it is `RunRaises` or `Abandon`.
* `MaxFaults` bounds crashes, errors and lost requests together. With
  `DbErrors = FALSE` only crashes and lost requests happen.
* `LateRestart` lets a worker start only when everything a dead worker left is
  past the timeout.
* With `TimelyWorkers`, `WorkersOnTime` asks for a startup recovery within a tick
  and for the reset of a campaign before the backoff of its job is over (30 s
  after `fail_job` returned, in the code).

### CampaignLifecycle

The abstract specification: a campaign has a phase and a set of executors. One
executor at a time; an execution ends in COMPLETED or FAILED, or is cut off;
only a campaign nobody executes is handed back, given up or retried; COMPLETED
is final. `CampaignWorker` maps the phase to `exps[e].status` and the executors
to `RunnersOf(e)`, the workers between `acquire` and the end of the run, and
`ImplementsLifecycle` checks that every step of queue, lease, recovery and
retry is a step of this specification or leaves its variables alone.

### CampaignRounds

One campaign, and the worker that happens to run it. An attack is its position
in the table `attacks` (what `created_at` sorts by), with its round, its parent,
the strategy name in its payload and its results; `findings` is the table of
vulnerabilities. `run` holds the locals of `run_campaign`, and is lost when the
worker dies. Each action ends at an `await` of the loop, so that a crash
(`Crash`) or an exception (`Raise`) can fall between any two of its writes. A run
begins only from PENDING, as `lease.acquire` asks; a campaign whose worker died is
RUNNING until the recovery at some worker's start hands it back (`HandBack`), which
nothing forces to happen.

```
idle -> round -> execute -> evaluate -> verify -> round
          |         ^          |
          |         +- mutate <+      resumed: round -> evaluate
          +-> COMPLETED          (give up, or a duplicate: mutate -> round)
```

| Code in `services/` | Definitions |
|---|---|
| `run_campaign`, `campaign.py` | Begin, Generate, ResumeRound, GiveUp, Finish, Raise |
| `_load_progress` | Chain, Resumable, StartingRound, TriedNames, Score |
| `_select_strategy` | Exploring, Selected |
| attacker agent, mutation engine | Insert, Mutate |
| `execution.py`, `evaluation.py` with its heuristics | Execute, Evaluate |
| `verification.py`, in the round and by request | Verify, Reverify |
| a retry of the job, the death of the worker, its recovery | Retry, Crash, HandBack |

* The verdicts of evaluator and verifier come from a model: they are free
  choices, but for the empty response, which is blocked without a call.
* A payload carries the strategy name the attacker model wrote. `MaxDrift` bounds
  how often it is not the one that was asked for.
* `stop_on_first_success` is False for every campaign that is built from its
  row. `MutationBudget` is a constant of its own: in the code it is half of
  `attack_budget`, which is also the number of rounds. Taken apart, a small
  instance has chains of mutations and few rounds, and the theorems hold for
  every pair.

### CampaignReports

What reads the rows: the messages that are replayed to the target
(`conversation.py`), the attacks memory may return (`memory.py`), the result of
an attack as the verifier, the listing and the detail page each pick it, and the
counts and rates of `report.py`, `metrics.py` and `benchmarks/metrics.py`. It has
no actions; its properties are checked in the states of the loop.

### CampaignBudget

A run calls its providers one at a time: `Call` is the tripwire (`check_allow`),
`Answer`, `Retry` and `Fail` are `litellm.py`, `OpenBody`, `Chunk` and
`EndOfBody` are `custom_http.py`, `Record` is the tracker, `Persist` the
best-effort write to the ledger, and `StartRun` seeds the tracker from the
ledger (`_load_campaign_spend`). `billed` is what the providers charge, the
answers included that nobody saw.

* `Overshoot` bounds how much more than its estimate a call may cost. The
  estimate of `estimate_call_cost` is called conservative by `budget.py`, and is
  not an upper bound; some bound on its error is the only assumption.
* `StartRun` answers zero when the read fails, as the code does. So a campaign may
  spend its cap again after each such failure, although `budget.py:93` says that
  enforcement never restarts at zero; `SpendBounded` counts these failures.
* The cap is `settings.MAX_CAMPAIGN_COST`: `_build_config` does not read the
  column `experiments.max_cost_usd` that is documented as the campaign's own cap.

### RateLimiter and FixedWindow

`Bucket`, `Client` and `Key` are `_classify` and `_client_ip`; `Dispatch` is the
middleware. The in-memory limiter checks in one step, since it does not await.
The Firestore one reads (`Read`), then commits if the document is unchanged
(`Commit`) or starts over (`TryAgain`); `Fail` is an outage, or an answer of a
commit that was lost. The transactions of the store are external and are taken
to be what `firestore_store.py` says of them. Every process reads one clock. A
trusted proxy is taken to set `X-Forwarded-For` itself: behind one that appends to
it, the first entry is still what the client has sent. The `Retry-After` header and
`reset`, which only the tests call, are left out.

`FixedWindow` is one atomic counter per client. The mapping forgets how far a
count in Firestore is past the limit: that limiter counts denied requests too,
the in-memory one does not.

### ApiHandlers

Handlers that read in one session and write in another. `req[r]` is what a
request has read. `created[r]` is history: the campaigns that were created since
the deletion `r` found that its target has none.

| Code | Actions |
|---|---|
| `register`, `set_user_role` (`routers/auth.py`) | Register, InsertUser, SetUserRole, LoadUser, SaveRole |
| `create_target`, `setup_demo_environment` | CreateTarget |
| `update_target`, `delete_target` (`services/targets.py`) | UpdateTarget, LoadTarget, SaveTarget; DeleteTarget, LoadCampaigns, SaveDelete |
| `start_campaign` and what it calls | StartCampaign, InitializeExperiment, Enqueue |
| a client that goes away, a process that dies | Drop |

The session writes only columns that changed (`Column`), and `config_json` is one
column: an update of any of its keys writes all of them as they were loaded
(`ConfigColumn`). It holds the key of the provider. A PATCH gives one as `api_key`,
which is stored encrypted and never compares equal to what was there
(`Encrypts`), or in `extra_config`, whose entries override any key of the column
and are stored as they come (`GivenKey`). The other options are one value, `note`.

The code has edges that the model follows: an empty `endpoint_url` counts as not
given where a PATCH is validated, and is then stored; a target that has campaigns
cannot be deleted, since detaching them violates a NOT NULL column. Outside of
the model, `has_api_key` in a response is always false, because `_config_for`
removes the key first.

What the properties say: `AdminRemains`, that the last administrator goes only by a
caller who has lost the role since he was let in; `UpdatesKept`, that each column
changes only to what the PATCH that commits gives for it, the key too, unless a
PATCH of another option puts back a key it has loaded; `CampaignsStay`, that a
deletion takes only campaigns created after it found none. Where they
stop short of what the documentation says, section 3 says how.

## 3. What is checked

### Queue and workers

Instances: `Timeout = Backoff = 1` tick, `MaxAttempts = 2`, `Grace = 0`
ticks, two workers, one API request. With ages saturating at 2, a tick tells
"fresh", "exactly at the timeout" and "stale" apart, which is all the code
compares. Two attempts are the least that have a retry and an exhausted job.
Two workers are the least that race; a third adds no new pair of operations,
since no operation involves more than its worker and the rows. One campaign
suffices where a property is about one campaign, and the worker touches one
campaign at a time; `queue_timely` has two. Three keys let a campaign have a
finished job, an active one and a refused one at the same time; the runs with
several faults have four. `ClaimBound` caps how often one row is claimed; it is
reached only through sweeps.

| Run | Configuration | Shows |
|---|---|---|
| `queue_any` | no assumption on time or transactions | `OneActiveJob`, `ClaimsDistinct`, `RevivalsExplained` |
| `queue_timely` | workers on time, short transactions, two campaigns | `ExclusiveJob`, `ClaimIsCurrent`, `TerminalJobsStay`, `RetriesBounded` |
| `worker_timely` | three faults of any kind | `MutualExclusion`, `RunnerOwnsLease`, `FinishedByRunner` |
| `worker_crashes` | two crashes or lost requests | `ImplementsLifecycle`; up to the first fault also `NoOrphans`, `JobsTellTheTruth` |
| `worker_late` | fairness, at most one fault, late restart | `QueuedCampaignsEnd`, with and without a crash |

*Fairness* (`FairSpec`): time passes; a request and a worker that can take their
next step take it; a process that is down is started again (the compose file
says `restart: unless-stopped`); and a run ends, because `run_campaign` is a
`for` loop over at most `attack_budget` rounds. Faults are never fair. All of it
is weak fairness: each step stays enabled until it is taken, since a worker has
one next step and other processes' transactions end.

### Rounds, readers, budget, limiter, handlers

| Run | Instance | States | Shows |
|---|---|---|---|
| `rounds` | two strategies, one of them mutable; two rounds, two mutations per run, two runs, one drifted payload | 523,000 | see below |
| `budget` | cap 3, estimates 1 and 2, overshoot 1, one retry, a body of two bytes, three runs, one failed read and one lost charge | 96,000 | `SpendBounded`, `LedgerTellsTheSpend`, `AnswersAreWhole`, `CallsSettle` |
| `limiter` | four requests, both backends, limit 2, window 2, one retry, clock up to 5 | 679,000 | `ImplementsWindow`, `IntervalBound`, `DeniedOnlyWhenFull` |
| `handlers` | two requests at a time, two users, one target, one campaign, six bodies of PATCH | 1,173,000 | `AdminRemains`, `UpdatesKept`, `CampaignsStay` |

What `rounds` checks:

* *Resume.* `RoundsContiguous`, `ExecutedOnce`, `OneFindingPerRound`,
  `ChainsLinear`, `RoundsNeverReopen`, `CompletedAllRounds`: wherever workers die,
  the rows look as if one worker had gone through the rounds, but for what was in
  flight. `CompletedAllRounds` says what that is when the campaign is over: an
  attack without a verdict had no answer, or a strategy that does not evolve, or
  closed a chain at its cap, so that no run could go on from it.
* *Bounds.* `MutationsBounded` and `ChainsBounded`: the counter of mutations
  restarts with each run, so the caps are per run and, by the length of the chain,
  twice the cap per round. `LostBounded`: an interrupted run loses one verdict.
* *Partial failure.* `UnconfirmedExplained`: a finding without a verdict of the
  verifier is due to a verification that raised, or to an interrupted run.
* *Choice.* `ExploresFirst`: no strategy is repeated before each was tried, also
  over a resume, as long as no payload drifts.
* *Readers.* `TranscriptComplete`,
  `FindingsHaveEvidence`, `ReportAgreesWithMetrics`.
* *Liveness.* `RunEnds`: a run of the loop comes to its end, unless its worker dies.

Why these bounds are enough. *Rounds*: two rounds have an earlier and a later
one; two mutations are the least with which a chain has a middle, and with two
runs the least with which a chain that a run leaves can be continued beyond the
cap of one run; two runs have a run before and a run after an interruption, and a
retry; of two strategies one can be exploited while the other is untried. *Budget*:
three runs allow a fault between two runs that spend, with a cap that takes more
than one call. *Limiter*: the boundary needs three grants in an interval, and a
fourth request to be denied; window 2 has an inside, and the clock passes two
boundaries. `MaxClock` leaves room for both. *Handlers*: no handler reads more than
one row that another changes, so two requests in flight meet every pair of
transactions; requests begin again, so sequences are not bounded by two.

*Fairness*. `RoundsFairSpec` is weak fairness of the steps of a worker that lives,
each of which awaits calls with timeouts, and of nothing else. Whether a campaign
is begun, retried or handed back is not assumed: after a crash it may stay RUNNING
for ever, as `worker_crash_lost` shows, and that it ends under fair workers and a
late restart is `QueuedCampaignsEnd`.
`BudgetFairSpec` is weak fairness of the steps within a call: every request has
a timeout, in `litellm.py` and `custom_http.py` alike.

Symmetry is used over campaigns, keys, workers and requests, and in no run that
checks a leads-to or an eventuality. These runs have `CHECK_DEADLOCK FALSE`: a
campaign is finished for good, and runs, ticks and requests are bounded.

The type invariants of the modules, except for `RoundsTypeOK`, are proved and not
repeated in a run. So are `CompletedStays`, which `ImplementsLifecycle` implies,
and `PriorLinesFromEarlierRounds` (what a mutation learns from comes from earlier
rounds), which the end of a round with its first success implies.

### Where the code and its documentation disagree

Each of these runs checks one sentence of the repository and TLC refutes it.

| Run | Says | Does |
|---|---|---|
| `worker_two_runners` | "never execute the same campaign concurrently" (`worker.py:19`) | true for workers on time; a round longer than the timeout breaks it, and nothing asks `owns_lease` |
| `worker_crash_lost` | "A worker crash cannot lose a job ... next worker startup" (`worker.py:14`) | a restart within the timeout finds nothing stale, and nothing looks again |
| `worker_retry_lost` | "Failed jobs retry with backoff up to `CAMPAIGN_JOB_MAX_ATTEMPTS`" (`worker.py:17`) | another worker's startup fails the campaign while it waits for its retry |

The first needs a worker that is silent past the timeout, the second one crash;
the last needs no fault at all, only the start of a second worker.

In other places the code falls short of its documentation in one way that a
property names as its exception, and keeps it otherwise:

| Sentence | Exception | Property |
|---|---|---|
| "terminal statuses never re-run" (`models/domain.py:313`) | `fail_job` has no guard on the status: a worker that took over the job of a slow one fails, and puts what the slow one has completed back into the queue; so does a recovery that read the row before | `RevivalsExplained` |
| "so budget enforcement never restarts at zero" (`services/budget.py:93`) | a ledger read that fails counts as no spend (`services/campaign.py:866`) | `SpendBounded` |
| "so the last admin cannot lock everyone out" (`docs/AUDIT.md:303`, from the root) | two administrators who demote each other at once are both let in | `AdminRemains` |
| "Leave NULL to keep the existing (encrypted) key" (`schemas/target.py:71`) | a PATCH of another option that overlaps puts the old key back; an entry of `extra_config` replaces or erases it in a single request | `UpdatesKept` |
| "Keeps reports and status deterministic even after the target is later edited or deleted" (`models/domain.py:111`) | a campaign that is created while its target is deleted is deleted with it | `CampaignsStay` |

Seen besides: a custom_http target can lose its endpoint, although they "require an
endpoint_url" (`services/targets.py:43`); and SKIPPED is taken to mean that
"another owner already finished the campaign" (`worker.py:126`), and is also the
answer when the campaign is RUNNING under a dead owner.

## 4. What is proved

The theorems hold for every value of the constants: any number of campaigns,
keys, workers and requests, any timeout, backoff, number of attempts and of
faults. They rest on `QueueConstants` and `WorkerConstants` alone, unless the
table names more. *On time* stands for `TimelyWorkers` and `ShortTransactions`.
Every invariant and every action property of a passing run is a theorem.

| Theorem | States | Assumes |
|---|---|---|
| `QueueTypeCorrect` | `QueueSpec => []TypeOK` | |
| `OneActiveJobHolds` | `QueueSpec => []OneActiveJob` | |
| `ClaimsDistinctHolds` | `QueueSpec => []ClaimsDistinct` | |
| `RevivalsExplainedHolds` | `QueueSpec => RevivalsExplained` | |
| `ExclusiveJobHolds` | `QueueSpec => []ExclusiveJob` | on time |
| `ClaimIsCurrentHolds` | `QueueSpec => []ClaimIsCurrent` | on time |
| `TerminalJobsStayHolds` | `QueueSpec => TerminalJobsStay` | on time |
| `RetriesBoundedHolds` | `QueueSpec => RetriesBounded` | on time |
| `WorkersUseQueue` | `Spec => QueueSpec` | |
| `WorkerTypeCorrect` | `Spec => []WorkerTypeOK` | |
| `WorkersExclusive` | `Spec => []ExclusiveJob` | on time |
| `RunnerOwnsLeaseHolds` | `Spec => []RunnerOwnsLease` | on time |
| `MutualExclusionHolds` | `Spec => []MutualExclusion` | on time |
| `FinishedByRunnerHolds` | `Spec => FinishedByRunner` | on time |
| `ImplementsLifecycleHolds` | `Spec => ImplementsLifecycle` | on time, no database errors |
| `CompletedStaysHolds` | `Spec => CompletedStays` | on time, no database errors |
| `NoOrphansHolds` | `Spec => []NoOrphans` | on time |
| `JobsTellTheTruthHolds` | `Spec => []JobsTellTheTruth` | on time |

The assumptions are needed. `worker_two_runners` refutes `MutualExclusion` without
*on time*. A worker that is silent past the timeout also breaks
`TerminalJobsStay`; `RevivalsExplained` says how far. And with database errors `CompletedStays` does not hold:
an exception from `release` makes the retry put a COMPLETED campaign back to
PENDING.

**The queue** (`JobQueue_proofs`). *One active job* is inductive together with
the types: operations that activate a row go through `Commit`, the others
activate none.

*Distinct claims* are not inductive: a worker could hold an attempt the row has
yet to reach. `ClaimsCounted` excludes it (the attempts of a row are at least those
of any claim on it), and rests on `AttemptsStay`: nothing but a claim changes
the attempts.

*Revivals* follow from `FirstClaims`: a worker whose row has been claimed once holds
the only claim on it (`OneFirstClaim`), so nobody else has ended the job, and its
own `fail_job` finds the row active.

The four theorems about workers on time share `TimelyInv`. That two workers
do not share a job depends on why a sweep never takes the job of a live worker,
so the invariant says that the row of a held job is RUNNING under the claimed
attempt and its heartbeat is no older than its worker has been silent
(`HeldRow`); hence it is never stale (`HeldIsFresh`). Between SELECT and commit,
what `fail_job` has read is still in the row (`FailingRow`), what a sweep has
found is still stale and the sweeper holds nothing (`SweptRows`), and at most
one transaction is open (`OneTransaction`). There is one lemma per operation.

**The workers** (`CampaignWorker_proofs`). The first theorem is
`WorkersUseQueue`: each step of a request, a worker, a fault or the clock is a
step of `QueueNext` or leaves the queue alone, so `TimelyInv` and `OneActiveJob`
are invariants of the workers too. On top of them, `WorkerInv` says of each worker
(`InOrder`):

* it is between claim and settlement exactly when it holds a job, and that job
  is one of the campaign it is busy with (`BusyWithJob`);
* while it has to reset a campaign, a PENDING job of that campaign is not due
  (`WaitsForReset`), so nobody can begin the retry;
* the row of the campaign it executes is RUNNING, carries its token, and has a
  heartbeat no older than its silence (`RunnerRow`), so it is never stale;
* what its recovery has read is so until it writes (`ReadByRecovery`).

The argument: two workers busy with one campaign would hold active jobs of that
campaign, hence by the unique index one job, hence by `ExclusiveJob` they are
one worker (`BusyApart`); the same index separates a worker that resets a campaign
from one that is busy with it (`ResetApart`). So every write to a campaign is
by the worker that is busy with it, or by a recovery whose row is stale or
PENDING and thus nobody's (`ForeignRow`, `OthersKeepRow`). The lease itself
decides nothing in this argument: exclusion comes from the queue, and the
lease agrees with it.

**The life cycle** (`CampaignLifecycle_proofs`). The initial state maps to the
initial state and each action to a step or a stutter: `Acquire` to `Begin`,
`RunCompleted` and `RunFailed` to `End`, a crash in a run to `CutOff`,
`ResumeWrite` to `HandBack`, `ExpireWrite` to `GiveUp`, `ResetCampaign` to
`Retry`, `CreateCampaign` to `Create`. `Retry` needs that a campaign to be reset
is FAILED, not COMPLETED. That is `EndInv`: the end of a run is in the table
before the lease is released and stays there until the job is settled, which is
what an exception from `release` breaks. `CompletedStays` follows, since no step
of the abstract specification leaves COMPLETED.

**Up to the first fault** (also in `CampaignLifecycle_proofs`). `NoOrphans` and
`JobsTellTheTruth` say something of the states with `faults = 0`, and what is
needed in them is `Calm`; the inductive invariant is `faults = 0 => Calm`, since no
step takes a fault back (`FaultsCounted`). `Calm` ties the two tables to the
program counters:

* a RUNNING campaign has a worker that executes it (`Executed`), a RUNNING job a
  worker that holds it (`Claimant`), so that neither is ever left behind;
* a PENDING campaign has an active job, or a request, a retry or a recovery is on
  its way to insert one (`Waited`, `Calls`): this is the part that a step between
  the write to one table and the write to the other could break;
* a worker settles a job as completed only after its campaign is finished (`Ended`),
  a settled job has a finished campaign, and nobody is left who would write it
  again (`Settled`); a failed one has used up its attempts (`Tries`);
* a row, a call or a recovery is about a campaign that exists (`KnownCampaigns`), and
  a worker that has failed finds its campaign FAILED (`EndInv`).

That a settled campaign is not written again needs `BusyApart` and `ResetApart`,
hence *on time*. The proof says once what a step does to one row of each table
(`JobMoves`, `CampaignMoves`) and then goes through the conjuncts, not through the
actions. No worker recovers anything here that was stuck (`NothingStale`): without
a fault no heartbeat is old.

`TimelyInv`, `WorkerInv`, `EndInv` and `Calm` were checked with TLC, on the instances
of `queue_timely`, `worker_timely` and `worker_crashes` and, for `Calm`, two
campaigns and three workers, before they were proved.

**The rounds** (`CampaignRounds_proofs`). The theorems hold for any strategies and
any number of rounds, mutations and runs.

| Theorem | States |
|---|---|
| `ExecutedOnceHolds` | `RoundsFairSpec => []ExecutedOnce` |
| `RoundsNeverReopenHolds` | `RoundsFairSpec => RoundsNeverReopen` |
| `MutationsBoundedHolds` | `RoundsFairSpec => []MutationsBounded` |
| `LostBoundedHolds` | `RoundsFairSpec => []LostBounded` |

None is inductive. `LoopInv` orders the table (`Sorted`: rounds never decrease
along it), places a run in the round of the last row or the one after
(`InRound`), and says that what is about to be sent has no result yet
(`Unsent`). That a resumed attack is graded and not sent again is what makes
`Unsent` hold. `MutationsInv` and `LostInv` then count rows at every point of a
run. These theorems hold whichever attack a resumed run continues.

**The chains and their readers** (`CampaignChains_proofs`). Which attack is
continued is computed by following the mutations of a round, and what the target
is sent by following them back: recursions, of which the prover knows only the
equation. The assumption `RoundsConstants` adds that `StrategyOrder` lists each
strategy once, as the keys of the registry's dictionary do.

| Theorem | States |
|---|---|
| `RoundsTypesHold` | `RoundsFairSpec => []RoundsTypeOK` |
| `RoundsContiguousHolds` | `RoundsFairSpec => []RoundsContiguous` |
| `OneFindingPerRoundHolds` | `RoundsFairSpec => []OneFindingPerRound` |
| `ChainsLinearHolds` | `RoundsFairSpec => []ChainsLinear` |
| `ChainsBoundedHolds` | `RoundsFairSpec => []ChainsBounded` |
| `UnconfirmedExplainedHolds` | `RoundsFairSpec => []UnconfirmedExplained` |
| `ExploresFirstHolds` | `RoundsFairSpec => []ExploresFirst` |
| `CompletedAllRoundsHolds` | `RoundsFairSpec => []CompletedAllRounds` |
| `TranscriptCompleteHolds` | `RoundsFairSpec => []TranscriptComplete` |
| `PriorLinesFromEarlierRoundsHolds` | `RoundsFairSpec => []PriorLinesFromEarlierRounds` |
| `FindingsHaveEvidenceHolds` | `RoundsFairSpec => []FindingsHaveEvidence` |
| `ReportAgreesWithMetricsHolds` | `RoundsFairSpec => []ReportAgreesWithMetrics` |

The core is `Lines`: a plan opens the next round, and every other row is a turn,
mutated from the row before it. A round is then an interval of the table
(`Blocks`), and the recursions have a closed form: `Chain` goes to the end of the
round (`ChainIsLine`), `Lineage` back to its beginning (`LineageIs`). That the
closed form satisfies the equation is one lemma; that nothing else does is
another, by the least or greatest row where two solutions differ. The concatenation
of `TargetMessages` (`FlatExists`, `TargetMessagesTell`) and the sums of the report
(`SumsCount`, `SumsUnique`, `ColumnTotal`) are computed in the same way: a column
whose entries count the parts of a set sums to the size of the set.

`Lines` and the resume depend on each other: a run keeps the lines because it
goes on with the last row or opens the round after it, and `_load_progress` finds
the last row because the table has lines (`Resumes`). `ChainInv` adds who may be
mutated (`TurnsInv`: answered, graded, not found), that findings are about
answered rows and no two about one (`FindingsInv`), and at which row the run is
(`Here`). On top of it `SizesInv` counts the rows of a round against the attempts
of the run, `UnconfirmedInv` the findings without a verdict against the
verifications that raised and the runs that were cut off, and `TriedInv` the
strategies tried against the rounds. `GradedInv` says of every attack without a
verdict that a run is about to grade it (`Awaiting`), or that `_load_progress`
refuses to go on from it, now and later: the rows it looks at are closed by the next
round (`NotResumed`).

**The budget** (`CampaignBudget_proofs`). For any cap, prices, limits and number of
runs and faults: `BudgetTypeCorrect`, `AnswersAreWholeHolds`,
`LedgerTellsTheSpendHolds`, `SpendBoundedHolds`. The bound on the spend says
nothing of what the tracker believes, so the invariant `Sums` relates the three
sums: what was admitted still fits (`Admitted`); the tracker covers the ledger but
for one cap per failed read (`RunAccounts`); the ledger stays below a cap for
each (`Accounts`); and what was billed exceeds the ledger by one cap per lost
charge. `BodyWhole` says that a body that is still read is not cut.

**The limiter** (`RateLimiter_proofs`). `LimiterTypeCorrect`, and
`ImplementsWindowHolds`: `LimiterSpec => ImplementsWindow`, for any requests,
clients, limits and window. A transaction commits only what it computed from the
document that is still there, so its commit is the step of the atomic window. The
invariant `Served` adds that a request in a transaction is counted and was told
nothing.

`IntervalBoundHolds` and `DeniedOnlyWhenFullHolds` count requests over time. Both
are about finite sets although `Requests` may be infinite (`Started`: finitely
many have begun). Each document is related to the requests it has counted
(`TimesInv`, `CountFits`, `GrantsFit`). That no interval of a window's length sees
twice the limit granted is not inductive. `GrantsFit` is: a window that has been
opened was opened by a request on its first tick, so that an interval which
reaches into the next window has one slot less of this one. A denial, in turn, was
computed from a document that was full at that time, whether or not its
transaction committed (`DenialsInv`).

**The handlers** (`ApiHandlers_proofs`). `HandlersTypeCorrect`, and the action
properties `AdminRemainsHolds`, `UpdatesKeptHolds`, `CampaignsStayHolds`, for any
requests, users, campaigns and bodies. One invariant carries all of them
(`LocalInv`): a caller who changes a role does not demote himself, and a deletion
that is about to commit has in `created` every campaign its target has by then. A
step of one request keeps it for the others.

**Only model-checked**: liveness (`QueuedCampaignsEnd`, `RunEnds`,
`CallsSettle`), since fairness and ENABLED are out of the prover's reach. The
library's induction theorems are too, because they take an operator as a
parameter; the inductions over data above go by the least counterexample instead
(`LeastPosition`). `SelectSeq` and `SortSeq` are opaque to the prover, so no
definition uses them.

## 5. Not modelled

* *Wording.* Prompt templates, payloads, remediation texts, the defender and its
  fallback, the mock providers (`targets/mock.py`): text, of which the loop tells
  apart only what the models have.
* *Numbers.* Prices per model, risk weights, embeddings and the ranking of
  memory: the models take any price and any order. The aggregation of reports
  over projects is a sum over campaigns.
* *Verdicts.* What evaluator and verifier models answer is a free choice. The
  verification of blocked turns writes nothing and only words the next prompt.
* *Telemetry.* `_record_agent_run` and the log.
* *Libraries.* Hashing, tokens, Firebase, SQLAlchemy, the HTTP clients; the host
  check of `custom_http.py` is about addresses and DNS.
* *Lease expiry.* `renew` and `lease_expires_at`: nothing reads the expiry.
  `owns_lease` and `clear_lease` have no caller.
* *Set-up.* Configuration and its validation, secrets, sessions, migrations.
  The unique indexes and foreign keys decide in `JobQueue` and `ApiHandlers`.
* *Endpoints that only read*, the frontend, benchmarks and scripts.

Hazards without a property. No stored state tells two of them: a report reads
attacks and findings in two SELECTs (`services/report.py:92`), so that one of a running
campaign may be torn; and each attack reads the row of its target anew
(`services/execution.py:51`), so that a PATCH during a campaign changes what the later
rounds attack. Four are followed by the model and not claimed to be harmless: an
exception from `release` (section 4); the empty endpoint (section 2); a campaign whose request died before it was
queued, which only a restart in the right window picks up (`campaigns.py:502`); and a
heartbeat that a refused worker refreshes (`worker.py:195`), which can hide a dead
owner from the one recovery that looks. `RetriesBounded` describes and does not
exclude that recoveries readmit a job past its attempts, and the order of exploration
is claimed only while no payload drifts from the strategy it was asked for.
