------------------------------ MODULE JobQueue ------------------------------
(***************************************************************************)
(* The durable campaign queue of backend/app/services/queue.py: the table  *)
(* campaign_jobs (models/domain.py, CampaignJob) and the operations on it. *)
(*                                                                         *)
(* PostgreSQL runs the transactions at READ COMMITTED.  An operation that  *)
(* is one statement, or whose guard is repeated in the WHERE clause of its *)
(* UPDATE, is one action.  An operation that SELECTs rows and later writes *)
(* them back by primary key is two actions (Select and Write), and other   *)
(* processes may act in between: enqueue_campaign, fail_job and            *)
(* recover_stale_jobs.                                                     *)
(*                                                                         *)
(* Time is relative: a RUNNING row has the age of its heartbeat, a PENDING *)
(* row the time left until available_at.  Both saturate where the code no  *)
(* longer tells the values apart, so that time itself needs no bound.      *)
(***************************************************************************)
EXTENDS Integers, FiniteSets

CONSTANTS
  Experiments,        \* campaigns, the rows that jobs refer to
  NoExperiment,       \* the null reference
  JobIds,             \* primary keys of campaign_jobs, all a behaviour can use
  NoJob,              \* no row
  Callers,            \* processes that enqueue: API requests and workers
  Workers,            \* worker processes
  MaxAttempts,        \* CAMPAIGN_JOB_MAX_ATTEMPTS
  Timeout,            \* CAMPAIGN_TIMEOUT_SECONDS, in ticks
  Backoff,            \* CAMPAIGN_JOB_RETRY_BACKOFF_SECONDS, in ticks
  ClaimBound,         \* bound of the model: how often one row may be claimed
  TimelyWorkers,      \* BOOLEAN: a worker is never quiet for the timeout
  ShortTransactions   \* BOOLEAN: nobody acts between a Select and its Write

ASSUME QueueConstants ==
  /\ Workers \subseteq Callers
  /\ NoExperiment \notin Experiments
  /\ NoJob \notin JobIds
  /\ MaxAttempts \in Nat \ {0}
  /\ Timeout \in Nat \ {0}
  /\ Backoff \in Nat \ {0}
  /\ ClaimBound \in Nat
  /\ TimelyWorkers \in BOOLEAN
  /\ ShortTransactions \in BOOLEAN

VARIABLES
  jobs,       \* the table campaign_jobs
  claim,      \* the job a worker is executing, with the attempt it claimed
  enqueuing,  \* enqueue_campaign calls that found no active job
  failing,    \* what a fail_job call has read of the row it will write
  sweeping,   \* the rows a recover_stale_jobs call has found stale
  quiet       \* ticks since a worker with a job has claimed it or begun a
              \* round: what TimelyWorkers is about, unknown to the program

queueVars == <<jobs, claim, enqueuing, failing, sweeping, quiet>>
-----------------------------------------------------------------------------
(***************************************************************************)
(* Rows.  "ABSENT" stands for a key that is not in the table yet.          *)
(***************************************************************************)
ActiveStatus   == {"PENDING", "RUNNING"}
TerminalStatus == {"COMPLETED", "FAILED"}
JobStatus      == ActiveStatus \cup TerminalStatus

\* heartbeat: age of heartbeat_at; Timeout + 1 is any age past the timeout,
\*            and NULL, which the sweep treats the same way.
\* due:       available_at minus now; -1 is any moment before the last tick.
Row == [exp       : Experiments \cup {NoExperiment},
        status    : JobStatus \cup {"ABSENT"},
        attempts  : Nat,
        heartbeat : 0 .. Timeout + 1,
        due       : Int]

NoRow == [exp |-> NoExperiment, status |-> "ABSENT", attempts |-> 0,
          heartbeat |-> 0, due |-> 0]

NewRow(e) == [exp |-> e, status |-> "PENDING", attempts |-> 0,
              heartbeat |-> Timeout + 1, due |-> 0]

NoClaim == [job |-> NoJob, attempt |-> 0]
NotRead == [status |-> "ABSENT", attempts |-> 0]

TypeOK ==
  /\ jobs \in [JobIds -> Row]
  /\ claim \in [Workers -> [job : JobIds \cup {NoJob}, attempt : Nat]]
  /\ enqueuing \in [Callers -> Experiments \cup {NoExperiment}]
  /\ failing \in [Workers -> [status : JobStatus \cup {"ABSENT"}, attempts : Nat]]
  /\ sweeping \in [Workers -> SUBSET JobIds]
  /\ quiet \in [Workers -> 0 .. Timeout]

ActiveJobs(table, e) ==
  {j \in JobIds : table[j].exp = e /\ table[j].status \in ActiveStatus}

\* uq_campaign_jobs_active_experiment, the partial unique index.
UniqueActive(table) ==
  \A i, j \in JobIds :
    /\ table[i].status \in ActiveStatus
    /\ table[j].status \in ActiveStatus
    /\ table[i].exp = table[j].exp
    => i = j

\* Mutant of Commit: the table has no unique index.
Commit_NoIndex(table) == jobs' = table

\* A commit the index rejects raises IntegrityError and changes nothing.
Commit(table) == jobs' = IF UniqueActive(table) THEN table ELSE jobs

Holds(w)         == claim[w].job # NoJob
InTransaction(w) == failing[w] # NotRead \/ sweeping[w] # {}

\* No other process is between its Select and its Write.
Undisturbed(c) ==
  ShortTransactions => \A v \in Workers \ {c} : ~InTransaction(v)
-----------------------------------------------------------------------------
QueueInit ==
  /\ jobs = [j \in JobIds |-> NoRow]
  /\ claim = [w \in Workers |-> NoClaim]
  /\ enqueuing = [c \in Callers |-> NoExperiment]
  /\ failing = [w \in Workers |-> NotRead]
  /\ sweeping = [w \in Workers |-> {}]
  /\ quiet = [w \in Workers |-> 0]

\* The worker starts a job, begins a round of it, or is done with it.
Heard(w) == quiet' = [quiet EXCEPT ![w] = 0]

\* enqueue_campaign, when its SELECT finds no active job.  When it finds one
\* the call returns True and nothing has changed.
EnqueueSelect(c, e) ==
  /\ enqueuing[c] = NoExperiment
  /\ ActiveJobs(jobs, e) = {}
  /\ enqueuing' = [enqueuing EXCEPT ![c] = e]
  /\ UNCHANGED <<jobs, claim, failing, sweeping, quiet>>

\* enqueue_campaign, its INSERT.  A concurrent call may have inserted its row
\* since the SELECT; the index then refuses this one, which is rolled back.
EnqueueInsert(c, j) ==
  /\ enqueuing[c] # NoExperiment
  /\ jobs[j] = NoRow
  /\ Commit([jobs EXCEPT ![j] = NewRow(enqueuing[c])])
  /\ enqueuing' = [enqueuing EXCEPT ![c] = NoExperiment]
  /\ UNCHANGED <<claim, failing, sweeping, quiet>>

\* Mutant of Eligible: failed jobs are claimed again.
Eligible_Failed ==
  {j \in JobIds : jobs[j].status \in {"PENDING", "FAILED"} /\ jobs[j].due <= 0}

\* The rows claim_next_job may lock, and those first in its ORDER BY.  Rows
\* with the same due are ordered by created_at and id: any of them is taken.
Eligible == {j \in JobIds : jobs[j].status = "PENDING" /\ jobs[j].due <= 0}
Oldest   == {j \in Eligible : \A k \in Eligible : jobs[j].due <= jobs[k].due}

\* Mutant of Claimed: the attempt is not counted.
Claimed_NoCount(table, j) ==
  [table EXCEPT ![j].status = "RUNNING", ![j].heartbeat = 0]

\* Mutant of Claimed: the row keeps the heartbeat of its last worker.
Claimed_NoHeartbeat(table, j) ==
  [table EXCEPT ![j].status = "RUNNING", ![j].attempts = @ + 1]

\* The UPDATE of claim_next_job.
Claimed(table, j) ==
  [table EXCEPT ![j].status    = "RUNNING",
                ![j].attempts  = @ + 1,
                ![j].heartbeat = 0]

Claim(w, j) ==
  /\ ~Holds(w) /\ ~InTransaction(w) /\ enqueuing[w] = NoExperiment
  /\ j \in Oldest
  /\ jobs[j].attempts < ClaimBound
  /\ jobs' = Claimed(jobs, j)
  /\ claim' = [claim EXCEPT ![w] = [job     |-> j,
                                   attempt |-> Claimed(jobs, j)[j].attempts]]
  /\ Heard(w)
  /\ UNCHANGED <<enqueuing, failing, sweeping>>

\* mark_job_completed: a compare-and-swap on the status alone.
MarkJobCompleted(w) ==
  LET j == claim[w].job IN
  /\ Holds(w) /\ ~InTransaction(w)
  /\ jobs' = IF jobs[j].status = "RUNNING"
             THEN [jobs EXCEPT ![j].status = "COMPLETED", ![j].heartbeat = 0]
             ELSE jobs
  /\ claim' = [claim EXCEPT ![w] = NoClaim]
  /\ Heard(w)
  /\ UNCHANGED <<enqueuing, failing, sweeping>>

\* fail_job, its SELECT.
FailJobSelect(w) ==
  LET row == jobs[claim[w].job] IN
  /\ Holds(w) /\ ~InTransaction(w)
  /\ failing' = [failing EXCEPT ![w] = [status   |-> row.status,
                                        attempts |-> row.attempts]]
  /\ UNCHANGED <<jobs, claim, enqueuing, sweeping, quiet>>

\* Mutant of Retryable: the caller ignores what fail_job returns.
Retryable_Always(w) == TRUE

\* What fail_job returns, by the row it has read.
Retryable(w) == failing[w].attempts < MaxAttempts

\* Mutant of FailedRow: one retry too many.
FailedRow_OneMore(row, seen) ==
  IF seen.attempts <= MaxAttempts
  THEN [row EXCEPT !.status = "PENDING", !.heartbeat = 0, !.due = Backoff * seen.attempts]
  ELSE [row EXCEPT !.status = "FAILED", !.heartbeat = 0]

\* The row fail_job leaves.  There is no guard on the status, and the ORM
\* writes a column only when it differs from the value that was read.
FailedRow(row, seen) ==
  IF seen.attempts < MaxAttempts
  THEN [row EXCEPT !.status    = IF seen.status = "PENDING" THEN @ ELSE "PENDING",
                   !.heartbeat = 0,
                   !.due       = Backoff * seen.attempts]
  ELSE [row EXCEPT !.status    = IF seen.status = "FAILED" THEN @ ELSE "FAILED",
                   !.heartbeat = 0]

FailedTable(w) ==
  [jobs EXCEPT ![claim[w].job] = FailedRow(@, failing[w])]

\* fail_job, its commit.
FailJobWrite(w) ==
  /\ Holds(w) /\ failing[w] # NotRead
  /\ Commit(FailedTable(w))
  /\ failing' = [failing EXCEPT ![w] = NotRead]
  /\ claim' = [claim EXCEPT ![w] = NoClaim]
  /\ Heard(w)
  /\ UNCHANGED <<enqueuing, sweeping>>

Beaten(table, running) ==
  [j \in JobIds |-> IF j \in running THEN [table[j] EXCEPT !.heartbeat = 0]
                                     ELSE table[j]]

\* touch_job.  No caller in the application; part of the module's interface.
TouchJob(w) ==
  /\ Holds(w) /\ ~InTransaction(w)
  /\ jobs' = Beaten(jobs, {j \in {claim[w].job} : jobs[j].status = "RUNNING"})
  /\ Heard(w)
  /\ UNCHANGED <<claim, enqueuing, failing, sweeping>>

\* The job half of CampaignOrchestrator._bump_heartbeat: the RUNNING rows of
\* the campaign, whoever claimed them.
BumpJobHeartbeat(w) ==
  LET e == jobs[claim[w].job].exp IN
  /\ Holds(w) /\ ~InTransaction(w)
  /\ jobs' = Beaten(jobs, {j \in JobIds : jobs[j].exp = e /\ jobs[j].status = "RUNNING"})
  /\ Heard(w)
  /\ UNCHANGED <<claim, enqueuing, failing, sweeping>>

\* Mutant of StaleJobs: a heartbeat exactly as old as the timeout is stale.
StaleJobs_OffByOne ==
  {j \in JobIds : jobs[j].status = "RUNNING" /\ jobs[j].heartbeat >= Timeout}

StaleJobs == {j \in JobIds : jobs[j].status = "RUNNING" /\ jobs[j].heartbeat > Timeout}

\* recover_stale_jobs, its SELECT.  With no stale row it commits nothing.
RecoverSelect(w) ==
  /\ ~Holds(w) /\ ~InTransaction(w) /\ enqueuing[w] = NoExperiment
  /\ StaleJobs # {}
  /\ sweeping' = [sweeping EXCEPT ![w] = StaleJobs]
  /\ UNCHANGED <<jobs, claim, enqueuing, failing, quiet>>

\* Mutant of Readmitted: a job that is readmitted starts counting anew.
Readmitted_Anew(table, stale) ==
  [j \in JobIds |-> IF j \in stale
                    THEN [table[j] EXCEPT !.status = "PENDING", !.attempts = 0, !.due = 0]
                    ELSE table[j]]

Readmitted(table, stale) ==
  [j \in JobIds |-> IF j \in stale
                    THEN [table[j] EXCEPT !.status = "PENDING", !.due = 0]
                    ELSE table[j]]

\* recover_stale_jobs, its commit: UPDATEs by primary key.
RecoverWrite(w) ==
  /\ sweeping[w] # {}
  /\ Commit(Readmitted(jobs, sweeping[w]))
  /\ sweeping' = [sweeping EXCEPT ![w] = {}]
  /\ UNCHANGED <<claim, enqueuing, failing, quiet>>

\* The process dies, or an exception unwinds the call: the open transaction
\* is rolled back, the claimed row stays as it is.
LeaveJob(c) ==
  /\ enqueuing' = [enqueuing EXCEPT ![c] = NoExperiment]
  /\ claim' = [w \in Workers |-> IF w = c THEN NoClaim ELSE claim[w]]
  /\ failing' = [w \in Workers |-> IF w = c THEN NotRead ELSE failing[w]]
  /\ sweeping' = [w \in Workers |-> IF w = c THEN {} ELSE sweeping[w]]
  /\ quiet' = [w \in Workers |-> IF w = c THEN 0 ELSE quiet[w]]
  /\ UNCHANGED jobs

Aged(row) ==
  CASE row.status = "RUNNING" ->
         [row EXCEPT !.heartbeat = IF @ > Timeout THEN @ ELSE @ + 1]
    [] row.status = "PENDING" ->
         [row EXCEPT !.due = IF @ < 0 THEN @ ELSE @ - 1]
    [] OTHER -> row

\* A worker takes less than the timeout from its claim to its first round,
\* from round to round, and from its last round to settling the job.
OnTime == \A w \in Workers : Holds(w) => quiet[w] < Timeout

Quieter(w) == IF TimelyWorkers /\ Holds(w) THEN quiet[w] + 1 ELSE quiet[w]

Tick ==
  /\ TimelyWorkers => OnTime
  /\ jobs' = [j \in JobIds |-> Aged(jobs[j])]
  /\ quiet' = [w \in Workers |-> Quieter(w)]
  /\ UNCHANGED <<claim, enqueuing, failing, sweeping>>

CallerStep(c) ==
  \/ \E e \in Experiments : EnqueueSelect(c, e)
  \/ \E j \in JobIds : EnqueueInsert(c, j)
  \/ LeaveJob(c)

WorkerStep(w) ==
  \/ \E j \in JobIds : Claim(w, j)
  \/ MarkJobCompleted(w)
  \/ FailJobSelect(w)
  \/ FailJobWrite(w)
  \/ TouchJob(w)
  \/ BumpJobHeartbeat(w)
  \/ RecoverSelect(w)
  \/ RecoverWrite(w)

QueueNext ==
  \/ \E c \in Callers : Undisturbed(c) /\ CallerStep(c)
  \/ \E w \in Workers : Undisturbed(w) /\ WorkerStep(w)
  \/ (ShortTransactions => \A w \in Workers : ~InTransaction(w)) /\ Tick

QueueSpec == QueueInit /\ [][QueueNext]_queueVars
-----------------------------------------------------------------------------
(***************************************************************************)
(* Properties.                                                             *)
(***************************************************************************)

\* At most one PENDING or RUNNING job per campaign, whatever enqueue races,
\* retries of old claims and sweeps do (domain.py, uq_campaign_jobs_active_
\* experiment; test_campaign_queue.py relies on it for idempotent enqueues).
OneActiveJob == UniqueActive(jobs)

\* No two workers ever hold the same attempt of the same job: an attempt is
\* handed out once, also after a sweep gave the row of a live worker away.
ClaimsDistinct ==
  \A v, w \in Workers :
    Holds(v) /\ claim[v] = claim[w] => v = w

\* Two workers never execute the same job (worker.py, guarantees).
ExclusiveJob ==
  \A v, w \in Workers : Holds(v) /\ claim[v].job = claim[w].job => v = w

\* A job that is executed is RUNNING in the table under the attempt of its
\* worker: the queue never shows a job in progress as waiting or finished.
ClaimIsCurrent ==
  \A w \in Workers : Holds(w) =>
    /\ jobs[claim[w].job].status = "RUNNING"
    /\ jobs[claim[w].job].attempts = claim[w].attempt

\* COMPLETED and FAILED jobs never become active again (domain.py:313).
TerminalJobsStay ==
  [][\A j \in JobIds : jobs[j].status \in TerminalStatus
                         => jobs'[j].status = jobs[j].status]_queueVars

\* Without any assumption on time, a finished job is written again only by a
\* recovery that has read it before it was finished, or by the failure of a
\* worker whose job a recovery had given to another one: fail_job, which has no
\* guard on the status, never undoes the end of a job that was claimed once.
RevivalsExplained ==
  [][\A j \in JobIds :
       jobs[j].status \in TerminalStatus /\ jobs'[j].status # jobs[j].status =>
         \E w \in Workers :
           \/ j \in sweeping[w] /\ sweeping'[w] = {}
           \/ claim[w].job = j /\ failing[w] # NotRead /\ failing'[w] = NotRead
                /\ jobs[j].attempts > 1]_queueVars

\* A failure puts a job back in the queue only while it has attempts left;
\* after MaxAttempts claims only a sweep can (fail_job, its bound).
RetriesBounded ==
  [][\A j \in JobIds :
       /\ jobs[j].status = "RUNNING" /\ jobs'[j].status = "PENDING"
       /\ jobs[j].attempts >= MaxAttempts
       => \E w \in Workers : j \in sweeping[w] /\ sweeping'[w] = {}]_queueVars
=============================================================================
