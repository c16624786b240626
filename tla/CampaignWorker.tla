--------------------------- MODULE CampaignWorker ---------------------------
(***************************************************************************)
(* The campaign worker, backend/app/worker.py, on top of the job queue:    *)
(* startup recovery, the claim / execute / settle loop, the experiment     *)
(* lease of services/lease.py, the status and heartbeat writes with which  *)
(* services/campaign.py frames a run, and the API request that creates a   *)
(* campaign and enqueues it (routers/campaigns.py, start_campaign).        *)
(*                                                                         *)
(* A worker is a program counter over the database operations of           *)
(* worker_loop; every operation is one action, or a Select and a Write     *)
(* when rows are read first and then written back by primary key.  What a  *)
(* round does (attacks, evaluations, mutations) is one nondeterministic    *)
(* choice here: run another round, complete, or fail.                      *)
(*                                                                         *)
(* lease_expires_at is not modelled: acquire, renew and release write it   *)
(* and nothing reads it.  The outcome of renew is ignored by its caller.   *)
(***************************************************************************)
EXTENDS JobQueue

CONSTANTS
  Requests,      \* API requests: the callers that are not workers
  Nobody,        \* claim_owner is NULL
  Grace,         \* PENDING_GRACE_SECONDS, in ticks
  MaxFaults,     \* bound of the model: crashes, errors and stops
  DbErrors,      \* BOOLEAN: database operations may raise
  LateRestart    \* BOOLEAN: a worker starts only when what died is stale

ASSUME WorkerConstants ==
  /\ Callers = Requests \cup Workers
  /\ Requests \cap Workers = {}
  /\ Nobody \notin Workers
  /\ Grace \in 0 .. Timeout - 1
  /\ MaxFaults \in Nat
  /\ DbErrors \in BOOLEAN
  /\ LateRestart \in BOOLEAN

VARIABLES
  exps,       \* the table experiments
  submitting, \* the campaign a request has created and not yet enqueued
  pc,         \* the next operation of a worker
  camp,       \* the campaign of the job a worker executes
  outcome,    \* how run_campaign ended, until the job is settled
  stale,      \* RUNNING campaigns _resume_stale_running has found stale
  expiring,   \* PENDING campaigns recover_stale_campaigns will fail
  todo,       \* campaigns recover_stale_campaigns will enqueue
  faults      \* crashes, errors and stops so far

workerVars == <<exps, submitting, pc, camp, outcome, stale, expiring, todo, faults>>
vars == <<queueVars, workerVars>>
-----------------------------------------------------------------------------
(***************************************************************************)
(* Rows of experiments.  The ages saturate at Timeout + 1.  heartbeat      *)
(* counts while the row is RUNNING: nothing reads it in another status.    *)
(***************************************************************************)
CampaignStatus == {"PENDING", "RUNNING", "COMPLETED", "FAILED"}
Finished       == {"COMPLETED", "FAILED"}
Age            == 0 .. Timeout + 1

Experiment == [status    : CampaignStatus \cup {"ABSENT"},
               owner     : Workers \cup {Nobody},
               heartbeat : Age,
               created   : Age]

NoCampaign == [status |-> "ABSENT", owner |-> Nobody, heartbeat |-> 0, created |-> 0]

\* The operations of a startup, of an execution, and of settling the job.
Starting  == {"resume", "resuming", "pending", "expiring", "requeue", "jobs", "sweeping"}
Executing == {"start", "round"}
Settling  == {"release", "mark", "marking", "complete", "fail", "failing"}
Location  == {"down", "poll", "touch", "acquire", "reset"}
               \cup Starting \cup Executing \cup Settling

WorkerTypeOK ==
  /\ TypeOK
  /\ exps \in [Experiments -> Experiment]
  /\ submitting \in [Requests -> Experiments \cup {NoExperiment}]
  /\ pc \in [Workers -> Location]
  /\ camp \in [Workers -> Experiments \cup {NoExperiment}]
  /\ outcome \in [Workers -> {"none", "completed", "failed", "raised"}]
  /\ stale \in [Workers -> SUBSET Experiments]
  /\ expiring \in [Workers -> SUBSET Experiments]
  /\ todo \in [Workers -> SUBSET Experiments]
  /\ faults \in 0 .. MaxFaults

Init ==
  /\ QueueInit
  /\ exps = [e \in Experiments |-> NoCampaign]
  /\ submitting = [r \in Requests |-> NoExperiment]
  /\ pc = [w \in Workers |-> "down"]
  /\ camp = [w \in Workers |-> NoExperiment]
  /\ outcome = [w \in Workers |-> "none"]
  /\ stale = [w \in Workers |-> {}]
  /\ expiring = [w \in Workers |-> {}]
  /\ todo = [w \in Workers |-> {}]
  /\ faults = 0

recoveryVars == <<stale, expiring, todo>>

Goto(w, l) == pc' = [pc EXCEPT ![w] = l]

\* Another process is between reading rows and writing them back.
MidTransaction(w) == InTransaction(w) \/ pc[w] \in {"resuming", "expiring", "marking"}

Alone(c) == ShortTransactions => \A v \in Workers \ {c} : ~MidTransaction(v)
-----------------------------------------------------------------------------
(***************************************************************************)
(* start_campaign.                                                         *)
(***************************************************************************)

\* initialize_experiment.
CreateCampaign(r, e) ==
  /\ submitting[r] = NoExperiment
  /\ exps[e].status = "ABSENT"
  /\ exps' = [exps EXCEPT ![e].status = "PENDING"]
  /\ submitting' = [submitting EXCEPT ![r] = e]
  /\ UNCHANGED <<queueVars, pc, camp, outcome, recoveryVars, faults>>

\* enqueue_campaign finds no active job and will insert one.
SubmitSelect(r) ==
  /\ submitting[r] # NoExperiment
  /\ EnqueueSelect(r, submitting[r])
  /\ UNCHANGED workerVars

\* enqueue_campaign finds a job that a worker's recovery has put there.
SubmitQueued(r) ==
  /\ submitting[r] # NoExperiment /\ enqueuing[r] = NoExperiment
  /\ ActiveJobs(jobs, submitting[r]) # {}
  /\ submitting' = [submitting EXCEPT ![r] = NoExperiment]
  /\ UNCHANGED <<queueVars, exps, pc, camp, outcome, recoveryVars, faults>>

SubmitInsert(r) ==
  /\ \E j \in JobIds : EnqueueInsert(r, j)
  /\ submitting' = [submitting EXCEPT ![r] = NoExperiment]
  /\ UNCHANGED <<exps, pc, camp, outcome, recoveryVars, faults>>

\* The request dies, or answers 503: the campaign exists and is not queued.
SubmitLost(r) ==
  /\ submitting[r] # NoExperiment
  /\ faults < MaxFaults
  /\ LeaveJob(r)
  /\ submitting' = [submitting EXCEPT ![r] = NoExperiment]
  /\ faults' = faults + 1
  /\ UNCHANGED <<exps, pc, camp, outcome, recoveryVars>>
-----------------------------------------------------------------------------
(***************************************************************************)
(* worker_loop, startup: recover_stale_campaigns and recover_stale_jobs.   *)
(***************************************************************************)
\* Mutant of IsStale: a heartbeat exactly as old as the timeout is stale.
IsStale_OffByOne(e) == exps[e].status = "RUNNING" /\ exps[e].heartbeat >= Timeout

IsStale(e) == exps[e].status = "RUNNING" /\ exps[e].heartbeat > Timeout

\* No worker that is alive executes this campaign or its job.
Orphaned(e) == \A w \in Workers : camp[w] # e

\* Everything a dead worker has left RUNNING is past the timeout.
OrphansAreStale ==
  /\ \A e \in Experiments :
       exps[e].status = "RUNNING" /\ Orphaned(e) => IsStale(e)
  /\ \A j \in JobIds :
       jobs[j].status = "RUNNING" /\ Orphaned(jobs[j].exp) => j \in StaleJobs

Start(w) ==
  /\ pc[w] = "down"
  /\ LateRestart => OrphansAreStale
  /\ Goto(w, "resume")
  /\ UNCHANGED <<queueVars, exps, submitting, camp, outcome, recoveryVars, faults>>

\* _resume_stale_running, its SELECT; with no stale row nothing is written.
ResumeSelect(w) ==
  LET found == {e \in Experiments : IsStale(e)} IN
  /\ pc[w] = "resume"
  /\ stale' = [stale EXCEPT ![w] = found]
  /\ Goto(w, IF found = {} THEN "pending" ELSE "resuming")
  /\ UNCHANGED <<queueVars, exps, submitting, camp, outcome, expiring, todo, faults>>

\* Mutant of HandedBack: the lease is cleared and the status forgotten.
HandedBack_LeaseOnly(row) == [row EXCEPT !.owner = Nobody]

\* The row a sweep, or a retry, hands back: PENDING, its lease cleared.
HandedBack(row) == [row EXCEPT !.status = "PENDING", !.owner = Nobody]

ResumeWrite(w) ==
  /\ pc[w] = "resuming"
  /\ exps' = [e \in Experiments |->
                IF e \in stale[w] THEN HandedBack(exps[e]) ELSE exps[e]]
  /\ Goto(w, "pending")
  /\ UNCHANGED <<queueVars, submitting, camp, outcome, recoveryVars, faults>>

\* Mutant of Waiting: campaigns that are executed count as waiting.
Waiting_Running(resumed) ==
  {e \in Experiments \ resumed :
     exps[e].status \in {"PENDING", "RUNNING"} /\ exps[e].created > Grace}

\* The PENDING rows recover_stale_campaigns selects.
Waiting(resumed) ==
  {e \in Experiments \ resumed : exps[e].status = "PENDING" /\ exps[e].created > Grace}

\* Those of them it fails: their age counts, not their heartbeat.
TooOld(waiting) == {e \in waiting : exps[e].created > Timeout}

PendingSelect(w) ==
  LET waiting == Waiting(stale[w])
      old     == TooOld(waiting) IN
  /\ pc[w] = "pending"
  /\ expiring' = [expiring EXCEPT ![w] = old]
  /\ todo' = [todo EXCEPT ![w] = stale[w] \cup (waiting \ old)]
  /\ stale' = [stale EXCEPT ![w] = {}]
  /\ Goto(w, IF old = {} THEN "requeue" ELSE "expiring")
  /\ UNCHANGED <<queueVars, exps, submitting, camp, outcome, faults>>

ExpireWrite(w) ==
  /\ pc[w] = "expiring"
  /\ exps' = [e \in Experiments |->
                IF e \in expiring[w] THEN [exps[e] EXCEPT !.status = "FAILED"]
                                     ELSE exps[e]]
  /\ expiring' = [expiring EXCEPT ![w] = {}]
  /\ Goto(w, "requeue")
  /\ UNCHANGED <<queueVars, submitting, camp, outcome, stale, todo, faults>>

\* enqueue_campaign for each campaign to re-queue, one after the other.
RequeueSelect(w, e) ==
  /\ pc[w] = "requeue" /\ e \in todo[w]
  /\ EnqueueSelect(w, e)
  /\ todo' = [todo EXCEPT ![w] = @ \ {e}]
  /\ UNCHANGED <<exps, submitting, pc, camp, outcome, stale, expiring, faults>>

RequeueQueued(w, e) ==
  /\ pc[w] = "requeue" /\ e \in todo[w] /\ enqueuing[w] = NoExperiment
  /\ ActiveJobs(jobs, e) # {}
  /\ todo' = [todo EXCEPT ![w] = @ \ {e}]
  /\ UNCHANGED <<queueVars, exps, submitting, pc, camp, outcome, stale, expiring, faults>>

RequeueInsert(w) ==
  /\ pc[w] = "requeue"
  /\ \E j \in JobIds : EnqueueInsert(w, j)
  /\ UNCHANGED workerVars

Requeued(w) ==
  /\ pc[w] = "requeue" /\ todo[w] = {} /\ enqueuing[w] = NoExperiment
  /\ Goto(w, "jobs")
  /\ UNCHANGED <<queueVars, exps, submitting, camp, outcome, recoveryVars, faults>>

JobSweepSelect(w) ==
  /\ pc[w] = "jobs"
  /\ RecoverSelect(w)
  /\ Goto(w, "sweeping")
  /\ UNCHANGED <<exps, submitting, camp, outcome, recoveryVars, faults>>

JobSweepNothing(w) ==
  /\ pc[w] = "jobs" /\ StaleJobs = {}
  /\ Goto(w, "poll")
  /\ UNCHANGED <<queueVars, exps, submitting, camp, outcome, recoveryVars, faults>>

\* If the index rejects the commit, the exception ends the process.
JobSweepWrite(w) ==
  /\ pc[w] = "sweeping"
  /\ RecoverWrite(w)
  /\ Goto(w, IF UniqueActive(Readmitted(jobs, sweeping[w])) THEN "poll" ELSE "down")
  /\ UNCHANGED <<exps, submitting, camp, outcome, recoveryVars, faults>>

Recover(w) ==
  \/ Start(w) \/ ResumeSelect(w) \/ ResumeWrite(w)
  \/ PendingSelect(w) \/ ExpireWrite(w)
  \/ \E e \in Experiments : RequeueSelect(w, e) \/ RequeueQueued(w, e)
  \/ RequeueInsert(w) \/ Requeued(w)
  \/ JobSweepSelect(w) \/ JobSweepNothing(w) \/ JobSweepWrite(w)
-----------------------------------------------------------------------------
(***************************************************************************)
(* worker_loop, one job: claim_next_job, then process_campaign_job, which  *)
(* runs CampaignOrchestrator.run_attack_loop under the lease.              *)
(***************************************************************************)
ClaimJob(w) ==
  /\ pc[w] = "poll"
  /\ \E j \in JobIds :
       /\ Claim(w, j)
       /\ camp' = [camp EXCEPT ![w] = jobs[j].exp]
  /\ Goto(w, "touch")
  /\ UNCHANGED <<exps, submitting, outcome, recoveryVars, faults>>

\* _touch_heartbeat: before the lease is asked for, whoever holds it.
TouchCampaign(w) ==
  /\ pc[w] = "touch"
  /\ exps' = [exps EXCEPT ![camp[w]].heartbeat = 0]
  /\ Goto(w, "acquire")
  /\ UNCHANGED <<queueVars, submitting, camp, outcome, recoveryVars, faults>>

\* The WHERE clause of lease.acquire.
Acquirable(e) == exps[e].status = "PENDING"

\* lease.acquire, won: the owner token is fresh for every call, so it stands
\* for the worker and re-entry (RENEWED) never happens.
Acquire(w) ==
  /\ pc[w] = "acquire" /\ Acquirable(camp[w])
  /\ exps' = [exps EXCEPT ![camp[w]].status    = "RUNNING",
                          ![camp[w]].owner     = w,
                          ![camp[w]].heartbeat = 0]
  /\ Goto(w, "start")
  /\ UNCHANGED <<queueVars, submitting, camp, outcome, recoveryVars, faults>>

\* lease.acquire, lost (BUSY or TERMINAL): SKIPPED, and execute_job closes
\* the job as COMPLETED.
Skip(w) ==
  /\ pc[w] = "acquire" /\ ~Acquirable(camp[w])
  /\ Goto(w, "complete")
  /\ UNCHANGED <<queueVars, exps, submitting, camp, outcome, recoveryVars, faults>>

\* _update_experiment_status: no guard on the status that is there.
StatusWritten(e, s) == [exps EXCEPT ![e].status = s, ![e].heartbeat = 0]

\* run_campaign marks the campaign RUNNING.
RunStart(w) ==
  /\ pc[w] = "start"
  /\ exps' = StatusWritten(camp[w], "RUNNING")
  /\ Goto(w, "round")
  /\ UNCHANGED <<queueVars, submitting, camp, outcome, recoveryVars, faults>>

\* Mutant of RunRound: a round without heartbeat.
RunRound_NoBeat(w) ==
  /\ pc[w] = "round"
  /\ Heard(w)
  /\ UNCHANGED <<jobs, claim, enqueuing, failing, sweeping, workerVars>>

\* A round begins: _bump_heartbeat on the campaign and on its RUNNING job.
RunRound(w) ==
  /\ pc[w] = "round"
  /\ BumpJobHeartbeat(w)
  /\ exps' = [exps EXCEPT ![camp[w]].heartbeat = 0]
  /\ UNCHANGED <<submitting, pc, camp, outcome, recoveryVars, faults>>

RunCompleted(w) ==
  /\ pc[w] = "round"
  /\ exps' = StatusWritten(camp[w], "COMPLETED")
  /\ outcome' = [outcome EXCEPT ![w] = "completed"]
  /\ Goto(w, "release")
  /\ UNCHANGED <<queueVars, submitting, camp, recoveryVars, faults>>

\* Mutant of RunFailed: the FAILED status is not persisted.
RunFailed_NoStatus(w) ==
  /\ pc[w] \in Executing
  /\ outcome' = [outcome EXCEPT ![w] = "failed"]
  /\ Goto(w, "release")
  /\ UNCHANGED <<queueVars, exps, submitting, camp, recoveryVars, faults>>

\* Any exception of the run, its missing target or an exceeded budget.
RunFailed(w) ==
  /\ pc[w] \in Executing
  /\ exps' = StatusWritten(camp[w], "FAILED")
  /\ outcome' = [outcome EXCEPT ![w] = "failed"]
  /\ Goto(w, "release")
  /\ UNCHANGED <<queueVars, submitting, camp, recoveryVars, faults>>

\* lease.release, in the finally clause of run_attack_loop.
Release(w) ==
  LET e == camp[w] IN
  /\ pc[w] = "release"
  /\ exps' = IF exps[e].owner = w THEN [exps EXCEPT ![e].owner = Nobody] ELSE exps
  /\ Goto(w, CASE outcome[w] = "completed" -> "complete"
               [] outcome[w] = "failed"    -> "fail"
               [] OTHER                    -> "mark")
  /\ UNCHANGED <<queueVars, submitting, camp, outcome, recoveryVars, faults>>

\* _mark_failed reads the campaign; a finished one it leaves alone.
MarkSelect(w) ==
  /\ pc[w] = "mark"
  /\ Goto(w, IF exps[camp[w]].status \in Finished THEN "fail" ELSE "marking")
  /\ UNCHANGED <<queueVars, exps, submitting, camp, outcome, recoveryVars, faults>>

MarkWrite(w) ==
  /\ pc[w] = "marking"
  /\ exps' = [exps EXCEPT ![camp[w]].status = "FAILED", ![camp[w]].owner = Nobody]
  /\ Goto(w, "fail")
  /\ UNCHANGED <<queueVars, submitting, camp, outcome, recoveryVars, faults>>

Execute(w) ==
  \/ ClaimJob(w) \/ TouchCampaign(w) \/ Acquire(w) \/ Skip(w)
  \/ RunStart(w) \/ RunRound(w) \/ RunCompleted(w) \/ RunFailed(w)
  \/ Release(w) \/ MarkSelect(w) \/ MarkWrite(w)
-----------------------------------------------------------------------------
(***************************************************************************)
(* execute_job: settling the job row.                                      *)
(***************************************************************************)

\* The worker is done with the job and polls for the next one.
BackToPoll(w) ==
  /\ Goto(w, "poll")
  /\ camp' = [camp EXCEPT ![w] = NoExperiment]
  /\ outcome' = [outcome EXCEPT ![w] = "none"]

\* COMPLETED or SKIPPED.
SettleCompleted(w) ==
  /\ pc[w] = "complete"
  /\ MarkJobCompleted(w)
  /\ BackToPoll(w)
  /\ UNCHANGED <<exps, submitting, recoveryVars, faults>>

SettleFailSelect(w) ==
  /\ pc[w] = "fail"
  /\ FailJobSelect(w)
  /\ Goto(w, "failing")
  /\ UNCHANGED <<exps, submitting, camp, outcome, recoveryVars, faults>>

\* RETRYABLE.
SettleRetry(w) ==
  /\ pc[w] = "failing"
  /\ Retryable(w) /\ UniqueActive(FailedTable(w))
  /\ FailJobWrite(w)
  /\ Goto(w, "reset")
  /\ UNCHANGED <<exps, submitting, camp, outcome, recoveryVars, faults>>

\* Out of attempts, or the index rejects the commit and the exception is
\* caught in worker_loop.
SettleFailed(w) ==
  /\ pc[w] = "failing"
  /\ ~(Retryable(w) /\ UniqueActive(FailedTable(w)))
  /\ FailJobWrite(w)
  /\ BackToPoll(w)
  /\ UNCHANGED <<exps, submitting, recoveryVars, faults>>

\* _reset_experiment_for_retry: no guard on the status that is there.
ResetCampaign(w) ==
  /\ pc[w] = "reset"
  /\ exps' = [exps EXCEPT ![camp[w]] = [HandedBack(@) EXCEPT !.heartbeat = 0]]
  /\ BackToPoll(w)
  /\ UNCHANGED <<queueVars, submitting, recoveryVars, faults>>

Settle(w) ==
  \/ SettleCompleted(w) \/ SettleFailSelect(w) \/ SettleRetry(w)
  \/ SettleFailed(w) \/ ResetCampaign(w)
-----------------------------------------------------------------------------
(***************************************************************************)
(* What goes wrong, and the clock.                                         *)
(***************************************************************************)
Forget(w) ==
  /\ LeaveJob(w)
  /\ camp' = [camp EXCEPT ![w] = NoExperiment]
  /\ outcome' = [outcome EXCEPT ![w] = "none"]
  /\ stale' = [stale EXCEPT ![w] = {}]
  /\ expiring' = [expiring EXCEPT ![w] = {}]
  /\ todo' = [todo EXCEPT ![w] = {}]

\* The process is killed, an exception leaves worker_loop during recovery or
\* in claim_next_job, or a signal stops it between two jobs.
Crash(w) ==
  /\ pc[w] # "down" /\ faults < MaxFaults
  /\ Forget(w)
  /\ Goto(w, "down")
  /\ faults' = faults + 1
  /\ UNCHANGED <<exps, submitting>>

\* An exception leaves execute_job: worker_loop logs it and polls on; the
\* job row stays as it is.
Abandon(w) ==
  /\ DbErrors /\ faults < MaxFaults
  /\ pc[w] \in {"touch", "mark", "marking", "complete", "fail", "failing", "reset"}
  /\ Forget(w)
  /\ Goto(w, "poll")
  /\ faults' = faults + 1
  /\ UNCHANGED <<exps, submitting>>

\* An exception leaves run_attack_loop: from acquire or release, or because
\* the FAILED write of run_campaign raises too.
RunRaises(w) ==
  /\ DbErrors /\ faults < MaxFaults
  /\ pc[w] \in {"acquire", "release"} \cup Executing
  /\ outcome' = [outcome EXCEPT ![w] = "raised"]
  /\ Goto(w, IF pc[w] \in Executing THEN "release" ELSE "mark")
  /\ faults' = faults + 1
  /\ UNCHANGED <<queueVars, exps, submitting, camp, recoveryVars>>

Older(age) == IF age > Timeout THEN age ELSE age + 1

AgedCampaign(row) ==
  CASE row.status = "ABSENT"  -> row
    [] row.status = "RUNNING" -> [row EXCEPT !.heartbeat = Older(@), !.created = Older(@)]
    [] OTHER                  -> [row EXCEPT !.created = Older(@)]

\* Besides what the queue asks of it (OnTime), a worker on time recovers at
\* startup faster than a tick, and follows a fail_job with the reset of the
\* campaign within the backoff.
WorkersOnTime ==
  \A w \in Workers :
    /\ pc[w] \notin Starting
    /\ pc[w] = "reset"
         => \A j \in ActiveJobs(jobs, camp[w]) : jobs[j].due > 1

ClockTick ==
  /\ TimelyWorkers => WorkersOnTime
  /\ Tick
  /\ exps' = [e \in Experiments |-> AgedCampaign(exps[e])]
  /\ UNCHANGED <<submitting, pc, camp, outcome, recoveryVars, faults>>

RequestStep(r) ==
  \/ \E e \in Experiments : CreateCampaign(r, e)
  \/ SubmitSelect(r) \/ SubmitQueued(r) \/ SubmitInsert(r) \/ SubmitLost(r)

ProcessStep(w) == Recover(w) \/ Execute(w) \/ Settle(w)
FaultStep(w)   == Crash(w) \/ Abandon(w) \/ RunRaises(w)

Next ==
  \/ \E r \in Requests : Alone(r) /\ RequestStep(r)
  \/ \E w \in Workers : Alone(w) /\ (ProcessStep(w) \/ FaultStep(w))
  \/ (ShortTransactions => \A w \in Workers : ~MidTransaction(w)) /\ ClockTick

Spec == Init /\ [][Next]_vars

(***************************************************************************)
(* Fairness: time passes, the container restarts what is down, a request   *)
(* and a worker that can take their next step take it, and a run ends,     *)
(* because attack_budget bounds its rounds.  Faults are never fair.        *)
(***************************************************************************)
RunEnds(w) == RunCompleted(w) \/ RunFailed(w)
Submit(r)  == SubmitSelect(r) \/ SubmitQueued(r) \/ SubmitInsert(r)

Fairness ==
  /\ WF_vars((ShortTransactions => \A w \in Workers : ~MidTransaction(w)) /\ ClockTick)
  /\ \A r \in Requests : WF_vars(Alone(r) /\ Submit(r))
  /\ \A w \in Workers : WF_vars(Alone(w) /\ ProcessStep(w))
  /\ \A w \in Workers : WF_vars(Alone(w) /\ RunEnds(w))

FairSpec == Spec /\ Fairness
-----------------------------------------------------------------------------
(***************************************************************************)
(* Properties.                                                             *)
(***************************************************************************)

\* Two workers never execute the same campaign concurrently (worker.py,
\* guarantees; lease.py: "must not execute it concurrently").
MutualExclusion ==
  \A v, w \in Workers :
    pc[v] \in Executing /\ pc[w] \in Executing /\ camp[v] = camp[w] => v = w

\* Whoever executes a campaign owns its lease, and the table says RUNNING.
\* No execution path calls owns_lease, so this has to hold by itself.
RunnerOwnsLease ==
  \A w \in Workers : pc[w] \in Executing =>
    exps[camp[w]].owner = w /\ exps[camp[w]].status = "RUNNING"

\* A completed campaign is never run again: the blind status writes of
\* run_campaign, of a retry and of recovery never hit a COMPLETED row.
CompletedStays ==
  [][\A e \in Experiments :
       exps[e].status = "COMPLETED" => exps'[e].status = "COMPLETED"]_vars

\* A campaign comes to an end under the worker that runs it, or in the queue:
\* no step finishes a campaign another worker is executing.
FinishedByRunner ==
  [][\A e \in Experiments, w \in Workers :
       /\ pc[w] \in Executing /\ camp[w] = e
       /\ exps[e].status = "RUNNING" /\ exps'[e].status \in Finished
       => pc'[w] = "release"]_vars

\* The refinement mapping to the abstract specification of a campaign: the
\* status of its row, and the workers between acquire and the end of the run.
RunnersOf(e) == {w \in Workers : pc[w] \in Executing /\ camp[w] = e}

Lifecycle == INSTANCE CampaignLifecycle WITH
  Campaigns <- Experiments,
  Executors <- Workers,
  phase     <- [e \in Experiments |-> exps[e].status],
  running   <- [e \in Experiments |-> RunnersOf(e)]

\* Workers that are on time implement the life cycle of a campaign, crashes
\* and restarts included: one executor at a time, only idle campaigns are
\* handed back or given up, COMPLETED is final.
ImplementsLifecycle == Lifecycle!LifecycleSpec

\* Somebody is about to put the campaign in the queue.
BeingQueued(e) ==
  \/ \E r \in Requests : submitting[r] = e
  \/ \E w \in Workers : e \in stale[w] \cup todo[w] \/ enqueuing[w] = e

\* Without faults no campaign is stranded: a PENDING one is queued or about
\* to be, a RUNNING one is executed by a live worker.
NoOrphans ==
  faults = 0 => \A e \in Experiments :
    /\ exps[e].status = "PENDING" => ActiveJobs(jobs, e) # {} \/ BeingQueued(e)
    /\ exps[e].status = "RUNNING" => ~Orphaned(e)

\* Without faults the queue tells the truth: a COMPLETED job belongs to a
\* finished campaign, a FAILED one to a campaign that failed, and a job is
\* FAILED only with its attempts used up, which are MaxAttempts at most.
JobsTellTheTruth ==
  faults = 0 => \A j \in JobIds :
    /\ jobs[j].status = "COMPLETED" => exps[jobs[j].exp].status \in Finished
    /\ jobs[j].status = "FAILED" =>
         exps[jobs[j].exp].status = "FAILED" /\ jobs[j].attempts = MaxAttempts
    /\ jobs[j].attempts <= MaxAttempts

\* A job that was claimed again after a failure and is COMPLETED has run its
\* campaign: retries are not lost ("Failed jobs retry", worker.py).
RetriesRun ==
  \A j \in JobIds :
    jobs[j].status = "COMPLETED" /\ jobs[j].attempts > 1 =>
      exps[jobs[j].exp].status = "COMPLETED"

\* Every campaign that is in the queue, or claimed from it, is finished in
\* the end ("A worker crash cannot lose a job", worker.py).
QueuedCampaignsEnd ==
  \A e \in Experiments :
    ActiveJobs(jobs, e) # {} ~> exps[e].status \in Finished
=============================================================================
