------------------------ MODULE CampaignWorker_proofs ------------------------
(***************************************************************************)
(* Theorems about CampaignWorker.  The workers use the queue only through  *)
(* its operations, so what is proved of the queue holds of them.           *)
(***************************************************************************)
EXTENDS CampaignWorker, JobQueue_proofs

\* A worker that asks whether it is alone asks more than the queue does.
LEMMA AloneIsUndisturbed ==
  ASSUME NEW c \in Callers, Alone(c) PROVE Undisturbed(c)
BY DEF Alone, Undisturbed, MidTransaction

\* What a request submits is a campaign.
SubmittingOK == submitting \in [Requests -> Experiments \cup {NoExperiment}]

\* The queue is given campaigns only.
LEMMA SubmittingType == Spec => []SubmittingOK
<1>1. Init => SubmittingOK
  BY DEF Init, SubmittingOK
<1>2. SubmittingOK /\ [Next]_vars => SubmittingOK'
  <2> SUFFICES ASSUME SubmittingOK, [Next]_vars PROVE SubmittingOK'
    OBVIOUS
  <2>1. ASSUME NEW r \in Requests, RequestStep(r)
        PROVE  SubmittingOK'
    BY <2>1 DEF SubmittingOK, RequestStep, CreateCampaign, SubmitSelect, SubmitQueued,
                SubmitInsert, SubmitLost, workerVars
  <2>2. ASSUME NEW w \in Workers, ProcessStep(w) \/ FaultStep(w)
        PROVE  UNCHANGED submitting
    <3>1. CASE Recover(w)
      BY <3>1 DEF Recover, Start, ResumeSelect, ResumeWrite, PendingSelect, ExpireWrite,
                  RequeueSelect, RequeueQueued, RequeueInsert, Requeued, JobSweepSelect,
                  JobSweepNothing, JobSweepWrite, workerVars
    <3>2. CASE Execute(w)
      BY <3>2 DEF Execute, ClaimJob, TouchCampaign, Acquire, Skip, RunStart, RunRound,
                  RunCompleted, RunFailed, Release, MarkSelect, MarkWrite
    <3>3. CASE Settle(w)
      BY <3>3 DEF Settle, SettleCompleted, SettleFailSelect, SettleRetry, SettleFailed,
                  ResetCampaign
    <3>4. CASE FaultStep(w)
      BY <3>4 DEF FaultStep, Crash, Abandon, RunRaises
    <3> QED
      BY <2>2, <3>1, <3>2, <3>3, <3>4 DEF ProcessStep
  <2>3. ASSUME ClockTick
        PROVE  UNCHANGED submitting
    BY <2>3 DEF ClockTick
  <2>4. CASE UNCHANGED vars
    BY <2>4 DEF vars, workerVars, SubmittingOK
  <2> QED
    BY <2>1, <2>2, <2>3, <2>4 DEF Next, SubmittingOK
<1> QED
  BY <1>1, <1>2, PTL DEF Spec

\* What a request does to the queue is an operation of the queue, or nothing.
LEMMA RequestUsesQueue ==
  ASSUME SubmittingOK, NEW r \in Requests, RequestStep(r)
  PROVE  CallerStep(r) \/ UNCHANGED queueVars
<1>1. ASSUME NEW e \in Experiments, CreateCampaign(r, e)
      PROVE  UNCHANGED queueVars
  BY <1>1 DEF CreateCampaign
<1>2. ASSUME SubmitSelect(r)
      PROVE  \E e \in Experiments : EnqueueSelect(r, e)
  <2>1. submitting[r] \in Experiments /\ EnqueueSelect(r, submitting[r])
    BY <1>2 DEF SubmitSelect, SubmittingOK
  <2> QED
    BY <2>1
<1>3. ASSUME SubmitQueued(r)
      PROVE  UNCHANGED queueVars
  BY <1>3 DEF SubmitQueued
<1>4. ASSUME SubmitInsert(r)
      PROVE  \E j \in JobIds : EnqueueInsert(r, j)
  BY <1>4 DEF SubmitInsert
<1>5. ASSUME SubmitLost(r)
      PROVE  LeaveJob(r)
  BY <1>5 DEF SubmitLost
<1> QED
  BY <1>1, <1>2, <1>3, <1>4, <1>5 DEF RequestStep, CallerStep

\* What a worker does to the queue is an operation of the queue, or nothing.
LEMMA ProcessUsesQueue ==
  ASSUME NEW w \in Workers, ProcessStep(w) \/ FaultStep(w)
  PROVE  CallerStep(w) \/ WorkerStep(w) \/ UNCHANGED queueVars
<1>1. CASE Recover(w)
  <2>1. ASSUME NEW e \in Experiments, RequeueSelect(w, e)
        PROVE  CallerStep(w)
    BY <2>1 DEF RequeueSelect, CallerStep
  <2>2. ASSUME RequeueInsert(w)
        PROVE  CallerStep(w)
    BY <2>2 DEF RequeueInsert, CallerStep
  <2>3. ASSUME JobSweepSelect(w) \/ JobSweepWrite(w)
        PROVE  WorkerStep(w)
    BY <2>3 DEF JobSweepSelect, JobSweepWrite, WorkerStep
  <2> QED
    BY <1>1, <2>1, <2>2, <2>3
       DEF Recover, Start, ResumeSelect, ResumeWrite, PendingSelect, ExpireWrite,
           RequeueQueued, Requeued, JobSweepNothing
<1>2. CASE Execute(w)
  <2>1. ASSUME ClaimJob(w)
        PROVE  WorkerStep(w)
    BY <2>1 DEF ClaimJob, WorkerStep
  <2>2. ASSUME RunRound(w)
        PROVE  WorkerStep(w)
    BY <2>2 DEF RunRound, WorkerStep
  <2> QED
    BY <1>2, <2>1, <2>2
       DEF Execute, TouchCampaign, Acquire, Skip, RunStart, RunCompleted, RunFailed,
           Release, MarkSelect, MarkWrite
<1>3. CASE Settle(w)
  BY <1>3 DEF Settle, SettleCompleted, SettleFailSelect, SettleRetry, SettleFailed,
              ResetCampaign, WorkerStep
<1>4. CASE FaultStep(w)
  BY <1>4 DEF FaultStep, Crash, Abandon, RunRaises, Forget, CallerStep
<1> QED
  BY <1>1, <1>2, <1>3, <1>4 DEF ProcessStep

\* Requests, workers, faults and the clock together implement the queue.
THEOREM WorkersUseQueue == Spec => QueueSpec
<1>1. Init => QueueInit
  BY DEF Init
<1>2. SubmittingOK /\ [Next]_vars => [QueueNext]_queueVars
  <2> SUFFICES ASSUME SubmittingOK, [Next]_vars PROVE [QueueNext]_queueVars
    OBVIOUS
  <2>1. ASSUME NEW r \in Requests, Alone(r), RequestStep(r)
        PROVE  [QueueNext]_queueVars
    <3>1. r \in Callers /\ Undisturbed(r)
      BY <2>1, WorkerConstants, AloneIsUndisturbed
    <3> QED
      BY <2>1, <3>1, RequestUsesQueue DEF QueueNext
  <2>2. ASSUME NEW w \in Workers, Alone(w), ProcessStep(w) \/ FaultStep(w)
        PROVE  [QueueNext]_queueVars
    <3>1. w \in Callers /\ Undisturbed(w)
      BY <2>2, QueueConstants, AloneIsUndisturbed
    <3> QED
      BY <2>2, <3>1, ProcessUsesQueue DEF QueueNext
  <2>3. ASSUME ShortTransactions => \A w \in Workers : ~MidTransaction(w), ClockTick
        PROVE  QueueNext
    BY <2>3 DEF QueueNext, MidTransaction, ClockTick
  <2>4. CASE UNCHANGED vars
    BY <2>4 DEF vars
  <2> QED
    BY <2>1, <2>2, <2>3, <2>4 DEF Next
<1> QED
  BY <1>1, <1>2, SubmittingType, PTL DEF Spec, QueueSpec

\* Workers on time never execute one job twice at a time.
THEOREM WorkersExclusive ==
  ASSUME TimelyWorkers, ShortTransactions
  PROVE  Spec => []ExclusiveJob
BY WorkersUseQueue, ExclusiveJobHolds, PTL
-----------------------------------------------------------------------------
(***************************************************************************)
(* Type correctness of the workers.                                        *)
(***************************************************************************)

\* Setting one column of a campaign.
LEMMA CampaignColumnTypes ==
  /\ \A row \in Experiment, s \in CampaignStatus : [row EXCEPT !.status = s] \in Experiment
  /\ \A row \in Experiment, o \in Workers \cup {Nobody} : [row EXCEPT !.owner = o] \in Experiment
  /\ \A row \in Experiment : [row EXCEPT !.heartbeat = 0] \in Experiment
BY QueueConstants DEF Experiment, Age

\* The rows a sweep, a retry and the clock leave are rows.
LEMMA CampaignRowTypes ==
  ASSUME NEW row \in Experiment
  PROVE  /\ HandedBack(row) \in Experiment
         /\ [HandedBack(row) EXCEPT !.heartbeat = 0] \in Experiment
         /\ AgedCampaign(row) \in Experiment
<1>1. HandedBack(row) \in Experiment
  BY CampaignColumnTypes DEF HandedBack, CampaignStatus
<1>2. [HandedBack(row) EXCEPT !.heartbeat = 0] \in Experiment
  BY <1>1, CampaignColumnTypes
<1>3. AgedCampaign(row) \in Experiment
  <2>1. Older(row.heartbeat) \in Age /\ Older(row.created) \in Age
    BY QueueConstants DEF Older, Age, Experiment
  <2>2. [row EXCEPT !.created = Older(row.created)] \in Experiment
    BY <2>1 DEF Experiment
  <2>3. [[row EXCEPT !.heartbeat = Older(row.heartbeat)]
                EXCEPT !.created = Older(row.created)] \in Experiment
    BY <2>1 DEF Experiment
  <2>4. CASE row.status = "RUNNING"
    BY <2>3, <2>4 DEF AgedCampaign, Experiment
  <2>5. CASE row.status # "RUNNING"
    BY <2>2, <2>5 DEF AgedCampaign
  <2> QED
    BY <2>4, <2>5
<1> QED
  BY <1>1, <1>2, <1>3

\* The campaigns, after any step of a worker that writes the one it is about.
LEMMA OneCampaignWritten ==
  ASSUME exps \in [Experiments -> Experiment], NEW e,
         \/ exps' = exps
         \/ \E s \in CampaignStatus : exps' = StatusWritten(e, s)
         \/ exps' = [exps EXCEPT ![e].heartbeat = 0]
         \/ exps' = [exps EXCEPT ![e].status = "PENDING"]
         \/ \E w \in Workers : exps' = [exps EXCEPT ![e].status    = "RUNNING",
                                                   ![e].owner     = w,
                                                   ![e].heartbeat = 0]
         \/ exps' = [exps EXCEPT ![e].owner = Nobody]
         \/ exps' = [exps EXCEPT ![e].status = "FAILED", ![e].owner = Nobody]
         \/ exps' = [exps EXCEPT ![e] = [HandedBack(@) EXCEPT !.heartbeat = 0]]
  PROVE  /\ exps' \in [Experiments -> Experiment]
         /\ \A d \in Experiments \ {e} : exps'[d] = exps[d]
<1> USE DEF CampaignStatus
<1>1. CASE e \notin Experiments
  BY <1>1 DEF StatusWritten
<1> SUFFICES ASSUME e \in Experiments
             PROVE  /\ exps' \in [Experiments -> Experiment]
                    /\ \A d \in Experiments \ {e} : exps'[d] = exps[d]
  BY <1>1
<1>2. ASSUME NEW row \in Experiment, exps' = [exps EXCEPT ![e] = row]
      PROVE  /\ exps' \in [Experiments -> Experiment]
             /\ \A d \in Experiments \ {e} : exps'[d] = exps[d]
  BY <1>2
<1>3. ASSUME NEW s \in CampaignStatus, exps' = StatusWritten(e, s)
      PROVE  \E row \in Experiment : exps' = [exps EXCEPT ![e] = row]
  <2>1. [[exps[e] EXCEPT !.status = s] EXCEPT !.heartbeat = 0] \in Experiment
    BY CampaignColumnTypes
  <2>2. exps' = [exps EXCEPT ![e] = [[exps[e] EXCEPT !.status = s] EXCEPT !.heartbeat = 0]]
    BY <1>3 DEF StatusWritten
  <2> QED
    BY <2>1, <2>2
<1>4. ASSUME \/ exps' = [exps EXCEPT ![e].heartbeat = 0]
             \/ exps' = [exps EXCEPT ![e].status = "PENDING"]
             \/ exps' = [exps EXCEPT ![e].owner = Nobody]
      PROVE  \E row \in Experiment : exps' = [exps EXCEPT ![e] = row]
  <2>1. /\ [exps[e] EXCEPT !.heartbeat = 0] \in Experiment
        /\ [exps[e] EXCEPT !.status = "PENDING"] \in Experiment
        /\ [exps[e] EXCEPT !.owner = Nobody] \in Experiment
    BY CampaignColumnTypes
  <2> QED
    BY <1>4, <2>1
<1>5. ASSUME NEW w \in Workers,
             exps' = [exps EXCEPT ![e].status = "RUNNING", ![e].owner = w, ![e].heartbeat = 0]
      PROVE  \E row \in Experiment : exps' = [exps EXCEPT ![e] = row]
  <2> DEFINE row == [[[exps[e] EXCEPT !.status = "RUNNING"] EXCEPT !.owner = w]
                             EXCEPT !.heartbeat = 0]
  <2>1. row \in Experiment
    BY CampaignColumnTypes
  <2>2. exps' = [exps EXCEPT ![e] = row]
    BY <1>5
  <2> QED
    BY <2>1, <2>2
<1>6. ASSUME exps' = [exps EXCEPT ![e].status = "FAILED", ![e].owner = Nobody]
      PROVE  \E row \in Experiment : exps' = [exps EXCEPT ![e] = row]
  <2>1. [[exps[e] EXCEPT !.status = "FAILED"] EXCEPT !.owner = Nobody] \in Experiment
    BY CampaignColumnTypes
  <2>2. exps' = [exps EXCEPT ![e] = [[exps[e] EXCEPT !.status = "FAILED"] EXCEPT !.owner = Nobody]]
    BY <1>6
  <2> QED
    BY <2>1, <2>2
<1>7. ASSUME exps' = [exps EXCEPT ![e] = [HandedBack(@) EXCEPT !.heartbeat = 0]]
      PROVE  \E row \in Experiment : exps' = [exps EXCEPT ![e] = row]
  BY <1>7, CampaignRowTypes
<1> QED
  BY <1>2, <1>3, <1>4, <1>5, <1>6, <1>7

\* Every step keeps campaigns, requests and workers well typed.
THEOREM WorkerTypeCorrect == Spec => []WorkerTypeOK
<1> DEFINE Rest == /\ exps \in [Experiments -> Experiment]
                   /\ pc \in [Workers -> Location]
                   /\ camp \in [Workers -> Experiments \cup {NoExperiment}]
                   /\ outcome \in [Workers -> {"none", "completed", "failed", "raised"}]
                   /\ stale \in [Workers -> SUBSET Experiments]
                   /\ expiring \in [Workers -> SUBSET Experiments]
                   /\ todo \in [Workers -> SUBSET Experiments]
                   /\ faults \in 0 .. MaxFaults
<1>1. Init => Rest
  BY WorkerConstants, QueueConstants
     DEF Init, NoCampaign, Experiment, Location, Starting, Executing, Settling, Age
<1>2. TypeOK /\ Rest /\ [Next]_vars => Rest'
  <2> SUFFICES ASSUME TypeOK, Rest, [Next]_vars PROVE Rest'
    OBVIOUS
  <2> USE DEF Location, Starting, Executing, Settling, CampaignStatus, Goto, recoveryVars
  <2>1. ASSUME NEW r \in Requests, RequestStep(r)
        PROVE  Rest'
    <3>1. ASSUME NEW e \in Experiments, CreateCampaign(r, e)
          PROVE  Rest'
      BY <3>1, OneCampaignWritten DEF CreateCampaign
    <3>2. ASSUME SubmitSelect(r) \/ SubmitQueued(r) \/ SubmitInsert(r)
          PROVE  Rest'
      BY <3>2 DEF SubmitSelect, SubmitQueued, SubmitInsert, workerVars
    <3>3. ASSUME SubmitLost(r)
          PROVE  Rest'
      BY <3>3, WorkerConstants DEF SubmitLost
    <3> QED
      BY <2>1, <3>1, <3>2, <3>3 DEF RequestStep
  <2>2. ASSUME NEW w \in Workers, Recover(w)
        PROVE  Rest'
    <3>1. CASE Start(w) \/ Requeued(w) \/ RequeueInsert(w)
               \/ JobSweepSelect(w) \/ JobSweepNothing(w) \/ JobSweepWrite(w)
      BY <3>1 DEF Start, Requeued, RequeueInsert, JobSweepSelect, JobSweepNothing,
                  JobSweepWrite, workerVars
    <3>2. CASE ResumeSelect(w)
      BY <3>2 DEF ResumeSelect
    <3>3. CASE ResumeWrite(w)
      BY <3>3, CampaignRowTypes DEF ResumeWrite
    <3>4. CASE PendingSelect(w)
      <4>1. TooOld(Waiting(stale[w])) \in SUBSET Experiments
        BY DEF TooOld, Waiting
      <4>2. stale[w] \cup (Waiting(stale[w]) \ TooOld(Waiting(stale[w]))) \in SUBSET Experiments
        BY DEF Waiting
      <4> QED
        BY <3>4, <4>1, <4>2 DEF PendingSelect
    <3>5. CASE ExpireWrite(w)
      BY <3>5, CampaignColumnTypes DEF ExpireWrite
    <3>6. ASSUME NEW e \in Experiments, RequeueSelect(w, e) \/ RequeueQueued(w, e)
          PROVE  Rest'
      BY <3>6 DEF RequeueSelect, RequeueQueued
    <3> QED
      BY <2>2, <3>1, <3>2, <3>3, <3>4, <3>5, <3>6 DEF Recover
  <2>3. ASSUME NEW w \in Workers, Execute(w)
        PROVE  Rest'
    <3>1. CASE ClaimJob(w)
      <4>1. PICK j \in JobIds : camp' = [camp EXCEPT ![w] = jobs[j].exp]
        BY <3>1 DEF ClaimJob
      <4>2. jobs[j].exp \in Experiments \cup {NoExperiment}
        BY DEF TypeOK, Row
      <4> QED
        BY <3>1, <4>1, <4>2 DEF ClaimJob
    <3>2. CASE Skip(w) \/ MarkSelect(w)
      BY <3>2 DEF Skip, MarkSelect
    <3>3. CASE TouchCampaign(w) \/ Acquire(w) \/ RunStart(w) \/ RunRound(w) \/ RunCompleted(w)
               \/ RunFailed(w) \/ Release(w) \/ MarkWrite(w)
      <4>1. exps' \in [Experiments -> Experiment]
        BY <3>3, OneCampaignWritten
           DEF TouchCampaign, Acquire, RunStart, RunRound, RunCompleted, RunFailed, Release,
               MarkWrite
      <4> QED
        BY <3>3, <4>1
           DEF TouchCampaign, Acquire, RunStart, RunRound, RunCompleted, RunFailed, Release,
               MarkWrite
    <3> QED
      BY <2>3, <3>1, <3>2, <3>3 DEF Execute
  <2>4. ASSUME NEW w \in Workers, Settle(w)
        PROVE  Rest'
    <3>1. exps' \in [Experiments -> Experiment]
      BY <2>4, OneCampaignWritten
         DEF Settle, SettleCompleted, SettleFailSelect, SettleRetry, SettleFailed, ResetCampaign
    <3> QED
      BY <2>4, <3>1
         DEF Settle, SettleCompleted, SettleFailSelect, SettleRetry, SettleFailed,
             ResetCampaign, BackToPoll
  <2>5. ASSUME NEW w \in Workers, FaultStep(w)
        PROVE  Rest'
    BY <2>5, WorkerConstants DEF FaultStep, Crash, Abandon, RunRaises, Forget
  <2>6. ASSUME ClockTick
        PROVE  Rest'
    BY <2>6, CampaignRowTypes DEF ClockTick
  <2>7. CASE UNCHANGED vars
    BY <2>7 DEF vars, workerVars
  <2> QED
    BY <2>1, <2>2, <2>3, <2>4, <2>5, <2>6, <2>7 DEF Next, ProcessStep
<1>3. TypeOK /\ SubmittingOK /\ Rest => WorkerTypeOK
  BY DEF WorkerTypeOK, SubmittingOK
<1> QED
  BY <1>1, <1>2, <1>3, WorkersUseQueue, QueueTypeCorrect, SubmittingType, PTL DEF Spec
-----------------------------------------------------------------------------
(***************************************************************************)
(* One worker per campaign, when workers are on time.                      *)
(***************************************************************************)

\* The locations of a worker that has claimed a job and not settled it.
Busy == {"touch", "acquire"} \cup Executing \cup Settling

RowsHaveCampaign ==
  \A j \in JobIds : jobs[j].status # "ABSENT" => jobs[j].exp \in Experiments

\* A worker is busy with the campaign of the job it holds.
BusyWithJob(w) ==
  /\ pc[w] \in Busy <=> Holds(w)
  /\ Holds(w) => jobs[claim[w].job].exp = camp[w] /\ claim[w].attempt > 0

\* A campaign that waits to be reset has a job nobody can claim yet.
Cooling(j, e) == jobs[j].exp = e /\ jobs[j].status = "PENDING" /\ jobs[j].due > 0

WaitsForReset(w) == pc[w] = "reset" => \E j \in JobIds : Cooling(j, camp[w])

\* The campaign of a worker that executes it: its own, and never stale.
RunnerRow(w) ==
  pc[w] \in Executing =>
    /\ exps[camp[w]].owner = w
    /\ exps[camp[w]].status = "RUNNING"
    /\ exps[camp[w]].heartbeat <= quiet[w]

\* What recovery has read is so until it writes.
ReadByRecovery(w) ==
  /\ pc[w] = "resuming" => \A e \in stale[w] : IsStale(e)
  /\ pc[w] = "expiring" => \A e \in expiring[w] : exps[e].status = "PENDING"

InOrder(w) == BusyWithJob(w) /\ WaitsForReset(w) /\ RunnerRow(w) /\ ReadByRecovery(w)

WorkerInv == RowsHaveCampaign /\ \A w \in Workers : InOrder(w)

\* What is known of the queue in every state.
QueueFacts == TypeOK /\ TimelyInv /\ OneActiveJob

\* A job that is not due yet stays as it is until the clock moves: claims take
\* jobs that are due, everything else writes new or RUNNING rows.
LEMMA WaitingRowStays ==
  ASSUME QueueFacts, NEW c \in Callers,
         CallerStep(c) \/ (c \in Workers /\ WorkerStep(c)) \/ UNCHANGED queueVars,
         NEW j \in JobIds, jobs[j].status = "PENDING", jobs[j].due > 0
  PROVE  jobs'[j] = jobs[j]
<1> USE DEF QueueFacts
<1>1. CASE UNCHANGED jobs
  BY <1>1
<1>2. ASSUME NEW i \in JobIds, EnqueueInsert(c, i)
      PROVE  jobs'[j] = jobs[j]
  <2>1. jobs' = jobs \/ jobs' = [jobs EXCEPT ![i] = NewRow(enqueuing[c])]
    BY <1>2, CommitOutcome DEF EnqueueInsert
  <2> QED
    BY <1>2, <2>1 DEF EnqueueInsert, NoRow, TypeOK
<1>3. ASSUME NEW i \in JobIds, Claim(c, i)
      PROVE  jobs'[j] = jobs[j]
  <2>1. i # j
    BY <1>3, QueueConstants DEF Claim, Oldest, Eligible, TypeOK, Row
  <2> QED
    BY <1>3, <2>1, ClaimedColumns DEF Claim
<1>4. ASSUME c \in Workers, MarkJobCompleted(c)
      PROVE  jobs'[j] = jobs[j]
  BY <1>4, CompletedColumns
<1>5. ASSUME c \in Workers, FailJobWrite(c)
      PROVE  jobs'[j] = jobs[j]
  <2>1. jobs[claim[c].job].status = "RUNNING"
    BY <1>5 DEF FailJobWrite, TimelyInv, HeldRow
  <2> QED
    BY <1>5, <2>1, FailedColumns
<1>6. ASSUME TouchJob(c) \/ BumpJobHeartbeat(c)
      PROVE  jobs'[j] = jobs[j]
  BY <1>6 DEF TouchJob, BumpJobHeartbeat, Beaten
<1>7. ASSUME c \in Workers, RecoverWrite(c)
      PROVE  jobs'[j] = jobs[j]
  <2>1. j \notin sweeping[c]
    BY <1>7 DEF RecoverWrite, TimelyInv, SweptRows, StaleJobs
  <2> QED
    BY <1>7, <2>1, CommitOutcome, ReadmittedColumns DEF RecoverWrite
<1> QED
  BY <1>1, <1>2, <1>3, <1>4, <1>5, <1>6, <1>7
     DEF CallerStep, WorkerStep, queueVars, EnqueueSelect, LeaveJob, FailJobSelect,
         RecoverSelect

\* A row of the queue belongs to one campaign for good.
LEMMA RowsKeepCampaign ==
  ASSUME QueueFacts, RowsHaveCampaign, [QueueNext]_queueVars
  PROVE  /\ RowsHaveCampaign'
         /\ \A j \in JobIds : jobs[j].status # "ABSENT" => jobs'[j].exp = jobs[j].exp
<1> USE DEF QueueFacts
<1> DEFINE Kept == \A j \in JobIds : /\ jobs'[j].exp = jobs[j].exp
                                     /\ jobs[j].status = "ABSENT" => jobs'[j].status = "ABSENT"
<1>1. CASE UNCHANGED jobs
  BY <1>1 DEF RowsHaveCampaign
<1>2. ASSUME NEW c \in Callers, NEW i \in JobIds, EnqueueInsert(c, i)
      PROVE  /\ RowsHaveCampaign'
             /\ \A j \in JobIds : jobs[j].status # "ABSENT" => jobs'[j].exp = jobs[j].exp
  <2>1. jobs' = jobs \/ jobs' = [jobs EXCEPT ![i] = NewRow(enqueuing[c])]
    BY <1>2, CommitOutcome DEF EnqueueInsert
  <2>2. NewRow(enqueuing[c]).exp \in Experiments /\ jobs[i].status = "ABSENT"
    BY <1>2 DEF EnqueueInsert, NewRow, NoRow, TypeOK
  <2> QED
    BY <2>1, <2>2 DEF RowsHaveCampaign, TypeOK
<1>3. ASSUME NEW w \in Workers, NEW i \in JobIds, Claim(w, i)
      PROVE  Kept
  BY <1>3, ClaimedColumns DEF Claim, Oldest, Eligible
<1>4. ASSUME NEW w \in Workers, MarkJobCompleted(w)
      PROVE  Kept
  BY <1>4, CompletedColumns
<1>5. ASSUME NEW w \in Workers, FailJobWrite(w)
      PROVE  Kept
  <2>1. jobs[claim[w].job].status = "RUNNING"
    BY <1>5 DEF FailJobWrite, TimelyInv, HeldRow
  <2> QED
    BY <1>5, <2>1, FailedColumns
<1>6. ASSUME NEW w \in Workers, TouchJob(w) \/ BumpJobHeartbeat(w)
      PROVE  Kept
  <2>1. PICK running : jobs' = Beaten(jobs, running)
    BY <1>6 DEF TouchJob, BumpJobHeartbeat
  <2> QED
    BY <2>1, BeatenColumns
<1>7. ASSUME NEW w \in Workers, RecoverWrite(w)
      PROVE  Kept
  <2>1. \A j \in sweeping[w] : jobs[j].status = "RUNNING"
    BY <1>7 DEF RecoverWrite, TimelyInv, SweptRows, StaleJobs
  <2>2. \A j \in JobIds : Readmitted(jobs, sweeping[w])[j].exp = jobs[j].exp
    BY DEF Readmitted, TypeOK, Row
  <2> QED
    BY <1>7, <2>1, <2>2, CommitOutcome, ReadmittedColumns DEF RecoverWrite
<1>8. CASE Tick
  <2>1. \A j \in JobIds : jobs[j] \in Row /\ jobs'[j] = Aged(jobs[j])
    BY <1>8 DEF Tick, TypeOK
  <2> QED
    BY <2>1, AgedColumns DEF RowsHaveCampaign
<1>9. Kept => /\ RowsHaveCampaign'
              /\ \A j \in JobIds : jobs[j].status # "ABSENT" => jobs'[j].exp = jobs[j].exp
  BY DEF RowsHaveCampaign
<1> QED
  BY <1>1, <1>2, <1>3, <1>4, <1>5, <1>6, <1>7, <1>8, <1>9
     DEF QueueNext, CallerStep, WorkerStep, queueVars, EnqueueSelect, LeaveJob,
         FailJobSelect, RecoverSelect

\* What a caller does to the queue leaves the claims of the others.
LEMMA OthersKeepClaim ==
  ASSUME TypeOK, NEW c, CallerStep(c) \/ WorkerStep(c) \/ UNCHANGED queueVars,
         NEW v \in Workers \ {c}
  PROVE  claim'[v] = claim[v] /\ quiet'[v] = quiet[v]
BY DEF TypeOK, CallerStep, WorkerStep, queueVars, EnqueueSelect, EnqueueInsert, LeaveJob, Claim,
       MarkJobCompleted, FailJobSelect, FailJobWrite, TouchJob, BumpJobHeartbeat, RecoverSelect,
       RecoverWrite, Heard

\* No two workers are busy with the same campaign: their jobs would both be
\* active, so one job, which no two workers hold.
LEMMA BusyApart ==
  ASSUME QueueFacts, WorkerInv, NEW v \in Workers, NEW w \in Workers,
         pc[v] \in Busy, pc[w] \in Busy, camp[v] = camp[w]
  PROVE  v = w
<1>1. /\ Holds(v) /\ jobs[claim[v].job].exp = camp[v]
      /\ Holds(w) /\ jobs[claim[w].job].exp = camp[w]
  BY DEF WorkerInv, InOrder, BusyWithJob
<1>2. /\ claim[v].job \in JobIds /\ jobs[claim[v].job].status = "RUNNING"
      /\ claim[w].job \in JobIds /\ jobs[claim[w].job].status = "RUNNING"
  BY <1>1, HeldIsFresh DEF QueueFacts, TimelyInv, HeldRow
<1>3. claim[v].job = claim[w].job
  BY <1>1, <1>2 DEF QueueFacts, OneActiveJob, UniqueActive, ActiveStatus
<1> QED
  BY <1>1, <1>3 DEF QueueFacts, TimelyInv, ExclusiveJob

\* Nobody is busy with a campaign that waits to be reset.
LEMMA ResetApart ==
  ASSUME QueueFacts, WorkerInv, NEW v \in Workers, NEW w \in Workers,
         pc[v] = "reset", pc[w] \in Busy
  PROVE  camp[v] # camp[w]
<1>1. PICK j \in JobIds : Cooling(j, camp[v])
  BY DEF WorkerInv, InOrder, WaitsForReset
<1>2. Holds(w) /\ jobs[claim[w].job].exp = camp[w]
  BY DEF WorkerInv, InOrder, BusyWithJob
<1>3. claim[w].job \in JobIds /\ jobs[claim[w].job].status = "RUNNING"
  BY <1>2, HeldIsFresh DEF QueueFacts, TimelyInv, HeldRow
<1> QED
  BY <1>1, <1>2, <1>3 DEF Cooling, QueueFacts, OneActiveJob, UniqueActive, ActiveStatus

\* The campaign of a busy worker is a campaign.
LEMMA BusyCampaign ==
  ASSUME QueueFacts, WorkerInv, NEW w \in Workers, pc[w] \in Busy
  PROVE  camp[w] \in Experiments
<1>1. Holds(w) /\ jobs[claim[w].job].exp = camp[w]
  BY DEF WorkerInv, InOrder, BusyWithJob
<1>2. claim[w].job \in JobIds /\ jobs[claim[w].job].status = "RUNNING"
  BY <1>1, HeldIsFresh DEF QueueFacts, TimelyInv, HeldRow
<1> QED
  BY <1>1, <1>2 DEF WorkerInv, RowsHaveCampaign

\* The campaign of a worker that executes it is never stale.
LEMMA RunnerIsFresh ==
  ASSUME WorkerTypeOK, QueueFacts, WorkerInv, NEW w \in Workers, pc[w] \in Executing
  PROVE  ~IsStale(camp[w])
<1>1. exps[camp[w]].heartbeat <= quiet[w] /\ quiet[w] \in 0 .. Timeout
  BY DEF WorkerInv, InOrder, RunnerRow, WorkerTypeOK, TypeOK
<1>2. camp[w] \in Experiments
  BY BusyCampaign DEF Busy
<1>3. exps[camp[w]].heartbeat \in 0 .. Timeout + 1
  BY <1>2 DEF WorkerTypeOK, Experiment, Age
<1> QED
  BY <1>1, <1>3, QueueConstants DEF IsStale

\* A worker moves nobody else.
LEMMA OthersKeepPlace ==
  ASSUME WorkerTypeOK, NEW u \in Workers, ProcessStep(u) \/ FaultStep(u),
         NEW v \in Workers \ {u}
  PROVE  pc'[v] = pc[v] /\ camp'[v] = camp[v]
<1>1. \A x : [pc EXCEPT ![u] = x][v] = pc[v] /\ [camp EXCEPT ![u] = x][v] = camp[v]
  BY DEF WorkerTypeOK
<1>2. CASE Recover(u)
  BY <1>1, <1>2 DEF Recover, Start, ResumeSelect, ResumeWrite, PendingSelect, ExpireWrite,
                    RequeueSelect, RequeueQueued, RequeueInsert, Requeued, JobSweepSelect,
                    JobSweepNothing, JobSweepWrite, workerVars, Goto
<1>3. CASE Execute(u)
  BY <1>1, <1>3 DEF Execute, ClaimJob, TouchCampaign, Acquire, Skip, RunStart, RunRound,
                    RunCompleted, RunFailed, Release, MarkSelect, MarkWrite, Goto
<1>4. CASE Settle(u)
  BY <1>1, <1>4 DEF Settle, SettleCompleted, SettleFailSelect, SettleRetry, SettleFailed,
                    ResetCampaign, BackToPoll, Goto
<1>5. CASE FaultStep(u)
  BY <1>1, <1>5 DEF FaultStep, Crash, Abandon, RunRaises, Forget, Goto
<1> QED
  BY <1>2, <1>3, <1>4, <1>5 DEF ProcessStep

\* A worker writes the campaign of its job, and those its recovery has read.
LEMMA ForeignRow ==
  ASSUME WorkerTypeOK, NEW u \in Workers, ProcessStep(u) \/ FaultStep(u), NEW e \in Experiments,
         pc[u] \in Busy \cup {"reset"} => camp[u] # e
  PROVE  \/ exps'[e] = exps[e]
         \/ ResumeWrite(u) /\ e \in stale[u]
         \/ ExpireWrite(u) /\ e \in expiring[u]
<1>1. exps \in [Experiments -> Experiment]
  BY DEF WorkerTypeOK
<1>2. CASE Recover(u)
  BY <1>2 DEF Recover, Start, ResumeSelect, ResumeWrite, PendingSelect, ExpireWrite,
              RequeueSelect, RequeueQueued, RequeueInsert, Requeued, JobSweepSelect,
              JobSweepNothing, JobSweepWrite, workerVars
<1>3. CASE Execute(u)
  <2>1. CASE ClaimJob(u) \/ Skip(u) \/ MarkSelect(u)
    BY <2>1 DEF ClaimJob, Skip, MarkSelect
  <2>2. CASE TouchCampaign(u) \/ Acquire(u) \/ RunStart(u) \/ RunRound(u) \/ RunCompleted(u)
             \/ RunFailed(u) \/ Release(u) \/ MarkWrite(u)
    <3>1. pc[u] \in Busy
      BY <2>2 DEF Busy, Executing, Settling, TouchCampaign, Acquire, RunStart, RunRound,
                  RunCompleted, RunFailed, Release, MarkWrite
    <3>2. \A d \in Experiments \ {camp[u]} : exps'[d] = exps[d]
      BY <1>1, <2>2, OneCampaignWritten
         DEF TouchCampaign, Acquire, RunStart, RunRound, RunCompleted, RunFailed, Release,
             MarkWrite, CampaignStatus
    <3> QED
      BY <3>1, <3>2
  <2> QED
    BY <1>3, <2>1, <2>2 DEF Execute
<1>4. CASE Settle(u)
  <2>1. ASSUME ResetCampaign(u)
        PROVE  exps'[e] = exps[e]
    <3>1. \A d \in Experiments \ {camp[u]} : exps'[d] = exps[d]
      BY <1>1, <2>1, OneCampaignWritten DEF ResetCampaign
    <3> QED
      BY <2>1, <3>1 DEF ResetCampaign
  <2> QED
    BY <1>4, <2>1 DEF Settle, SettleCompleted, SettleFailSelect, SettleRetry, SettleFailed
<1>5. CASE FaultStep(u)
  BY <1>5 DEF FaultStep, Crash, Abandon, RunRaises
<1> QED
  BY <1>2, <1>3, <1>4, <1>5 DEF ProcessStep

\* A worker never writes the campaign that another one executes: recovery
\* writes stale and PENDING rows, the rest writes the campaign of the worker.
LEMMA OthersKeepRow ==
  ASSUME WorkerTypeOK, QueueFacts, WorkerInv, NEW u \in Workers, ProcessStep(u) \/ FaultStep(u),
         NEW v \in Workers \ {u}, pc[v] \in Executing
  PROVE  exps'[camp[v]] = exps[camp[v]]
<1>1. /\ camp[v] \in Experiments
      /\ exps[camp[v]].status = "RUNNING" /\ ~IsStale(camp[v])
  BY BusyCampaign, RunnerIsFresh DEF Busy, WorkerInv, InOrder, RunnerRow
<1>2. pc[u] \in Busy \cup {"reset"} => camp[u] # camp[v]
  BY BusyApart, ResetApart DEF Busy
<1>3. ~(ResumeWrite(u) /\ camp[v] \in stale[u])
  BY <1>1 DEF ResumeWrite, WorkerInv, InOrder, ReadByRecovery
<1>4. ~(ExpireWrite(u) /\ camp[v] \in expiring[u])
  BY <1>1 DEF ExpireWrite, WorkerInv, InOrder, ReadByRecovery
<1> QED
  BY <1>1, <1>2, <1>3, <1>4, ForeignRow

\* What the queue keeps of its rows while the clock stands.
RowsStay ==
  \A j \in JobIds :
    /\ jobs[j].status # "ABSENT" => jobs'[j].exp = jobs[j].exp
    /\ jobs[j].status = "PENDING" /\ jobs[j].due > 0 => jobs'[j] = jobs[j]

\* A worker that a step leaves alone stays in order.
LEMMA StaysInOrder ==
  ASSUME QueueFacts, WorkerInv, RowsStay, NEW v \in Workers,
         pc'[v] = pc[v], camp'[v] = camp[v], claim'[v] = claim[v], quiet'[v] = quiet[v],
         pc[v] \in Executing => exps'[camp[v]] = exps[camp[v]],
         pc[v] \notin {"resuming", "expiring"}
  PROVE  InOrder(v)'
<1>1. BusyWithJob(v)'
  <2>1. Holds(v) => claim[v].job \in JobIds /\ jobs[claim[v].job].status = "RUNNING"
    BY HeldIsFresh DEF QueueFacts, TimelyInv, HeldRow
  <2> QED
    BY <2>1 DEF WorkerInv, InOrder, BusyWithJob, Holds, RowsStay
<1>2. WaitsForReset(v)'
  <2>1. pc[v] = "reset" => \E j \in JobIds : Cooling(j, camp[v])
    BY DEF WorkerInv, InOrder, WaitsForReset
  <2>2. \A j \in JobIds : Cooling(j, camp[v]) => Cooling(j, camp[v])'
    BY DEF Cooling, RowsStay
  <2> QED
    BY <2>1, <2>2 DEF WaitsForReset
<1>3. RunnerRow(v)'
  BY DEF WorkerInv, InOrder, RunnerRow
<1>4. ReadByRecovery(v)'
  BY DEF ReadByRecovery
<1> QED
  BY <1>1, <1>2, <1>3, <1>4 DEF InOrder

\* Recovery: the worker holds no job, and what it has read is what it read.
LEMMA RecoverInOrder ==
  ASSUME WorkerTypeOK, WorkerInv, NEW u \in Workers, Recover(u)
  PROVE  InOrder(u)'
<1>1. pc[u] \in Starting \cup {"down"} /\ pc'[u] \in Starting \cup {"down", "poll"}
  BY DEF Recover, Start, ResumeSelect, ResumeWrite, PendingSelect, ExpireWrite, RequeueSelect,
         RequeueQueued, RequeueInsert, Requeued, JobSweepSelect, JobSweepNothing, JobSweepWrite,
         workerVars, Goto, Starting, WorkerTypeOK
<1>2. claim'[u] = claim[u] /\ ~Holds(u)
  <2>1. ~Holds(u)
    BY <1>1 DEF WorkerInv, InOrder, BusyWithJob, Busy, Executing, Settling, Starting
  <2>2. claim' = claim
    BY DEF Recover, Start, ResumeSelect, ResumeWrite, PendingSelect, ExpireWrite, RequeueSelect,
           RequeueQueued, RequeueInsert, Requeued, JobSweepSelect, JobSweepNothing,
           JobSweepWrite, workerVars, queueVars, EnqueueSelect, EnqueueInsert, RecoverSelect,
           RecoverWrite
  <2> QED
    BY <2>1, <2>2
<1>3. BusyWithJob(u)' /\ WaitsForReset(u)' /\ RunnerRow(u)'
  BY <1>1, <1>2 DEF BusyWithJob, WaitsForReset, RunnerRow, Holds, Busy, Executing, Settling,
                    Starting
<1>4. ReadByRecovery(u)'
  <2>1. CASE ResumeSelect(u)
    BY <2>1 DEF ResumeSelect, ReadByRecovery, IsStale, Goto, WorkerTypeOK
  <2>2. CASE PendingSelect(u)
    BY <2>2 DEF PendingSelect, ReadByRecovery, TooOld, Waiting, Goto, WorkerTypeOK
  <2>3. CASE ~ResumeSelect(u) /\ ~PendingSelect(u)
    <3>1. pc'[u] \notin {"resuming", "expiring"}
      BY <2>3 DEF Recover, Start, ResumeWrite, ExpireWrite, RequeueSelect, RequeueQueued,
                  RequeueInsert, Requeued, JobSweepSelect, JobSweepNothing, JobSweepWrite,
                  workerVars, Goto, WorkerTypeOK
    <3> QED
      BY <3>1 DEF ReadByRecovery
  <2> QED
    BY <2>1, <2>2, <2>3
<1> QED
  BY <1>3, <1>4 DEF InOrder

\* A worker that keeps its job stays busy with it.
LEMMA StaysBusy ==
  ASSUME QueueFacts, WorkerInv, RowsStay, NEW u \in Workers,
         pc[u] \in Busy, pc'[u] \in Busy, claim'[u] = claim[u], camp'[u] = camp[u],
         RunnerRow(u)'
  PROVE  InOrder(u)'
<1>1. Holds(u) /\ claim[u].job \in JobIds /\ jobs[claim[u].job].status = "RUNNING"
  BY HeldIsFresh DEF QueueFacts, TimelyInv, HeldRow, WorkerInv, InOrder, BusyWithJob
<1>2. BusyWithJob(u)'
  BY <1>1 DEF WorkerInv, InOrder, BusyWithJob, Holds, RowsStay
<1>3. WaitsForReset(u)' /\ ReadByRecovery(u)'
  BY DEF Busy, Executing, Settling, WaitsForReset, ReadByRecovery
<1> QED
  BY <1>2, <1>3 DEF InOrder

\* A worker that has no job any more and does not recover.
LEMMA BackInOrder ==
  ASSUME NEW u \in Workers, claim'[u] = NoClaim, pc'[u] \in {"poll", "down"}
  PROVE  InOrder(u)'
BY DEF InOrder, BusyWithJob, WaitsForReset, RunnerRow, ReadByRecovery, Holds, NoClaim, Busy,
       Executing, Settling

\* An execution: from the claim to the end of the run the worker has its job,
\* and from acquire on the row of the campaign.
LEMMA ExecuteInOrder ==
  ASSUME WorkerTypeOK, WorkerTypeOK', QueueFacts, WorkerInv, RowsStay,
         NEW u \in Workers, Execute(u)
  PROVE  InOrder(u)'
<1>1. CASE ClaimJob(u)
  <2>1. PICK j \in JobIds : Claim(u, j) /\ camp' = [camp EXCEPT ![u] = jobs[j].exp]
    BY <1>1 DEF ClaimJob
  <2>2. pc'[u] = "touch" /\ camp'[u] = jobs[j].exp
    BY <1>1, <2>1 DEF ClaimJob, Goto, WorkerTypeOK
  <2>3. /\ claim'[u] = [job |-> j, attempt |-> jobs[j].attempts + 1]
        /\ jobs[j].attempts \in Nat
        /\ jobs[j].status = "PENDING"
    BY <2>1, ClaimedColumns DEF Claim, Oldest, Eligible, QueueFacts, TypeOK, Row
  <2>4. BusyWithJob(u)'
    BY <2>2, <2>3, QueueConstants DEF BusyWithJob, Holds, Busy, RowsStay
  <2>5. WaitsForReset(u)' /\ RunnerRow(u)' /\ ReadByRecovery(u)'
    BY <2>2 DEF WaitsForReset, RunnerRow, ReadByRecovery, Executing
  <2> QED
    BY <2>4, <2>5 DEF InOrder
<1>2. CASE ~ClaimJob(u)
  <2>1. pc[u] \in Busy /\ pc'[u] \in Busy /\ claim'[u] = claim[u] /\ camp'[u] = camp[u]
    BY <1>2 DEF Execute, TouchCampaign, Acquire, Skip, RunStart, RunRound, RunCompleted,
                RunFailed, Release, MarkSelect, MarkWrite, Goto, Busy, Executing, Settling,
                queueVars, BumpJobHeartbeat, WorkerTypeOK
  <2>2. camp[u] \in Experiments
    BY <2>1, BusyCampaign
  <2>3. quiet'[u] \in Nat
    BY DEF WorkerTypeOK, TypeOK
  <2>4. exps[camp[u]] \in Experiment
    BY <2>2 DEF WorkerTypeOK
  <2>5. RunnerRow(u)'
    <3>1. CASE Acquire(u)
      BY <2>1, <2>2, <2>3, <2>4, <3>1 DEF Acquire, RunnerRow, Experiment, WorkerTypeOK
    <3>2. CASE RunStart(u)
      BY <2>1, <2>2, <2>3, <2>4, <3>2
         DEF RunStart, StatusWritten, WorkerInv, InOrder, RunnerRow, Executing, Experiment,
             WorkerTypeOK
    <3>3. CASE RunRound(u)
      BY <2>1, <2>2, <2>3, <2>4, <3>3
         DEF RunRound, WorkerInv, InOrder, RunnerRow, Executing, Experiment, WorkerTypeOK
    <3>4. CASE ~Acquire(u) /\ ~RunStart(u) /\ ~RunRound(u)
      <4>1. pc'[u] \notin Executing
        BY <1>2, <3>4 DEF Execute, TouchCampaign, Skip, RunCompleted, RunFailed, Release,
                          MarkSelect, MarkWrite, Goto, Executing, WorkerTypeOK
      <4> QED
        BY <4>1 DEF RunnerRow
    <3> QED
      BY <3>1, <3>2, <3>3, <3>4
  <2> QED
    BY <2>1, <2>5, StaysBusy
<1> QED
  BY <1>1, <1>2

\* Settling: a job that is retried is not due before its backoff is over.
LEMMA SettleInOrder ==
  ASSUME WorkerTypeOK, QueueFacts, WorkerInv, RowsStay, NEW u \in Workers, Settle(u)
  PROVE  InOrder(u)'
<1>1. CASE SettleCompleted(u) \/ SettleFailed(u)
  <2>1. claim'[u] = NoClaim /\ pc'[u] = "poll"
    BY <1>1 DEF SettleCompleted, SettleFailed, BackToPoll, Goto, MarkJobCompleted, FailJobWrite,
                WorkerTypeOK, TypeOK
  <2> QED
    BY <2>1, BackInOrder
<1>2. CASE SettleFailSelect(u)
  <2>1. /\ pc[u] = "fail" /\ pc'[u] = "failing"
        /\ claim'[u] = claim[u] /\ camp'[u] = camp[u]
    BY <1>2 DEF SettleFailSelect, FailJobSelect, Goto, WorkerTypeOK
  <2>2. RunnerRow(u)'
    BY <2>1 DEF RunnerRow, Executing
  <2> QED
    BY <2>1, <2>2, StaysBusy DEF Busy, Settling
<1>3. CASE SettleRetry(u)
  <2>1. pc'[u] = "reset" /\ claim'[u] = NoClaim /\ camp'[u] = camp[u]
    BY <1>3 DEF SettleRetry, FailJobWrite, Goto, WorkerTypeOK, TypeOK
  <2>2. PICK j \in JobIds : j = claim[u].job /\ Holds(u) /\ FailJobWrite(u)
    BY <1>3, HeldIsFresh DEF SettleRetry, FailJobWrite, QueueFacts
  <2>3. jobs'[j] = FailedRow(jobs[j], failing[u])
    BY <1>3, <2>2 DEF SettleRetry, FailJobWrite, Commit, FailedTable, QueueFacts, TypeOK
  <2>4. failing[u].status = "RUNNING" /\ failing[u].attempts = claim[u].attempt
    <3>1. failing[u] = [status |-> "RUNNING", attempts |-> claim[u].attempt]
      BY <2>2 DEF FailJobWrite, QueueFacts, TimelyInv, FailingRow
    <3> QED
      BY <3>1
  <2>5. claim[u].attempt \in Nat /\ claim[u].attempt > 0
    BY <2>2 DEF QueueFacts, TypeOK, WorkerInv, InOrder, BusyWithJob
  <2>6. Backoff * claim[u].attempt > 0
    BY <2>5, QueueConstants
  <2>7. /\ jobs[j] \in Row /\ jobs[j].exp = camp[u]
        /\ failing[u].attempts < MaxAttempts
    BY <1>3, <2>2 DEF SettleRetry, Retryable, QueueFacts, TypeOK, WorkerInv, InOrder,
                      BusyWithJob
  <2>8. Cooling(j, camp[u])'
    <3>1. FailedRow(jobs[j], failing[u]) =
            [jobs[j] EXCEPT !.status = "PENDING", !.heartbeat = 0,
                            !.due = Backoff * claim[u].attempt]
      BY <2>4, <2>7 DEF FailedRow
    <3>2. /\ FailedRow(jobs[j], failing[u]).exp = camp[u]
          /\ FailedRow(jobs[j], failing[u]).status = "PENDING"
          /\ FailedRow(jobs[j], failing[u]).due = Backoff * claim[u].attempt
      BY <2>7, <3>1 DEF Row
    <3>3. jobs'[j].exp = camp'[u] /\ jobs'[j].status = "PENDING" /\ jobs'[j].due > 0
      BY <2>1, <2>3, <2>6, <3>2
    <3> QED
      BY <3>3 DEF Cooling
  <2> QED
    BY <2>1, <2>8 DEF InOrder, BusyWithJob, WaitsForReset, RunnerRow, ReadByRecovery,
                            Holds, NoClaim, Busy, Executing, Settling
<1>4. CASE ResetCampaign(u)
  <2>1. pc[u] = "reset" /\ pc'[u] = "poll" /\ claim'[u] = claim[u]
    BY <1>4 DEF ResetCampaign, BackToPoll, Goto, queueVars, WorkerTypeOK
  <2>2. claim[u].job = NoJob
    BY <2>1 DEF WorkerInv, InOrder, BusyWithJob, Holds, Busy, Executing, Settling
  <2> QED
    BY <2>1, <2>2 DEF InOrder, BusyWithJob, WaitsForReset, RunnerRow, ReadByRecovery, Holds,
                      Busy, Executing, Settling
<1> QED
  BY <1>1, <1>2, <1>3, <1>4 DEF Settle

\* A worker that fails has lost its job, or the run and not the job.
LEMMA FaultInOrder ==
  ASSUME WorkerTypeOK, QueueFacts, WorkerInv, RowsStay, NEW u \in Workers, FaultStep(u)
  PROVE  InOrder(u)'
<1>1. CASE Crash(u) \/ Abandon(u)
  <2>1. claim'[u] = NoClaim /\ pc'[u] \in {"poll", "down"}
    BY <1>1 DEF Crash, Abandon, Forget, LeaveJob, Goto, WorkerTypeOK
  <2> QED
    BY <2>1, BackInOrder
<1>2. CASE RunRaises(u)
  <2>1. /\ pc[u] \in Busy /\ pc'[u] \in Settling
        /\ claim'[u] = claim[u] /\ camp'[u] = camp[u]
    BY <1>2 DEF RunRaises, Goto, queueVars, Busy, Executing, Settling, WorkerTypeOK
  <2>2. RunnerRow(u)'
    BY <2>1 DEF RunnerRow, Executing, Settling
  <2> QED
    BY <2>1, <2>2, StaysBusy DEF Busy
<1> QED
  BY <1>1, <1>2 DEF FaultStep

\* The clock: no run is quiet long enough to be stale, no retry becomes due
\* before its campaign is reset.
LEMMA ClockInOrder ==
  ASSUME TimelyWorkers, WorkerTypeOK, QueueFacts, WorkerInv,
         \A j \in JobIds : jobs[j].status # "ABSENT" => jobs'[j].exp = jobs[j].exp,
         \A w \in Workers : ~MidTransaction(w), ClockTick, NEW v \in Workers
  PROVE  InOrder(v)'
<1>1. /\ UNCHANGED <<pc, camp, claim, stale, expiring>>
      /\ WorkersOnTime /\ OnTime
      /\ quiet'[v] = Quieter(v)
      /\ \A j \in JobIds : jobs[j] \in Row /\ jobs'[j] = Aged(jobs[j])
  BY DEF ClockTick, Tick, recoveryVars, QueueFacts, TypeOK
<1>2. BusyWithJob(v)'
  <2>1. Holds(v) => claim[v].job \in JobIds /\ jobs[claim[v].job].status = "RUNNING"
    BY HeldIsFresh DEF QueueFacts, TimelyInv, HeldRow
  <2> QED
    BY <1>1, <2>1 DEF WorkerInv, InOrder, BusyWithJob, Holds
<1>3. WaitsForReset(v)'
  <2> SUFFICES ASSUME pc[v] = "reset"
               PROVE  \E j \in JobIds : Cooling(j, camp[v])'
    BY <1>1 DEF WaitsForReset, Cooling
  <2>1. PICK j \in JobIds : Cooling(j, camp[v])
    BY DEF WorkerInv, InOrder, WaitsForReset
  <2>2. jobs[j].due > 1
    BY <1>1, <2>1 DEF WorkersOnTime, ActiveJobs, ActiveStatus, Cooling
  <2>3. jobs[j].due \in Int
    BY <1>1 DEF Row
  <2>4. jobs'[j] = [jobs[j] EXCEPT !.due = jobs[j].due - 1]
    <3>1. ~(jobs[j].due < 0) /\ jobs[j].status = "PENDING"
      BY <2>1, <2>2, <2>3 DEF Cooling
    <3> QED
      BY <1>1, <3>1 DEF Aged
  <2>5. jobs'[j].exp = camp[v] /\ jobs'[j].status = "PENDING" /\ jobs'[j].due > 0
    BY <1>1, <2>1, <2>2, <2>3, <2>4 DEF Cooling, Row
  <2> QED
    BY <1>1, <2>5 DEF Cooling
<1>4. RunnerRow(v)'
  <2> SUFFICES ASSUME pc[v] \in Executing
               PROVE  /\ exps'[camp[v]].owner = v
                      /\ exps'[camp[v]].status = "RUNNING"
                      /\ exps'[camp[v]].heartbeat <= quiet'[v]
    BY <1>1 DEF RunnerRow
  <2>1. Holds(v) /\ camp[v] \in Experiments
    BY BusyCampaign DEF WorkerInv, InOrder, BusyWithJob, Busy
  <2>2. quiet'[v] = quiet[v] + 1 /\ quiet[v] \in Nat /\ quiet[v] < Timeout
    BY <1>1, <2>1 DEF Quieter, OnTime, QueueFacts, TypeOK
  <2>3. /\ exps[camp[v]] \in Experiment
        /\ exps[camp[v]].owner = v
        /\ exps[camp[v]].status = "RUNNING"
        /\ exps[camp[v]].heartbeat <= quiet[v]
    BY <2>1 DEF WorkerTypeOK, WorkerInv, InOrder, RunnerRow
  <2>4. exps'[camp[v]] = [exps[camp[v]] EXCEPT !.heartbeat = Older(exps[camp[v]].heartbeat),
                                               !.created = Older(exps[camp[v]].created)]
    BY <2>1, <2>3 DEF ClockTick, AgedCampaign
  <2>5. /\ exps'[camp[v]].owner = v
        /\ exps'[camp[v]].status = "RUNNING"
        /\ exps'[camp[v]].heartbeat = Older(exps[camp[v]].heartbeat)
    BY <2>3, <2>4 DEF Experiment
  <2>6. exps[camp[v]].heartbeat \in Nat
    BY <2>3, QueueConstants DEF Experiment, Age
  <2> QED
    BY <2>2, <2>3, <2>5, <2>6, QueueConstants DEF Older
<1>5. ReadByRecovery(v)'
  BY <1>1 DEF ReadByRecovery, MidTransaction
<1> QED
  BY <1>2, <1>3, <1>4, <1>5 DEF InOrder

\* A request creates a campaign where there was none.
LEMMA RequestKeepsRow ==
  ASSUME WorkerTypeOK, QueueFacts, WorkerInv, NEW r \in Requests, RequestStep(r),
         NEW v \in Workers
  PROVE  /\ UNCHANGED <<pc, camp>>
         /\ pc[v] \in Executing => exps'[camp[v]] = exps[camp[v]]
<1>1. UNCHANGED <<pc, camp>>
  BY DEF RequestStep, CreateCampaign, SubmitSelect, SubmitQueued, SubmitInsert, SubmitLost,
         workerVars
<1>2. ASSUME NEW e \in Experiments, CreateCampaign(r, e), pc[v] \in Executing
      PROVE  exps'[camp[v]] = exps[camp[v]]
  <2>1. exps[camp[v]].status = "RUNNING" /\ camp[v] \in Experiments
    BY <1>2, BusyCampaign DEF WorkerInv, InOrder, RunnerRow, Busy
  <2> QED
    BY <1>2, <2>1 DEF CreateCampaign, WorkerTypeOK
<1> QED
  BY <1>1, <1>2 DEF RequestStep, SubmitSelect, SubmitQueued, SubmitInsert, SubmitLost,
                    workerVars

\* While the clock stands, the queue keeps what the others rely on.
LEMMA QueueRowsStay ==
  ASSUME QueueFacts, WorkerInv, [QueueNext]_queueVars, NEW c \in Callers,
         CallerStep(c) \/ (c \in Workers /\ WorkerStep(c)) \/ UNCHANGED queueVars
  PROVE  RowsStay
<1>1. \A j \in JobIds : jobs[j].status # "ABSENT" => jobs'[j].exp = jobs[j].exp
  BY RowsKeepCampaign DEF WorkerInv
<1>2. \A j \in JobIds :
        jobs[j].status = "PENDING" /\ jobs[j].due > 0 => jobs'[j] = jobs[j]
  BY WaitingRowStays
<1> QED
  BY <1>1, <1>2 DEF RowsStay

\* Every step of workers on time keeps every worker in order.
LEMMA WorkerInvariant ==
  ASSUME TimelyWorkers, ShortTransactions
  PROVE  Spec => []WorkerInv
<1>1. Init => WorkerInv
  <2> SUFFICES ASSUME Init PROVE WorkerInv
    OBVIOUS
  <2>1. RowsHaveCampaign
    BY DEF Init, QueueInit, RowsHaveCampaign, NoRow
  <2>2. \A w \in Workers : InOrder(w)
    BY DEF Init, QueueInit, InOrder, BusyWithJob, WaitsForReset, RunnerRow, ReadByRecovery,
           Holds, NoClaim, Busy, Executing, Settling
  <2> QED
    BY <2>1, <2>2 DEF WorkerInv
<1>2. /\ WorkerTypeOK /\ WorkerTypeOK' /\ QueueFacts /\ WorkerInv
      /\ [Next]_vars /\ [QueueNext]_queueVars
      => WorkerInv'
  <2> SUFFICES ASSUME WorkerTypeOK, WorkerTypeOK', QueueFacts, WorkerInv,
                      [Next]_vars, [QueueNext]_queueVars
               PROVE  WorkerInv'
    OBVIOUS
  <2>1. /\ RowsHaveCampaign'
        /\ \A j \in JobIds : jobs[j].status # "ABSENT" => jobs'[j].exp = jobs[j].exp
    BY RowsKeepCampaign DEF WorkerInv
  <2>2. ASSUME NEW r \in Requests, Alone(r), RequestStep(r)
        PROVE  \A v \in Workers : InOrder(v)'
    <3>1. r \in Callers /\ r \notin Workers
      BY WorkerConstants
    <3>2. CallerStep(r) \/ UNCHANGED queueVars
      BY <2>2, RequestUsesQueue DEF WorkerTypeOK, SubmittingOK
    <3>3. RowsStay
      BY <3>1, <3>2, QueueRowsStay
    <3> TAKE v \in Workers
    <3>4. claim'[v] = claim[v] /\ quiet'[v] = quiet[v]
      BY <3>1, <3>2, OthersKeepClaim DEF QueueFacts
    <3>5. UNCHANGED <<pc, camp>> /\ (pc[v] \in Executing => exps'[camp[v]] = exps[camp[v]])
      BY <2>2, RequestKeepsRow
    <3>6. pc[v] \notin {"resuming", "expiring"}
      BY <2>2, <3>1 DEF Alone, MidTransaction
    <3> QED
      BY <3>3, <3>4, <3>5, <3>6, StaysInOrder
  <2>3. ASSUME NEW u \in Workers, Alone(u), ProcessStep(u) \/ FaultStep(u)
        PROVE  \A v \in Workers : InOrder(v)'
    <3>1. u \in Callers
      BY QueueConstants
    <3>2. CallerStep(u) \/ WorkerStep(u) \/ UNCHANGED queueVars
      BY <2>3, ProcessUsesQueue
    <3>3. RowsStay
      BY <3>1, <3>2, QueueRowsStay
    <3>4. InOrder(u)'
      BY <2>3, <3>3, RecoverInOrder, ExecuteInOrder, SettleInOrder, FaultInOrder
         DEF ProcessStep
    <3>5. ASSUME NEW v \in Workers \ {u}
          PROVE  InOrder(v)'
      <4>1. claim'[v] = claim[v] /\ quiet'[v] = quiet[v]
        BY <3>2, OthersKeepClaim DEF QueueFacts
      <4>2. pc'[v] = pc[v] /\ camp'[v] = camp[v]
        BY <2>3, OthersKeepPlace
      <4>3. pc[v] \in Executing => exps'[camp[v]] = exps[camp[v]]
        BY <2>3, OthersKeepRow
      <4>4. pc[v] \notin {"resuming", "expiring"}
        BY <2>3 DEF Alone, MidTransaction
      <4> QED
        BY <3>3, <4>1, <4>2, <4>3, <4>4, StaysInOrder
    <3> QED
      BY <3>4, <3>5
  <2>4. ASSUME \A w \in Workers : ~MidTransaction(w), ClockTick
        PROVE  \A v \in Workers : InOrder(v)'
    BY <2>1, <2>4, ClockInOrder
  <2>5. CASE UNCHANGED vars
    BY <2>5 DEF vars, workerVars, queueVars, WorkerInv, InOrder, BusyWithJob, WaitsForReset,
                Cooling, RunnerRow, ReadByRecovery, IsStale, Holds, RowsHaveCampaign
  <2> QED
    BY <2>1, <2>2, <2>3, <2>4, <2>5 DEF Next, WorkerInv
<1>3. TypeOK /\ TimelyInv /\ OneActiveJob => QueueFacts
  BY DEF QueueFacts
<1>4. QueueSpec => [][QueueNext]_queueVars
  BY PTL DEF QueueSpec
<1> QED
  BY <1>1, <1>2, <1>3, <1>4, WorkersUseQueue, QueueTypeCorrect, OneActiveJobHolds,
     TimelyInvariant, WorkerTypeCorrect, PTL DEF Spec

\* Whoever executes a campaign owns its lease, and the table says RUNNING.
THEOREM RunnerOwnsLeaseHolds ==
  ASSUME TimelyWorkers, ShortTransactions
  PROVE  Spec => []RunnerOwnsLease
<1>1. WorkerInv => RunnerOwnsLease
  BY DEF WorkerInv, InOrder, RunnerRow, RunnerOwnsLease
<1> QED
  BY <1>1, WorkerInvariant, PTL

\* Two workers never execute the same campaign concurrently.
THEOREM MutualExclusionHolds ==
  ASSUME TimelyWorkers, ShortTransactions
  PROVE  Spec => []MutualExclusion
<1>1. RunnerOwnsLease => MutualExclusion
  BY DEF RunnerOwnsLease, MutualExclusion
<1> QED
  BY <1>1, RunnerOwnsLeaseHolds, PTL

\* What is known of the workers in every state and of every step.
LEMMA WorkerFacts ==
  ASSUME TimelyWorkers, ShortTransactions
  PROVE  Spec => [](WorkerTypeOK /\ QueueFacts /\ WorkerInv)
<1>1. TypeOK /\ TimelyInv /\ OneActiveJob => QueueFacts
  BY DEF QueueFacts
<1> QED
  BY <1>1, WorkersUseQueue, QueueTypeCorrect, OneActiveJobHolds, TimelyInvariant,
     WorkerTypeCorrect, WorkerInvariant, PTL

\* The row of a campaign that is executed changes under its worker and the
\* clock only, and the clock leaves its status.
LEMMA ExecutedRow ==
  ASSUME TimelyWorkers, ShortTransactions, WorkerTypeOK, QueueFacts, WorkerInv, Next,
         NEW w \in Workers, pc[w] \in Executing
  PROVE  \/ exps'[camp[w]].status = "RUNNING"
         \/ RunCompleted(w) /\ exps' = StatusWritten(camp[w], "COMPLETED")
         \/ RunFailed(w) /\ exps' = StatusWritten(camp[w], "FAILED")
<1>1. camp[w] \in Experiments /\ exps[camp[w]].status = "RUNNING"
  BY BusyCampaign DEF Busy, WorkerInv, InOrder, RunnerRow
<1>2. exps[camp[w]] \in Experiment
  BY <1>1 DEF WorkerTypeOK
<1>3. ASSUME NEW r \in Requests, RequestStep(r)
      PROVE  exps'[camp[w]].status = "RUNNING"
  BY <1>1, <1>3, RequestKeepsRow
<1>4. ASSUME NEW u \in Workers \ {w}, ProcessStep(u) \/ FaultStep(u)
      PROVE  exps'[camp[w]].status = "RUNNING"
  BY <1>1, <1>4, OthersKeepRow
<1>5. CASE Recover(w) \/ Settle(w)
  <2>1. pc[w] \notin Executing
    BY <1>5 DEF Recover, Start, ResumeSelect, ResumeWrite, PendingSelect, ExpireWrite,
                RequeueSelect, RequeueQueued, RequeueInsert, Requeued, JobSweepSelect,
                JobSweepNothing, JobSweepWrite, Settle, SettleCompleted, SettleFailSelect,
                SettleRetry, SettleFailed, ResetCampaign, Executing
  <2> QED
    BY <2>1
<1>6. CASE FaultStep(w)
  BY <1>1, <1>6 DEF FaultStep, Crash, Abandon, RunRaises
<1>7. CASE RunStart(w)
  BY <1>1, <1>2, <1>7 DEF RunStart, StatusWritten, WorkerTypeOK, Experiment
<1>8. CASE RunRound(w)
  BY <1>1, <1>2, <1>8 DEF RunRound, WorkerTypeOK, Experiment
<1>9. CASE Execute(w) /\ ~RunStart(w) /\ ~RunRound(w) /\ ~RunCompleted(w) /\ ~RunFailed(w)
  BY <1>9 DEF Execute, ClaimJob, TouchCampaign, Acquire, Skip, Release, MarkSelect, MarkWrite,
              Executing
<1>10. CASE RunCompleted(w) \/ RunFailed(w)
  BY <1>10 DEF RunCompleted, RunFailed
<1>11. CASE ClockTick
  BY <1>1, <1>2, <1>11 DEF ClockTick, AgedCampaign, Experiment
<1> QED
  BY <1>3, <1>4, <1>5, <1>6, <1>7, <1>8, <1>9, <1>10, <1>11 DEF Next, ProcessStep

\* No step finishes a campaign that another worker executes.
THEOREM FinishedByRunnerHolds ==
  ASSUME TimelyWorkers, ShortTransactions
  PROVE  Spec => FinishedByRunner
<1> DEFINE Own == \A e \in Experiments, w \in Workers :
                    /\ pc[w] \in Executing /\ camp[w] = e
                    /\ exps[e].status = "RUNNING" /\ exps'[e].status \in Finished
                    => pc'[w] = "release"
<1>1. WorkerTypeOK /\ QueueFacts /\ WorkerInv /\ [Next]_vars => [Own]_vars
  <2> SUFFICES ASSUME WorkerTypeOK, QueueFacts, WorkerInv, Next,
                      NEW w \in Workers, pc[w] \in Executing,
                      exps'[camp[w]].status \in Finished
               PROVE  pc'[w] = "release"
    OBVIOUS
  <2>1. RunCompleted(w) \/ RunFailed(w)
    BY ExecutedRow DEF Finished
  <2> QED
    BY <2>1 DEF RunCompleted, RunFailed, Goto, WorkerTypeOK
<1> QED
  BY <1>1, WorkerFacts, PTL DEF Spec, FinishedByRunner
=============================================================================
