----------------------- MODULE CampaignLifecycle_proofs -----------------------
(***************************************************************************)
(* Workers on time whose database does not fail implement the life cycle   *)
(* of a campaign, crashes and restarts included.                           *)
(*                                                                         *)
(* The second half is about the time before the first fault: no campaign   *)
(* is left without a job or a worker (NoOrphans), and a settled job says   *)
(* how its campaign ended (JobsTellTheTruth).  The inductive invariant is  *)
(* "faults = 0 => Calm".  Calm relates the two tables to the program       *)
(* counters: a RUNNING row has the worker that holds or executes it, a     *)
(* PENDING campaign a job or somebody about to insert one, and a job is    *)
(* settled only when nobody will write its campaign any more.  What a step *)
(* does to one row is said once, in JobMoves and CampaignMoves.            *)
(***************************************************************************)
EXTENDS CampaignWorker_proofs

\* The execution has failed and its job is not settled, or its campaign not
\* yet reset.
Unsettled(w) ==
  \/ pc[w] = "release" /\ outcome[w] = "failed"
  \/ pc[w] \in {"fail", "failing", "reset"}

\* The end of an execution is in the table before its lease is released, and
\* stays there until the job is settled.
EndWritten(w) ==
  /\ pc[w] \notin {"mark", "marking"}
  /\ pc[w] = "release" => outcome[w] \in {"completed", "failed"}
  /\ Unsettled(w) => exps[camp[w]].status = "FAILED"

OneReset ==
  \A v, w \in Workers :
    pc[v] = "reset" /\ pc[w] = "reset" /\ camp[v] = camp[w] => v = w

EndInv == OneReset /\ \A w \in Workers : EndWritten(w)

\* Everything that is known of a state.
Facts == WorkerTypeOK /\ QueueFacts /\ WorkerInv

\* The clock leaves the status of a campaign alone.
LEMMA ClockKeepsStatus ==
  ASSUME Facts, ClockTick
  PROVE  \A e \in Experiments : exps'[e].status = exps[e].status
<1> SUFFICES ASSUME NEW e \in Experiments PROVE exps'[e].status = exps[e].status
  OBVIOUS
<1>1. exps'[e] = AgedCampaign(exps[e]) /\ exps[e] \in Experiment
  BY DEF ClockTick, Facts, WorkerTypeOK
<1>2. CASE exps[e].status = "ABSENT"
  BY <1>1, <1>2 DEF AgedCampaign
<1>3. CASE exps[e].status = "RUNNING"
  BY <1>1, <1>3 DEF AgedCampaign, Experiment
<1>4. CASE exps[e].status \notin {"ABSENT", "RUNNING"}
  BY <1>1, <1>4 DEF AgedCampaign, Experiment
<1> QED
  BY <1>2, <1>3, <1>4

\* The campaign of an unsettled worker is a campaign.
LEMMA UnsettledCampaign ==
  ASSUME Facts, NEW v \in Workers, Unsettled(v)
  PROVE  camp[v] \in Experiments
<1>1. CASE pc[v] = "reset"
  BY <1>1 DEF Facts, WorkerInv, InOrder, WaitsForReset, Cooling, RowsHaveCampaign
<1>2. CASE pc[v] # "reset"
  BY <1>2, BusyCampaign DEF Facts, Unsettled, Busy, Settling
<1> QED
  BY <1>1, <1>2

\* Nobody else is about to write the campaign of an unsettled worker.
LEMMA UnsettledApart ==
  ASSUME Facts, EndInv, NEW v \in Workers, Unsettled(v),
         NEW u \in Workers \ {v}, pc[u] \in Busy \cup {"reset"}
  PROVE  camp[u] # camp[v]
<1>1. CASE pc[v] = "reset"
  BY <1>1, ResetApart DEF Facts, EndInv, OneReset
<1>2. CASE pc[v] # "reset"
  BY <1>2, BusyApart, ResetApart DEF Facts, Unsettled, Busy, Settling
<1> QED
  BY <1>1, <1>2

\* An unsettled campaign stays FAILED whatever the other workers do.
LEMMA OthersKeepFailed ==
  ASSUME Facts, EndInv, NEW u \in Workers, ProcessStep(u) \/ FaultStep(u),
         NEW v \in Workers \ {u}, Unsettled(v)
  PROVE  exps'[camp[v]].status = "FAILED"
<1>1. camp[v] \in Experiments /\ exps[camp[v]].status = "FAILED"
  BY UnsettledCampaign DEF EndInv, EndWritten
<1>2. pc[u] \in Busy \cup {"reset"} => camp[u] # camp[v]
  BY UnsettledApart
<1>3. ~(ResumeWrite(u) /\ camp[v] \in stale[u])
  BY <1>1 DEF ResumeWrite, Facts, WorkerInv, InOrder, ReadByRecovery, IsStale
<1>4. ~(ExpireWrite(u) /\ camp[v] \in expiring[u])
  BY <1>1 DEF ExpireWrite, Facts, WorkerInv, InOrder, ReadByRecovery
<1> QED
  BY <1>1, <1>2, <1>3, <1>4, ForeignRow DEF Facts

\* A worker writes nobody else's outcome.
LEMMA OthersKeepOutcome ==
  ASSUME WorkerTypeOK, NEW u \in Workers, ProcessStep(u) \/ FaultStep(u),
         NEW v \in Workers \ {u}
  PROVE  outcome'[v] = outcome[v]
<1> USE DEF WorkerTypeOK
<1>1. CASE Recover(u)
  BY <1>1 DEF Recover, Start, ResumeSelect, ResumeWrite, PendingSelect, ExpireWrite,
              RequeueSelect, RequeueQueued, RequeueInsert, Requeued, JobSweepSelect,
              JobSweepNothing, JobSweepWrite, workerVars
<1>2. CASE Execute(u)
  BY <1>2 DEF Execute, ClaimJob, TouchCampaign, Acquire, Skip, RunStart, RunRound,
              RunCompleted, RunFailed, Release, MarkSelect, MarkWrite
<1>3. CASE Settle(u)
  BY <1>3 DEF Settle, SettleCompleted, SettleFailSelect, SettleRetry, SettleFailed,
              ResetCampaign, BackToPoll
<1>4. CASE FaultStep(u)
  BY <1>4 DEF FaultStep, Crash, Abandon, RunRaises, Forget
<1> QED
  BY <1>1, <1>2, <1>3, <1>4 DEF ProcessStep

\* What an own step makes of the end of an execution, unless the run raises.
LEMMA OwnEndWritten ==
  ASSUME Facts, EndInv, NEW u \in Workers, ProcessStep(u) \/ Crash(u)
  PROVE  EndWritten(u)'
<1> USE DEF Facts
<1>1. CASE Recover(u)
  <2>1. pc'[u] \in Starting \cup {"down", "poll"}
    BY <1>1 DEF Recover, Start, ResumeSelect, ResumeWrite, PendingSelect, ExpireWrite,
           RequeueSelect, RequeueQueued, RequeueInsert, Requeued, JobSweepSelect,
           JobSweepNothing, JobSweepWrite, workerVars, Goto, Starting, WorkerTypeOK
  <2> QED
    BY <2>1 DEF EndWritten, Unsettled, Starting
<1>2. CASE Execute(u)
  <2>1. CASE RunFailed(u)
    <3>1. camp[u] \in Experiments
      BY <2>1, BusyCampaign DEF RunFailed, Busy
    <3>2. exps'[camp[u]].status = "FAILED"
      BY <2>1, <3>1 DEF RunFailed, StatusWritten, WorkerTypeOK, Experiment
    <3>3. pc'[u] = "release" /\ outcome'[u] = "failed" /\ camp'[u] = camp[u]
      BY <2>1 DEF RunFailed, Goto, WorkerTypeOK
    <3> QED
      BY <3>2, <3>3 DEF EndWritten, Unsettled
  <2>2. CASE RunCompleted(u)
    <3>1. pc'[u] = "release" /\ outcome'[u] = "completed"
      BY <2>2 DEF RunCompleted, Goto, WorkerTypeOK
    <3> QED
      BY <3>1 DEF EndWritten, Unsettled
  <2>3. CASE Release(u)
    <3>1. /\ outcome[u] \in {"completed", "failed"}
          /\ outcome[u] = "failed" => exps[camp[u]].status = "FAILED"
      BY <2>3 DEF Release, EndInv, EndWritten, Unsettled
    <3>2. pc'[u] = IF outcome[u] = "completed" THEN "complete" ELSE "fail"
      BY <2>3, <3>1 DEF Release, Goto, WorkerTypeOK
    <3>3. camp'[u] = camp[u] /\ camp[u] \in Experiments
      BY <2>3, BusyCampaign DEF Release, Busy, Settling
    <3>4. exps'[camp[u]].status = exps[camp[u]].status
      BY <2>3, <3>3 DEF Release, WorkerTypeOK, Experiment
    <3> QED
      BY <3>1, <3>2, <3>3, <3>4 DEF EndWritten, Unsettled
  <2>4. CASE ~RunFailed(u) /\ ~RunCompleted(u) /\ ~Release(u)
    <3>1. pc'[u] \in {"touch", "acquire", "start", "round", "complete"}
      BY <1>2, <2>4 DEF Execute, ClaimJob, TouchCampaign, Acquire, Skip, RunStart, RunRound,
                        MarkSelect, MarkWrite, Goto, EndInv, EndWritten, WorkerTypeOK
    <3> QED
      BY <3>1 DEF EndWritten, Unsettled
  <2> QED
    BY <2>1, <2>2, <2>3, <2>4
<1>3. CASE Settle(u)
  <2>1. CASE SettleFailSelect(u) \/ SettleRetry(u)
    <3>1. /\ pc[u] \in {"fail", "failing"} /\ pc'[u] \in {"failing", "reset"}
          /\ camp'[u] = camp[u] /\ exps' = exps
      BY <2>1 DEF SettleFailSelect, SettleRetry, Goto, WorkerTypeOK
    <3> QED
      BY <3>1 DEF EndInv, EndWritten, Unsettled
  <2>2. CASE ~SettleFailSelect(u) /\ ~SettleRetry(u)
    <3>1. pc'[u] = "poll"
      BY <1>3, <2>2 DEF Settle, SettleCompleted, SettleFailed, ResetCampaign, BackToPoll, Goto,
                        WorkerTypeOK
    <3> QED
      BY <3>1 DEF EndWritten, Unsettled
  <2> QED
    BY <2>1, <2>2
<1>4. CASE Crash(u)
  <2>1. pc'[u] = "down"
    BY <1>4 DEF Crash, Goto, WorkerTypeOK
  <2> QED
    BY <2>1 DEF EndWritten, Unsettled
<1> QED
  BY <1>1, <1>2, <1>3, <1>4 DEF ProcessStep

\* A step during which no worker fails but by dying keeps the end of every
\* execution in the table.
LEMMA EndStays ==
  ASSUME Facts, EndInv, [Next]_vars, \A w \in Workers : FaultStep(w) => Crash(w)
  PROVE  EndInv'
<1>1. ASSUME UNCHANGED <<pc, camp, outcome>>,
             \A e \in Experiments : exps[e].status = "FAILED" => exps'[e].status = "FAILED"
      PROVE  EndInv'
  <2>1. \A v \in Workers : Unsettled(v) => camp[v] \in Experiments
    BY UnsettledCampaign
  <2> QED
    BY <1>1, <2>1 DEF EndInv, OneReset, EndWritten, Unsettled
<1>2. ASSUME NEW r \in Requests, RequestStep(r)
      PROVE  EndInv'
  <2>1. UNCHANGED <<pc, camp, outcome>>
    BY <1>2 DEF RequestStep, CreateCampaign, SubmitSelect, SubmitQueued, SubmitInsert,
                SubmitLost, workerVars
  <2>2. \A e \in Experiments : exps[e].status = "FAILED" => exps'[e].status = "FAILED"
    BY <1>2 DEF RequestStep, CreateCampaign, SubmitSelect, SubmitQueued, SubmitInsert,
                SubmitLost, workerVars, Facts, WorkerTypeOK
  <2> QED
    BY <1>1, <2>1, <2>2
<1>3. ASSUME NEW u \in Workers, ProcessStep(u) \/ Crash(u)
      PROVE  EndInv'
  <2>1. ProcessStep(u) \/ FaultStep(u)
    BY <1>3 DEF FaultStep
  <2>2. \A v \in Workers \ {u} : /\ pc'[v] = pc[v] /\ camp'[v] = camp[v]
                                 /\ outcome'[v] = outcome[v]
    BY <2>1, OthersKeepPlace, OthersKeepOutcome DEF Facts
  <2>3. \A v \in Workers \ {u} : EndWritten(v)'
    BY <2>1, <2>2, OthersKeepFailed DEF EndInv, EndWritten, Unsettled
  <2>4. pc'[u] = "reset" => pc[u] \in Busy /\ camp'[u] = camp[u]
    <3>1. CASE Recover(u)
      BY <3>1 DEF Recover, Start, ResumeSelect, ResumeWrite, PendingSelect, ExpireWrite,
             RequeueSelect, RequeueQueued, RequeueInsert, Requeued, JobSweepSelect,
             JobSweepNothing, JobSweepWrite, workerVars, Goto, Facts, WorkerTypeOK
    <3>2. CASE Execute(u)
      BY <3>2 DEF Execute, ClaimJob, TouchCampaign, Acquire, Skip, RunStart, RunRound,
                  RunCompleted, RunFailed, Release, MarkSelect, MarkWrite, Goto, Facts,
                  WorkerTypeOK
    <3>3. CASE Settle(u)
      BY <3>3 DEF Settle, SettleCompleted, SettleFailSelect, SettleRetry, SettleFailed,
                  ResetCampaign, BackToPoll, Goto, Facts, WorkerTypeOK, Busy, Settling
    <3>4. CASE Crash(u)
      BY <3>4 DEF Crash, Goto, Facts, WorkerTypeOK
    <3> QED
      BY <1>3, <3>1, <3>2, <3>3, <3>4 DEF ProcessStep
  <2>5. OneReset'
    <3>1. \A v \in Workers \ {u} :
            pc'[u] = "reset" /\ pc'[v] = "reset" => camp'[v] # camp'[u]
      BY <2>2, <2>4, ResetApart DEF Facts
    <3> QED
      BY <2>2, <3>1 DEF EndInv, OneReset
  <2>6. EndWritten(u)'
    BY <1>3, OwnEndWritten
  <2> QED
    BY <2>3, <2>5, <2>6 DEF EndInv
<1>4. CASE ClockTick
  <2>1. \A e \in Experiments : exps[e].status = "FAILED" => exps'[e].status = "FAILED"
    BY <1>4, ClockKeepsStatus
  <2> QED
    BY <1>1, <1>4, <2>1 DEF ClockTick
<1>5. CASE UNCHANGED vars
  BY <1>1, <1>5 DEF vars, workerVars
<1> QED
  BY <1>2, <1>3, <1>4, <1>5 DEF Next

\* Without database errors every execution that failed is in the table as such.
LEMMA EndInvariant ==
  ASSUME TimelyWorkers, ShortTransactions, ~DbErrors
  PROVE  Spec => []EndInv
<1>1. Init => EndInv
  BY DEF Init, EndInv, OneReset, EndWritten, Unsettled
<1>2. Facts /\ EndInv /\ [Next]_vars => EndInv'
  <2>1. \A w \in Workers : FaultStep(w) => Crash(w)
    BY DEF FaultStep, Abandon, RunRaises
  <2> QED
    BY <2>1, EndStays
<1> QED
  BY <1>1, <1>2, WorkerFacts, PTL DEF Spec, Facts
-----------------------------------------------------------------------------
(***************************************************************************)
(* Steps of the life cycle.                                                *)
(***************************************************************************)

\* A step of the workers that moves the campaigns of S.
LEMMA MoveHolds ==
  ASSUME NEW S \in SUBSET Experiments, NEW from, NEW to,
         \A e \in S : exps[e].status \in from /\ exps'[e].status = to,
         \A e \in Experiments \ S : exps'[e].status = exps[e].status
  PROVE  Lifecycle!Move(S, from, to)
BY DEF Lifecycle!Move

\* Nobody executes the campaigns of S.
LEMMA IdleHolds ==
  ASSUME NEW S \in SUBSET Experiments,
         \A e \in S, w \in Workers : pc[w] \in Executing => camp[w] # e
  PROVE  Lifecycle!Idle(S)
BY DEF Lifecycle!Idle, RunnersOf

\* Nobody begins or ends an execution.
LEMMA RunnersStay ==
  ASSUME \A w \in Workers : \/ pc[w] \notin Executing /\ pc'[w] \notin Executing
                            \/ /\ pc[w] \in Executing /\ pc'[w] \in Executing
                               /\ camp'[w] = camp[w]
  PROVE  [e \in Experiments |-> RunnersOf(e)]' = [e \in Experiments |-> RunnersOf(e)]
BY DEF RunnersOf

\* Only one worker executes the campaign it is busy with.
LEMMA OnlyRunner ==
  ASSUME Facts, NEW u \in Workers, pc[u] \in Busy
  PROVE  \A w \in Workers \ {u} : pc[w] \in Executing => camp[w] # camp[u]
BY BusyApart DEF Facts, Busy

\* A step that leaves every status and every execution alone.
LEMMA StutterHolds ==
  ASSUME \A e \in Experiments : exps'[e].status = exps[e].status,
         \A w \in Workers : \/ pc[w] \notin Executing /\ pc'[w] \notin Executing
                            \/ /\ pc[w] \in Executing /\ pc'[w] \in Executing
                               /\ camp'[w] = camp[w]
  PROVE  UNCHANGED Lifecycle!lifecycleVars
<1>1. [e \in Experiments |-> exps[e].status]' = [e \in Experiments |-> exps[e].status]
  OBVIOUS
<1> QED
  BY <1>1, RunnersStay DEF Lifecycle!lifecycleVars

\* Recovery hands campaigns back and gives them up, when nobody executes them.
LEMMA RecoverImplements ==
  ASSUME Facts, NEW u \in Workers, Recover(u)
  PROVE  [Lifecycle!LifecycleNext]_(Lifecycle!lifecycleVars)
<1>1. pc[u] \notin Executing /\ pc'[u] \notin Executing
  BY DEF Recover, Start, ResumeSelect, ResumeWrite, PendingSelect, ExpireWrite, RequeueSelect,
         RequeueQueued, RequeueInsert, Requeued, JobSweepSelect, JobSweepNothing, JobSweepWrite,
         workerVars, Goto, Executing, Facts, WorkerTypeOK
<1>2. \A w \in Workers \ {u} : pc'[w] = pc[w] /\ camp'[w] = camp[w]
  BY OthersKeepPlace DEF Facts, ProcessStep
<1>3. [e \in Experiments |-> RunnersOf(e)]' = [e \in Experiments |-> RunnersOf(e)]
  BY <1>1, <1>2, RunnersStay
<1>4. CASE ResumeWrite(u)
  <2>1. PICK S \in SUBSET Experiments : S = stale[u]
    BY DEF Facts, WorkerTypeOK
  <2>2. \A e \in S : IsStale(e)
    BY <1>4, <2>1 DEF ResumeWrite, Facts, WorkerInv, InOrder, ReadByRecovery
  <2>3. Lifecycle!Idle(S)
    BY <2>2, RunnerIsFresh, IdleHolds DEF Facts
  <2>4. \A e \in S : exps[e].status \in {"RUNNING"} /\ exps'[e].status = "PENDING"
    BY <1>4, <2>1, <2>2 DEF ResumeWrite, HandedBack, IsStale, Facts, WorkerTypeOK, Experiment
  <2>5. \A e \in Experiments \ S : exps'[e].status = exps[e].status
    BY <1>4, <2>1 DEF ResumeWrite
  <2>6. Lifecycle!Move(S, {"RUNNING"}, "PENDING")
    BY <2>4, <2>5, MoveHolds
  <2>7. Lifecycle!HandBack(S)
    BY <1>3, <2>3, <2>6 DEF Lifecycle!HandBack
  <2> QED
    BY <2>7 DEF Lifecycle!LifecycleNext
<1>5. CASE ExpireWrite(u)
  <2>1. PICK S \in SUBSET Experiments : S = expiring[u]
    BY DEF Facts, WorkerTypeOK
  <2>2. \A e \in S : exps[e].status = "PENDING"
    BY <1>5, <2>1 DEF ExpireWrite, Facts, WorkerInv, InOrder, ReadByRecovery
  <2>3. Lifecycle!Idle(S)
    BY <2>2, IdleHolds DEF Facts, WorkerInv, InOrder, RunnerRow
  <2>4. \A e \in S :
          exps[e].status \in {"PENDING", "RUNNING"} /\ exps'[e].status = "FAILED"
    BY <1>5, <2>1, <2>2 DEF ExpireWrite, Facts, WorkerTypeOK, Experiment
  <2>5. \A e \in Experiments \ S : exps'[e].status = exps[e].status
    BY <1>5, <2>1 DEF ExpireWrite
  <2>6. Lifecycle!Move(S, {"PENDING", "RUNNING"}, "FAILED")
    BY <2>4, <2>5, MoveHolds
  <2>7. Lifecycle!GiveUp(S)
    BY <1>3, <2>3, <2>6 DEF Lifecycle!GiveUp
  <2> QED
    BY <2>7 DEF Lifecycle!LifecycleNext
<1>6. CASE ~ResumeWrite(u) /\ ~ExpireWrite(u)
  <2>1. exps' = exps
    BY <1>6 DEF Recover, Start, ResumeSelect, PendingSelect, RequeueSelect, RequeueQueued,
           RequeueInsert, Requeued, JobSweepSelect, JobSweepNothing, JobSweepWrite, workerVars
  <2> QED
    BY <1>1, <1>2, <2>1, StutterHolds
<1> QED
  BY <1>4, <1>5, <1>6

\* The executors of all campaigns, when one worker begins to execute.
LEMMA RunnerBegins ==
  ASSUME Facts, NEW u \in Workers, NEW e \in Experiments, camp[u] = e,
         pc[u] \in Busy, pc[u] \notin Executing, pc'[u] \in Executing, camp'[u] = e,
         \A w \in Workers \ {u} : pc'[w] = pc[w] /\ camp'[w] = camp[w]
  PROVE  /\ Lifecycle!Idle({e})
         /\ [d \in Experiments |-> RunnersOf(d)]'
              = [[d \in Experiments |-> RunnersOf(d)] EXCEPT ![e] = {u}]
<1>1. \A w \in Workers : pc[w] \in Executing => camp[w] # e
  BY OnlyRunner
<1>2. Lifecycle!Idle({e})
  BY <1>1, IdleHolds
<1>3. RunnersOf(e)' = {u}
  BY <1>1 DEF RunnersOf
<1>4. \A d \in Experiments \ {e} : RunnersOf(d)' = RunnersOf(d)
  BY DEF RunnersOf
<1> QED
  BY <1>2, <1>3, <1>4

\* The executors of all campaigns, when one worker ends its execution.
LEMMA RunnerEnds ==
  ASSUME Facts, NEW u \in Workers, NEW e \in Experiments, camp[u] = e,
         pc[u] \in Executing, pc'[u] \notin Executing,
         \A w \in Workers \ {u} : pc'[w] = pc[w] /\ camp'[w] = camp[w]
  PROVE  /\ [d \in Experiments |-> RunnersOf(d)][e] # {}
         /\ [d \in Experiments |-> RunnersOf(d)]'
              = [[d \in Experiments |-> RunnersOf(d)] EXCEPT ![e] = {}]
<1>1. \A w \in Workers \ {u} : pc[w] \in Executing => camp[w] # e
  BY OnlyRunner DEF Busy
<1>2. u \in RunnersOf(e)
  BY DEF RunnersOf
<1>3. RunnersOf(e)' = {}
  BY <1>1 DEF RunnersOf
<1>4. \A d \in Experiments \ {e} : RunnersOf(d)' = RunnersOf(d)
  BY DEF RunnersOf
<1> QED
  BY <1>2, <1>3, <1>4

\* An execution begins when the lease is won and ends with its last status.
LEMMA ExecuteImplements ==
  ASSUME Facts, EndInv, NEW u \in Workers, Execute(u)
  PROVE  [Lifecycle!LifecycleNext]_(Lifecycle!lifecycleVars)
<1>1. \A w \in Workers \ {u} : pc'[w] = pc[w] /\ camp'[w] = camp[w]
  BY OthersKeepPlace DEF Facts, ProcessStep
<1>2. exps \in [Experiments -> Experiment]
  BY DEF Facts, WorkerTypeOK
<1>3. CASE Acquire(u)
  <2>1. /\ pc[u] \in Busy /\ pc[u] \notin Executing
        /\ pc'[u] \in Executing /\ camp'[u] = camp[u]
    BY <1>3 DEF Acquire, Goto, Busy, Executing, Facts, WorkerTypeOK
  <2>2. PICK e \in Experiments : e = camp[u]
    BY <2>1, BusyCampaign DEF Facts
  <2>3. /\ Lifecycle!Idle({e})
        /\ [d \in Experiments |-> RunnersOf(d)]'
             = [[d \in Experiments |-> RunnersOf(d)] EXCEPT ![e] = {u}]
    BY <1>1, <2>1, <2>2, RunnerBegins
  <2>4. /\ exps[e].status = "PENDING" /\ exps'[e].status = "RUNNING"
        /\ \A d \in Experiments \ {e} : exps'[d].status = exps[d].status
    BY <1>2, <1>3, <2>2 DEF Acquire, Acquirable, Experiment
  <2>5. Lifecycle!Move({e}, {"PENDING"}, "RUNNING")
    BY <2>4, MoveHolds
  <2>6. Lifecycle!Begin(e, u)
    BY <2>3, <2>5 DEF Lifecycle!Begin
  <2> QED
    BY <2>6 DEF Lifecycle!LifecycleNext
<1>4. ASSUME NEW to \in Finished, pc[u] \in Executing, pc'[u] \notin Executing,
             exps' = StatusWritten(camp[u], to)
      PROVE  \E e \in Experiments : Lifecycle!End(e, to)
  <2>1. PICK e \in Experiments : e = camp[u]
    BY <1>4, BusyCampaign DEF Facts, Busy
  <2>2. /\ [d \in Experiments |-> RunnersOf(d)][e] # {}
        /\ [d \in Experiments |-> RunnersOf(d)]'
             = [[d \in Experiments |-> RunnersOf(d)] EXCEPT ![e] = {}]
    BY <1>1, <1>4, <2>1, RunnerEnds
  <2>3. exps[e].status = "RUNNING"
    BY <1>4, <2>1 DEF Facts, WorkerInv, InOrder, RunnerRow
  <2>4. /\ exps'[e].status = to
        /\ \A d \in Experiments \ {e} : exps'[d].status = exps[d].status
    BY <1>2, <1>4, <2>1 DEF StatusWritten, Experiment
  <2>5. Lifecycle!Move({e}, {"RUNNING"}, to)
    BY <2>3, <2>4, MoveHolds
  <2>6. Lifecycle!End(e, to)
    BY <2>2, <2>5 DEF Lifecycle!End
  <2> QED
    BY <2>6
<1>5. CASE RunCompleted(u) \/ RunFailed(u)
  <2>1. pc[u] \in Executing /\ pc'[u] \notin Executing
    BY <1>5 DEF RunCompleted, RunFailed, Goto, Executing, Facts, WorkerTypeOK
  <2>2. \E to \in Finished : exps' = StatusWritten(camp[u], to)
    BY <1>5 DEF RunCompleted, RunFailed, Finished
  <2> QED
    BY <1>4, <2>1, <2>2 DEF Lifecycle!LifecycleNext, Finished
<1>6. CASE RunStart(u) \/ RunRound(u)
  <2>1. pc[u] \in Executing /\ pc'[u] \in Executing /\ camp'[u] = camp[u]
    BY <1>6 DEF RunStart, RunRound, Goto, Executing, Facts, WorkerTypeOK
  <2>2. exps[camp[u]].status = "RUNNING" /\ camp[u] \in Experiments
    BY <2>1, BusyCampaign DEF Facts, WorkerInv, InOrder, RunnerRow, Busy
  <2>3. \A e \in Experiments : exps'[e].status = exps[e].status
    BY <1>2, <1>6, <2>2 DEF RunStart, RunRound, StatusWritten, Experiment
  <2> QED
    BY <1>1, <2>1, <2>3, StutterHolds
<1>7. CASE ClaimJob(u) \/ TouchCampaign(u) \/ Skip(u) \/ Release(u)
  <2>1. pc[u] \notin Executing /\ pc'[u] \notin Executing
    BY <1>7 DEF ClaimJob, TouchCampaign, Skip, Release, Goto, Executing, Facts, WorkerTypeOK
  <2>2. \A e \in Experiments : exps'[e].status = exps[e].status
    BY <1>2, <1>7 DEF ClaimJob, TouchCampaign, Skip, Release, Experiment
  <2> QED
    BY <1>1, <2>1, <2>2, StutterHolds
<1>8. ~MarkSelect(u) /\ ~MarkWrite(u)
  BY DEF MarkSelect, MarkWrite, EndInv, EndWritten
<1> QED
  BY <1>3, <1>5, <1>6, <1>7, <1>8 DEF Execute

\* Settling touches a campaign only to give a failed one another attempt.
LEMMA SettleImplements ==
  ASSUME Facts, EndInv, NEW u \in Workers, Settle(u)
  PROVE  [Lifecycle!LifecycleNext]_(Lifecycle!lifecycleVars)
<1>1. \A w \in Workers \ {u} : pc'[w] = pc[w] /\ camp'[w] = camp[w]
  BY OthersKeepPlace DEF Facts, ProcessStep
<1>2. pc[u] \notin Executing /\ pc'[u] \notin Executing
  BY DEF Settle, SettleCompleted, SettleFailSelect, SettleRetry, SettleFailed, ResetCampaign,
         BackToPoll, Goto, Executing, Facts, WorkerTypeOK
<1>3. CASE ResetCampaign(u)
  <2>1. pc[u] = "reset"
    BY <1>3 DEF ResetCampaign
  <2>2. PICK e \in Experiments : e = camp[u]
    BY <2>1, UnsettledCampaign DEF Unsettled
  <2>3. exps[e].status = "FAILED"
    BY <2>1, <2>2 DEF EndInv, EndWritten, Unsettled
  <2>4. Lifecycle!Idle({e})
    BY <2>1, <2>2, ResetApart, IdleHolds DEF Facts, Busy
  <2>5. /\ exps'[e].status = "PENDING"
        /\ \A d \in Experiments \ {e} : exps'[d].status = exps[d].status
    BY <1>3, <2>2 DEF ResetCampaign, HandedBack, Facts, WorkerTypeOK, Experiment
  <2>6. Lifecycle!Move({e}, {"FAILED", "PENDING"}, "PENDING")
    BY <2>3, <2>5, MoveHolds
  <2>7. Lifecycle!Retry(e)
    BY <1>1, <1>2, <2>4, <2>6, RunnersStay DEF Lifecycle!Retry
  <2> QED
    BY <2>7 DEF Lifecycle!LifecycleNext
<1>4. CASE ~ResetCampaign(u)
  <2>1. exps' = exps
    BY <1>4 DEF Settle, SettleCompleted, SettleFailSelect, SettleRetry, SettleFailed
  <2> QED
    BY <1>1, <1>2, <2>1, StutterHolds
<1> QED
  BY <1>3, <1>4

\* A crash cuts an execution off, or touches no campaign.
LEMMA FaultImplements ==
  ASSUME ~DbErrors, Facts, NEW u \in Workers, FaultStep(u)
  PROVE  [Lifecycle!LifecycleNext]_(Lifecycle!lifecycleVars)
<1>1. \A w \in Workers \ {u} : pc'[w] = pc[w] /\ camp'[w] = camp[w]
  BY OthersKeepPlace DEF Facts
<1>2. exps' = exps /\ pc'[u] \notin Executing
  BY DEF FaultStep, Crash, Abandon, RunRaises, Goto, Executing, Facts, WorkerTypeOK
<1>3. CASE pc[u] \in Executing
  <2>1. PICK e \in Experiments : e = camp[u]
    BY <1>3, BusyCampaign DEF Facts, Busy
  <2>2. /\ [d \in Experiments |-> RunnersOf(d)][e] # {}
        /\ [d \in Experiments |-> RunnersOf(d)]'
             = [[d \in Experiments |-> RunnersOf(d)] EXCEPT ![e] = {}]
    BY <1>1, <1>2, <1>3, <2>1, RunnerEnds
  <2>3. Lifecycle!CutOff(e)
    BY <1>2, <2>2 DEF Lifecycle!CutOff
  <2> QED
    BY <2>3 DEF Lifecycle!LifecycleNext
<1>4. CASE pc[u] \notin Executing
  BY <1>1, <1>2, <1>4, StutterHolds
<1> QED
  BY <1>3, <1>4

\* Requests create campaigns; the clock leaves every status alone.
LEMMA OthersImplement ==
  ASSUME Facts, ClockTick \/ \E r \in Requests : RequestStep(r)
  PROVE  [Lifecycle!LifecycleNext]_(Lifecycle!lifecycleVars)
<1>1. UNCHANGED <<pc, camp>>
  BY DEF ClockTick, RequestStep, CreateCampaign, SubmitSelect, SubmitQueued, SubmitInsert,
         SubmitLost, workerVars
<1>2. CASE ClockTick
  <2>1. \A e \in Experiments : exps'[e].status = exps[e].status
    BY <1>2, ClockKeepsStatus
  <2> QED
    BY <1>1, <2>1, StutterHolds
<1>3. ASSUME NEW r \in Requests, NEW e \in Experiments, CreateCampaign(r, e)
      PROVE  Lifecycle!LifecycleNext
  <2>1. /\ exps[e].status = "ABSENT" /\ exps'[e].status = "PENDING"
        /\ \A d \in Experiments \ {e} : exps'[d].status = exps[d].status
    BY <1>3 DEF CreateCampaign, Facts, WorkerTypeOK, Experiment
  <2>2. Lifecycle!Move({e}, {"ABSENT"}, "PENDING")
    BY <2>1, MoveHolds
  <2>3. Lifecycle!Create(e)
    BY <1>1, <2>2, RunnersStay DEF Lifecycle!Create
  <2> QED
    BY <2>3 DEF Lifecycle!LifecycleNext
<1>4. ASSUME NEW r \in Requests,
             SubmitSelect(r) \/ SubmitQueued(r) \/ SubmitInsert(r) \/ SubmitLost(r)
      PROVE  exps' = exps
  BY <1>4 DEF SubmitSelect, SubmitQueued, SubmitInsert, SubmitLost, workerVars
<1> QED
  BY <1>1, <1>2, <1>3, <1>4, StutterHolds DEF RequestStep

\* Every step of the workers is a step of the life cycle, or leaves it alone.
LEMMA StepImplements ==
  ASSUME ~DbErrors, Facts, EndInv, [Next]_vars
  PROVE  [Lifecycle!LifecycleNext]_(Lifecycle!lifecycleVars)
<1>1. CASE Next
  BY <1>1, RecoverImplements, ExecuteImplements, SettleImplements, FaultImplements,
     OthersImplement DEF Next, ProcessStep
<1>2. CASE UNCHANGED vars
  BY <1>2, StutterHolds DEF vars, workerVars
<1> QED
  BY <1>1, <1>2

\* Queue, lease, recovery, retries and crashes implement the life cycle of a
\* campaign.
THEOREM ImplementsLifecycleHolds ==
  ASSUME TimelyWorkers, ShortTransactions, ~DbErrors
  PROVE  Spec => ImplementsLifecycle
<1>1. Init => Lifecycle!LifecycleInit
  <2> SUFFICES ASSUME Init PROVE Lifecycle!LifecycleInit
    OBVIOUS
  <2>1. [e \in Experiments |-> exps[e].status] = [e \in Experiments |-> "ABSENT"]
    BY DEF Init, NoCampaign
  <2>2. [e \in Experiments |-> RunnersOf(e)] = [e \in Experiments |-> {}]
    BY DEF Init, RunnersOf, Executing
  <2> QED
    BY <2>1, <2>2 DEF Lifecycle!LifecycleInit
<1>2. Facts /\ EndInv /\ [Next]_vars => [Lifecycle!LifecycleNext]_(Lifecycle!lifecycleVars)
  BY StepImplements
<1> QED
  BY <1>1, <1>2, WorkerFacts, EndInvariant, PTL
     DEF Spec, Facts, ImplementsLifecycle, Lifecycle!LifecycleSpec

\* A COMPLETED campaign stays COMPLETED: no step of the life cycle leaves it.
THEOREM CompletedStaysHolds ==
  ASSUME TimelyWorkers, ShortTransactions, ~DbErrors
  PROVE  Spec => CompletedStays
<1> DEFINE Stays == \A e \in Experiments :
                      exps[e].status = "COMPLETED" => exps'[e].status = "COMPLETED"
<1>1. Facts /\ EndInv /\ [Next]_vars => [Stays]_vars
  <2> SUFFICES ASSUME Facts, EndInv, [Next]_vars,
                      NEW e \in Experiments, exps[e].status = "COMPLETED"
               PROVE  exps'[e].status = "COMPLETED"
    OBVIOUS
  <2> DEFINE phase == [d \in Experiments |-> exps[d].status]
  <2>1. phase[e] = "COMPLETED" /\ phase'[e] = exps'[e].status
    OBVIOUS
  <2>2. ASSUME NEW S \in SUBSET Experiments, NEW from, NEW to,
               Lifecycle!Move(S, from, to), "COMPLETED" \notin from
        PROVE  phase'[e] = "COMPLETED"
    BY <2>1, <2>2 DEF Lifecycle!Move
  <2>3. CASE Lifecycle!LifecycleNext
    <3>1. PICK S \in SUBSET Experiments :
            \/ phase' = phase
            \/ \E from, to : Lifecycle!Move(S, from, to) /\ "COMPLETED" \notin from
      <4>1. ASSUME NEW S \in SUBSET Experiments, Lifecycle!HandBack(S) \/ Lifecycle!GiveUp(S)
            PROVE  \E from, to : Lifecycle!Move(S, from, to) /\ "COMPLETED" \notin from
        BY <4>1 DEF Lifecycle!HandBack, Lifecycle!GiveUp
      <4>2. ASSUME NEW d \in Experiments, NEW w \in Workers, Lifecycle!Begin(d, w)
            PROVE  \E from, to : Lifecycle!Move({d}, from, to) /\ "COMPLETED" \notin from
        BY <4>2 DEF Lifecycle!Begin
      <4>3. ASSUME NEW d \in Experiments,
                   \/ Lifecycle!Create(d) \/ Lifecycle!Retry(d)
                   \/ Lifecycle!End(d, "COMPLETED") \/ Lifecycle!End(d, "FAILED")
            PROVE  \E from, to : Lifecycle!Move({d}, from, to) /\ "COMPLETED" \notin from
        BY <4>3 DEF Lifecycle!Create, Lifecycle!Retry, Lifecycle!End
      <4>4. ASSUME NEW d \in Experiments, Lifecycle!CutOff(d)
            PROVE  phase' = phase
        BY <4>4 DEF Lifecycle!CutOff
      <4> QED
        BY <2>3, <4>1, <4>2, <4>3, <4>4 DEF Lifecycle!LifecycleNext
    <3> QED
      BY <2>1, <2>2, <3>1
  <2>4. CASE UNCHANGED Lifecycle!lifecycleVars
    BY <2>1, <2>4 DEF Lifecycle!lifecycleVars
  <2> QED
    BY <2>1, <2>3, <2>4, StepImplements
<1> QED
  BY <1>1, WorkerFacts, EndInvariant, PTL DEF Spec, Facts, CompletedStays
-----------------------------------------------------------------------------
(***************************************************************************)
(* Campaigns and jobs while nothing has failed.                            *)
(***************************************************************************)

Known(e) == e \in Experiments => exps[e].status # "ABSENT"

\* Rows, calls and requests are about campaigns that are in the table.
KnownCampaigns ==
  /\ \A j \in JobIds : jobs[j].status # "ABSENT" => Known(jobs[j].exp)
  /\ \A c \in Callers : Known(enqueuing[c])
  /\ \A r \in Requests : Known(submitting[r])
  /\ \A w \in Workers, e \in Experiments : e \in todo[w] => Known(e)

\* A RUNNING campaign is executed, a RUNNING job is held.
Executed ==
  \A e \in Experiments :
    exps[e].status = "RUNNING" => \E w \in Workers : pc[w] \in Executing /\ camp[w] = e

Claimant ==
  \A j \in JobIds : jobs[j].status = "RUNNING" => \E w \in Workers : claim[w].job = j

\* The execution has completed, or was not needed, and its job is not settled.
Concluded(w) == pc[w] = "complete" \/ (pc[w] = "release" /\ outcome[w] = "completed")

Ended == \A w \in Workers : Concluded(w) => exps[camp[w]].status \in Finished

Tries ==
  \A j \in JobIds : /\ jobs[j].attempts <= MaxAttempts
                    /\ jobs[j].status = "PENDING" => jobs[j].attempts < MaxAttempts

\* The worker will still write the status of its campaign, or the job that
\* gives it another attempt.
Unended(w) == pc[w] \in Executing \cup {"release", "fail", "failing", "reset"}

\* A job that is settled has settled its campaign.
Settled(j) ==
  jobs[j].status \in TerminalStatus =>
    /\ exps[jobs[j].exp].status \in Finished
    /\ jobs[j].status = "FAILED" =>
         exps[jobs[j].exp].status = "FAILED" /\ jobs[j].attempts = MaxAttempts
    /\ \A w \in Workers : Unended(w) => camp[w] # jobs[j].exp

\* A campaign that waits is queued, or somebody will queue it.
Waited ==
  \A e \in Experiments :
    exps[e].status = "PENDING" => ActiveJobs(jobs, e) # {} \/ BeingQueued(e)

\* What requests and recoveries are about to enqueue.
Calls ==
  /\ \A r \in Requests : enqueuing[r] # NoExperiment => enqueuing[r] = submitting[r]
  /\ \A w \in Workers : /\ stale[w] = {}
                        /\ todo[w] # {} => pc[w] \in {"expiring", "requeue"}

Calm ==
  /\ EndInv /\ KnownCampaigns /\ Executed /\ Claimant /\ Ended /\ Tries
  /\ \A j \in JobIds : Settled(j)
  /\ Waited /\ Calls

\* The steps that are no fault.
FaultFree ==
  \/ \E r \in Requests : (\E e \in Experiments : CreateCampaign(r, e)) \/ Submit(r)
  \/ \E w \in Workers : ProcessStep(w)
  \/ ClockTick
  \/ UNCHANGED vars

\* Faults are counted.
LEMMA FaultsCounted ==
  ASSUME WorkerTypeOK, [Next]_vars, faults' = 0
  PROVE  /\ faults = 0
         /\ FaultFree
         /\ \A w \in Workers : ~FaultStep(w)
<1>1. faults \in Nat
  BY WorkerConstants DEF WorkerTypeOK
<1>2. \A w \in Workers : ~FaultStep(w)
  BY <1>1 DEF FaultStep, Crash, Abandon, RunRaises
<1>3. \A r \in Requests : ~SubmitLost(r)
  BY <1>1 DEF SubmitLost
<1>4. FaultFree
  BY <1>2, <1>3 DEF Next, RequestStep, Submit, FaultFree
<1>5. faults = 0
  <2>1. ASSUME NEW w \in Workers, ProcessStep(w)
        PROVE  faults' = faults
    <3>1. CASE Recover(w)
      BY <3>1 DEF Recover, Start, ResumeSelect, ResumeWrite, PendingSelect, ExpireWrite,
                  RequeueSelect, RequeueQueued, RequeueInsert, Requeued, JobSweepSelect,
                  JobSweepNothing, JobSweepWrite, workerVars
    <3>2. CASE Execute(w)
      BY <3>2 DEF Execute, ClaimJob, TouchCampaign, Acquire, Skip, RunStart, RunRound,
                  RunCompleted, RunFailed, Release, MarkSelect, MarkWrite
    <3>3. CASE Settle(w)
      BY <3>3 DEF Settle, SettleCompleted, SettleFailSelect, SettleRetry, SettleFailed,
                  ResetCampaign
    <3> QED
      BY <2>1, <3>1, <3>2, <3>3 DEF ProcessStep
  <2>2. ASSUME NEW r \in Requests, (\E e \in Experiments : CreateCampaign(r, e)) \/ Submit(r)
        PROVE  faults' = faults
    BY <2>2 DEF CreateCampaign, Submit, SubmitSelect, SubmitQueued, SubmitInsert, workerVars
  <2> QED
    BY <1>4, <2>1, <2>2 DEF FaultFree, ClockTick, vars, workerVars
<1> QED
  BY <1>2, <1>4, <1>5

\* Nothing is stale, so no sweep finds anything.
LEMMA NothingStale ==
  ASSUME Facts, Executed, Claimant
  PROVE  /\ \A e \in Experiments : ~IsStale(e)
         /\ StaleJobs = {}
         /\ \A w \in Workers : sweeping[w] = {}
<1>1. ASSUME NEW e \in Experiments PROVE ~IsStale(e)
  BY RunnerIsFresh DEF Facts, Executed, IsStale
<1>2. StaleJobs = {}
  <2> SUFFICES ASSUME NEW j \in StaleJobs PROVE FALSE
    OBVIOUS
  <2>1. j \in JobIds /\ jobs[j].status = "RUNNING"
    BY DEF StaleJobs
  <2>2. PICK w \in Workers : claim[w].job = j
    BY <2>1 DEF Claimant
  <2>3. Holds(w)
    BY <2>1, <2>2, QueueConstants DEF Holds
  <2> QED
    BY <2>2, <2>3, HeldIsFresh DEF Facts, QueueFacts
<1>3. \A w \in Workers : sweeping[w] = {}
  BY <1>2 DEF Facts, QueueFacts, TimelyInv, SweptRows
<1> QED
  BY <1>1, <1>2, <1>3

\* fail_job of a worker on time writes the row it has read: the index has no
\* reason to refuse it.
LEMMA FailCommits ==
  ASSUME Facts, NEW w \in Workers, FailJobWrite(w)
  PROVE  /\ UniqueActive(FailedTable(w))
         /\ claim[w].job \in JobIds
         /\ jobs[claim[w].job].status = "RUNNING"
         /\ failing[w].attempts = jobs[claim[w].job].attempts
         /\ jobs'[claim[w].job].status = IF Retryable(w) THEN "PENDING" ELSE "FAILED"
<1> DEFINE j == claim[w].job
<1>1. /\ j \in JobIds
      /\ jobs[j] \in Row
      /\ jobs[j].status = "RUNNING"
      /\ failing[w].status = "RUNNING"
      /\ failing[w].attempts = jobs[j].attempts
  <2>1. Holds(w) /\ failing[w] = [status |-> "RUNNING", attempts |-> claim[w].attempt]
    BY DEF FailJobWrite, Facts, QueueFacts, TimelyInv, FailingRow
  <2>2. j \in JobIds
    BY <2>1, HeldIsFresh DEF Facts, QueueFacts
  <2>3. jobs[j].status = "RUNNING" /\ jobs[j].attempts = claim[w].attempt
    BY <2>1 DEF Facts, QueueFacts, TimelyInv, HeldRow
  <2>4. jobs[j] \in Row
    BY <2>2 DEF Facts, QueueFacts, TypeOK
  <2> QED
    BY <2>1, <2>2, <2>3, <2>4
<1>2. /\ FailedTable(w)[j] = FailedRow(jobs[j], failing[w])
      /\ \A i \in JobIds \ {j} : FailedTable(w)[i] = jobs[i]
  BY <1>1 DEF FailedTable, Facts, QueueFacts, TypeOK
<1>3. /\ FailedRow(jobs[j], failing[w]).exp = jobs[j].exp
      /\ FailedRow(jobs[j], failing[w]).status = IF Retryable(w) THEN "PENDING" ELSE "FAILED"
  <2>1. CASE Retryable(w)
    BY <1>1, <2>1 DEF FailedRow, Retryable, Row
  <2>2. CASE ~Retryable(w)
    BY <1>1, <2>2 DEF FailedRow, Retryable, Row
  <2> QED
    BY <2>1, <2>2
<1>4. UniqueActive(FailedTable(w))
  <2>1. \A i \in JobIds : FailedTable(w)[i].exp = jobs[i].exp
    BY <1>2, <1>3
  <2>2. \A i \in JobIds : FailedTable(w)[i].status \in ActiveStatus =>
                            jobs[i].status \in ActiveStatus
    BY <1>1, <1>2 DEF ActiveStatus
  <2> HIDE DEF j
  <2> QED
    BY <2>1, <2>2 DEF UniqueActive, Facts, QueueFacts, OneActiveJob
<1>5. jobs' = FailedTable(w)
  BY <1>4 DEF FailJobWrite, Commit
<1> QED
  BY <1>1, <1>2, <1>3, <1>4, <1>5
-----------------------------------------------------------------------------
(***************************************************************************)
(* What a step without a fault does to a job.                              *)
(***************************************************************************)
SameJob(j) == /\ jobs'[j].status = jobs[j].status
              /\ jobs'[j].exp = jobs[j].exp
              /\ jobs'[j].attempts = jobs[j].attempts

\* From one status to another, the campaign and the attempts as they were.
JobGoes(j, from, to) ==
  /\ jobs[j].status = from /\ jobs'[j].status = to
  /\ jobs'[j].exp = jobs[j].exp /\ jobs'[j].attempts = jobs[j].attempts

Inserted(j) ==
  /\ jobs[j].status = "ABSENT"
  /\ \E c \in Callers : enqueuing[c] \in Experiments /\ jobs'[j] = NewRow(enqueuing[c])

TakenBy(w, j) ==
  /\ ClaimJob(w) /\ claim'[w].job = j
  /\ jobs[j].status = "PENDING" /\ jobs'[j].status = "RUNNING"
  /\ jobs'[j].exp = jobs[j].exp /\ jobs'[j].attempts = jobs[j].attempts + 1

ClosedBy(w, j) ==
  SettleCompleted(w) /\ claim[w].job = j /\ JobGoes(j, "RUNNING", "COMPLETED")

RetriedBy(w, j) ==
  /\ SettleRetry(w) /\ claim[w].job = j /\ JobGoes(j, "RUNNING", "PENDING")
  /\ jobs[j].attempts < MaxAttempts

FailedBy(w, j) ==
  /\ SettleFailed(w) /\ claim[w].job = j /\ JobGoes(j, "RUNNING", "FAILED")
  /\ ~(jobs[j].attempts < MaxAttempts)

JobMoves(j) ==
  \/ SameJob(j) \/ Inserted(j)
  \/ \E w \in Workers : TakenBy(w, j) \/ ClosedBy(w, j) \/ RetriedBy(w, j) \/ FailedBy(w, j)

\* A new job waits.
LEMMA InsertedPending ==
  ASSUME NEW j \in JobIds, Inserted(j)
  PROVE  jobs'[j].status = "PENDING" /\ jobs'[j].attempts = 0
<1>1. PICK e \in Experiments : jobs'[j] = NewRow(e)
  BY DEF Inserted
<1> QED
  BY <1>1, QueueConstants DEF NewRow

\* An INSERT adds a row, or is refused.
LEMMA InsertMoves ==
  ASSUME Facts, NEW c \in Callers, NEW i \in JobIds, EnqueueInsert(c, i), NEW j \in JobIds
  PROVE  JobMoves(j)
<1>1. jobs' = jobs \/ jobs' = [jobs EXCEPT ![i] = NewRow(enqueuing[c])]
  BY CommitOutcome DEF EnqueueInsert
<1>2. enqueuing[c] \in Experiments /\ jobs[i].status = "ABSENT"
  BY DEF EnqueueInsert, NoRow, Facts, QueueFacts, TypeOK
<1>3. CASE jobs'[j] = jobs[j]
  BY <1>3 DEF JobMoves, SameJob
<1>4. CASE j = i /\ jobs'[j] = NewRow(enqueuing[c])
  BY <1>2, <1>4 DEF JobMoves, Inserted
<1> QED
  BY <1>1, <1>3, <1>4 DEF Facts, QueueFacts, TypeOK

\* A heartbeat and the clock leave every job what it is.
LEMMA BeatMoves ==
  ASSUME Facts, Tick \/ \E running : jobs' = Beaten(jobs, running), NEW j \in JobIds
  PROVE  SameJob(j)
<1>1. CASE Tick
  BY <1>1, AgedColumns DEF Tick, SameJob, Facts, QueueFacts, TypeOK
<1>2. ASSUME NEW running, jobs' = Beaten(jobs, running)
      PROVE  SameJob(j)
  BY <1>2, BeatenColumns DEF SameJob, Facts, QueueFacts
<1> QED
  BY <1>1, <1>2

\* Recovery adds jobs, and sweeps none.
LEMMA RecoverMoves ==
  ASSUME Facts, Executed, Claimant, NEW u \in Workers, Recover(u), NEW j \in JobIds
  PROVE  JobMoves(j)
<1>1. CASE RequeueInsert(u)
  <2>1. PICK i \in JobIds : EnqueueInsert(u, i)
    BY <1>1 DEF RequeueInsert
  <2> QED
    BY <2>1, InsertMoves, QueueConstants
<1>2. ~JobSweepWrite(u)
  BY NothingStale DEF JobSweepWrite, RecoverWrite
<1>3. CASE ~RequeueInsert(u)
  <2>1. jobs' = jobs
    BY <1>2, <1>3 DEF Recover, Start, ResumeSelect, ResumeWrite, PendingSelect, ExpireWrite,
           RequeueSelect, RequeueQueued, Requeued, JobSweepSelect, JobSweepNothing, queueVars,
           EnqueueSelect, RecoverSelect
  <2> QED
    BY <2>1 DEF JobMoves, SameJob
<1> QED
  BY <1>1, <1>3

\* An execution takes a job and beats its heart.
LEMMA ExecuteMoves ==
  ASSUME Facts, NEW u \in Workers, Execute(u), NEW j \in JobIds
  PROVE  JobMoves(j)
<1>1. CASE ClaimJob(u)
  <2>1. PICK i \in JobIds : Claim(u, i)
    BY <1>1 DEF ClaimJob
  <2>2. jobs' = Claimed(jobs, i) /\ claim'[u].job = i /\ jobs[i].status = "PENDING"
    BY <2>1 DEF Claim, Oldest, Eligible, Facts, QueueFacts, TypeOK
  <2>3. CASE j = i
    <3>1. TakenBy(u, j)
      BY <1>1, <2>2, <2>3, ClaimedColumns DEF TakenBy, Facts, QueueFacts
    <3> QED
      BY <3>1 DEF JobMoves
  <2>4. CASE j # i
    BY <2>2, <2>4, ClaimedColumns DEF JobMoves, SameJob, Facts, QueueFacts
  <2> QED
    BY <2>3, <2>4
<1>2. CASE RunRound(u)
  BY <1>2, BeatMoves DEF RunRound, BumpJobHeartbeat, JobMoves
<1>3. CASE ~ClaimJob(u) /\ ~RunRound(u)
  <2>1. jobs' = jobs
    BY <1>3 DEF Execute, TouchCampaign, Acquire, Skip, RunStart, RunCompleted, RunFailed,
                Release, MarkSelect, MarkWrite, queueVars
  <2> QED
    BY <2>1 DEF JobMoves, SameJob
<1> QED
  BY <1>1, <1>2, <1>3

\* Settling completes the job that is held, retries it or fails it.
LEMMA SettleMoves ==
  ASSUME Facts, NEW u \in Workers, Settle(u), NEW j \in JobIds
  PROVE  JobMoves(j)
<1>1. CASE SettleCompleted(u)
  <2>1. MarkJobCompleted(u) /\ Holds(u)
    BY <1>1 DEF SettleCompleted, MarkJobCompleted
  <2>2. CASE j = claim[u].job
    <3>1. jobs[j].status = "RUNNING" /\ jobs[j] \in Row
      BY <2>1, <2>2 DEF Facts, QueueFacts, TypeOK, TimelyInv, HeldRow
    <3>2. jobs'[j] = [jobs[j] EXCEPT !.status = "COMPLETED", !.heartbeat = 0]
      BY <2>1, <2>2, <3>1 DEF MarkJobCompleted, Facts, QueueFacts, TypeOK
    <3>3. JobGoes(j, "RUNNING", "COMPLETED")
      BY <3>1, <3>2 DEF JobGoes, Row
    <3> QED
      BY <1>1, <2>2, <3>3 DEF JobMoves, ClosedBy
  <2>3. CASE j # claim[u].job
    BY <2>1, <2>3, CompletedColumns DEF JobMoves, SameJob, Facts, QueueFacts
  <2> QED
    BY <2>2, <2>3
<1>2. ASSUME FailJobWrite(u), SettleRetry(u) \/ SettleFailed(u)
      PROVE  JobMoves(j)
  <2>1. CASE j = claim[u].job
    <3>1. /\ jobs[j].status = "RUNNING"
          /\ jobs'[j].status = IF Retryable(u) THEN "PENDING" ELSE "FAILED"
          /\ Retryable(u) <=> jobs[j].attempts < MaxAttempts
          /\ UniqueActive(FailedTable(u))
      BY <1>2, <2>1, FailCommits DEF Retryable
    <3>2. jobs'[j].exp = jobs[j].exp /\ jobs'[j].attempts = jobs[j].attempts
      BY <1>2, FailedColumns DEF Facts, QueueFacts
    <3>3. CASE SettleRetry(u)
      <4>1. Retryable(u)
        BY <3>3 DEF SettleRetry
      <4>2. RetriedBy(u, j)
        BY <2>1, <3>1, <3>2, <3>3, <4>1 DEF RetriedBy, JobGoes
      <4> QED
        BY <4>2 DEF JobMoves
    <3>4. CASE SettleFailed(u)
      <4>1. ~Retryable(u)
        BY <3>1, <3>4 DEF SettleFailed
      <4>2. FailedBy(u, j)
        BY <2>1, <3>1, <3>2, <3>4, <4>1 DEF FailedBy, JobGoes
      <4> QED
        BY <4>2 DEF JobMoves
    <3> QED
      BY <1>2, <3>3, <3>4
  <2>2. CASE j # claim[u].job
    BY <1>2, <2>2, FailedColumns DEF JobMoves, SameJob, Facts, QueueFacts
  <2> QED
    BY <2>1, <2>2
<1>3. CASE SettleFailSelect(u) \/ ResetCampaign(u)
  <2>1. jobs' = jobs
    BY <1>3 DEF SettleFailSelect, FailJobSelect, ResetCampaign, queueVars
  <2> QED
    BY <2>1 DEF JobMoves, SameJob
<1> QED
  BY <1>1, <1>2, <1>3 DEF Settle, SettleRetry, SettleFailed

\* Every step without a fault, and every job.
LEMMA JobsMove ==
  ASSUME Facts, Executed, Claimant, FaultFree, NEW j \in JobIds
  PROVE  JobMoves(j)
<1>1. ASSUME NEW r \in Requests, (\E e \in Experiments : CreateCampaign(r, e)) \/ Submit(r)
      PROVE  JobMoves(j)
  <2>1. CASE SubmitInsert(r)
    <3>1. PICK i \in JobIds : EnqueueInsert(r, i)
      BY <2>1 DEF SubmitInsert
    <3> QED
      BY <3>1, InsertMoves, WorkerConstants
  <2>2. CASE ~SubmitInsert(r)
    <3>1. jobs' = jobs
      BY <1>1, <2>2 DEF CreateCampaign, Submit, SubmitSelect, EnqueueSelect, SubmitQueued,
                        queueVars
    <3> QED
      BY <3>1 DEF JobMoves, SameJob
  <2> QED
    BY <2>1, <2>2
<1>2. ASSUME NEW u \in Workers, ProcessStep(u)
      PROVE  JobMoves(j)
  BY <1>2, RecoverMoves, ExecuteMoves, SettleMoves DEF ProcessStep
<1>3. CASE ClockTick
  BY <1>3, BeatMoves DEF ClockTick, JobMoves
<1>4. CASE UNCHANGED vars
  BY <1>4 DEF vars, queueVars, JobMoves, SameJob
<1> QED
  BY <1>1, <1>2, <1>3, <1>4 DEF FaultFree
-----------------------------------------------------------------------------
(***************************************************************************)
(* What a step without a fault does to the status of a campaign.           *)
(***************************************************************************)
SameStatus(e) == exps'[e].status = exps[e].status

StatusGoes(e, from, to) == exps[e].status = from /\ exps'[e].status = to

\* A worker writes the status of the campaign of its job.
StatusWrittenBy(w, e) ==
  /\ camp[w] = e
  /\ \/ Acquire(w) /\ StatusGoes(e, "PENDING", "RUNNING")
     \/ RunCompleted(w) /\ StatusGoes(e, "RUNNING", "COMPLETED")
     \/ RunFailed(w) /\ StatusGoes(e, "RUNNING", "FAILED")
     \/ ResetCampaign(w) /\ StatusGoes(e, "FAILED", "PENDING")

CampaignMoves(e) ==
  \/ SameStatus(e)
  \/ StatusGoes(e, "ABSENT", "PENDING") /\ \E r \in Requests : CreateCampaign(r, e)
  \/ StatusGoes(e, "PENDING", "FAILED") /\ \E w \in Workers : ExpireWrite(w)
  \/ \E w \in Workers : StatusWrittenBy(w, e)

\* The campaign a worker is busy with, after a step of its own.
LEMMA OwnStatusMoves ==
  ASSUME Facts, EndInv, NEW u \in Workers, ProcessStep(u),
         pc[u] \in Busy \cup {"reset"}, camp[u] \in Experiments
  PROVE  SameStatus(camp[u]) \/ StatusWrittenBy(u, camp[u])
<1> DEFINE e == camp[u]
<1>1. exps \in [Experiments -> Experiment] /\ exps[e] \in Experiment
  BY DEF Facts, WorkerTypeOK
<1>2. pc[u] \in Executing => exps[e].status = "RUNNING"
  BY DEF Facts, WorkerInv, InOrder, RunnerRow
<1>3. ~Recover(u)
  BY DEF Recover, Start, ResumeSelect, ResumeWrite, PendingSelect, ExpireWrite, RequeueSelect,
         RequeueQueued, RequeueInsert, Requeued, JobSweepSelect, JobSweepNothing, JobSweepWrite,
         Busy, Executing, Settling
<1>4. CASE Acquire(u)
  BY <1>1, <1>4 DEF Acquire, Acquirable, StatusWrittenBy, StatusGoes, Experiment
<1>5. CASE RunCompleted(u)
  BY <1>1, <1>2, <1>5 DEF RunCompleted, StatusWritten, StatusWrittenBy, StatusGoes, Experiment,
                          Executing
<1>6. CASE RunFailed(u)
  BY <1>1, <1>2, <1>6 DEF RunFailed, StatusWritten, StatusWrittenBy, StatusGoes, Experiment
<1>7. CASE RunStart(u)
  BY <1>1, <1>2, <1>7 DEF RunStart, StatusWritten, SameStatus, Experiment, Executing
<1>8. CASE TouchCampaign(u) \/ RunRound(u) \/ Release(u)
  BY <1>1, <1>8 DEF TouchCampaign, RunRound, Release, SameStatus, Experiment
<1>9. ~MarkWrite(u)
  BY DEF MarkWrite, EndInv, EndWritten
<1>10. CASE ClaimJob(u) \/ Skip(u) \/ MarkSelect(u)
  BY <1>10 DEF ClaimJob, Skip, MarkSelect, SameStatus
<1>11. CASE ResetCampaign(u)
  <2>1. exps[e].status = "FAILED"
    BY <1>11 DEF ResetCampaign, EndInv, EndWritten, Unsettled
  <2>2. exps'[e].status = "PENDING"
    BY <1>1, <1>11 DEF ResetCampaign, HandedBack, Experiment
  <2> QED
    BY <1>11, <2>1, <2>2 DEF StatusWrittenBy, StatusGoes
<1>12. CASE Settle(u) /\ ~ResetCampaign(u)
  BY <1>12 DEF Settle, SettleCompleted, SettleFailSelect, SettleRetry, SettleFailed, SameStatus
<1> QED
  BY <1>3, <1>4, <1>5, <1>6, <1>7, <1>8, <1>9, <1>10, <1>11, <1>12 DEF ProcessStep, Execute

\* Every step without a fault, and every campaign.
LEMMA CampaignsMove ==
  ASSUME Facts, Calm, FaultFree, NEW e \in Experiments
  PROVE  CampaignMoves(e)
<1>1. ASSUME NEW r \in Requests, (\E d \in Experiments : CreateCampaign(r, d)) \/ Submit(r)
      PROVE  CampaignMoves(e)
  <2>1. ASSUME NEW d \in Experiments, CreateCampaign(r, d)
        PROVE  CampaignMoves(e)
    <3>1. CASE d = e
      <4>1. exps \in [Experiments -> Experiment]
        BY DEF Facts, WorkerTypeOK
      <4>2. exps[e].status = "ABSENT" /\ exps' = [exps EXCEPT ![e].status = "PENDING"]
        BY <2>1, <3>1 DEF CreateCampaign
      <4>3. exps'[e].status = "PENDING"
        BY <4>1, <4>2 DEF Experiment
      <4> QED
        BY <2>1, <3>1, <4>2, <4>3 DEF CampaignMoves, StatusGoes
    <3>2. CASE d # e
      BY <2>1, <3>2 DEF CreateCampaign, CampaignMoves, SameStatus, Facts, WorkerTypeOK
    <3> QED
      BY <3>1, <3>2
  <2>2. CASE Submit(r)
    BY <2>2 DEF Submit, SubmitSelect, SubmitQueued, SubmitInsert, workerVars, CampaignMoves,
                SameStatus
  <2> QED
    BY <1>1, <2>1, <2>2
<1>2. ASSUME NEW u \in Workers, ProcessStep(u)
      PROVE  CampaignMoves(e)
  <2>1. CASE pc[u] \in Busy \cup {"reset"} /\ camp[u] = e
    BY <1>2, <2>1, OwnStatusMoves DEF Calm, CampaignMoves
  <2>2. CASE ~(pc[u] \in Busy \cup {"reset"} /\ camp[u] = e)
    <3>1. \/ exps'[e] = exps[e]
          \/ ResumeWrite(u) /\ e \in stale[u]
          \/ ExpireWrite(u) /\ e \in expiring[u]
      BY <1>2, <2>2, ForeignRow DEF Facts
    <3>2. e \notin stale[u]
      BY DEF Calm, Calls
    <3>3. CASE ExpireWrite(u) /\ e \in expiring[u]
      <4>1. exps[e].status = "PENDING"
        BY <3>3 DEF ExpireWrite, Facts, WorkerInv, InOrder, ReadByRecovery
      <4>2. exps'[e].status = "FAILED"
        BY <3>3 DEF ExpireWrite, Facts, WorkerTypeOK, Experiment
      <4> QED
        BY <3>3, <4>1, <4>2 DEF CampaignMoves, StatusGoes
    <3> QED
      BY <3>1, <3>2, <3>3 DEF CampaignMoves, SameStatus
  <2> QED
    BY <2>1, <2>2
<1>3. CASE ClockTick
  BY <1>3, ClockKeepsStatus DEF CampaignMoves, SameStatus
<1>4. CASE UNCHANGED vars
  BY <1>4 DEF vars, workerVars, CampaignMoves, SameStatus
<1> QED
  BY <1>1, <1>2, <1>3, <1>4 DEF FaultFree
-----------------------------------------------------------------------------
(***************************************************************************)
(* What a step without a fault does to a worker.                           *)
(***************************************************************************)

\* Where a worker is, what it executes, and what its recovery has read.
Still(w) ==
  /\ pc'[w] = pc[w] /\ camp'[w] = camp[w] /\ outcome'[w] = outcome[w]
  /\ claim'[w] = claim[w] /\ enqueuing'[w] = enqueuing[w]
  /\ stale'[w] = stale[w] /\ todo'[w] = todo[w]

\* Only the worker itself moves.
LEMMA MovesItself ==
  ASSUME Facts, FaultFree, NEW w \in Workers, ~ProcessStep(w)
  PROVE  Still(w)
<1> USE DEF Facts, WorkerTypeOK
<1>1. w \in Callers /\ w \notin Requests
  BY WorkerConstants, QueueConstants
<1>2. ASSUME NEW r \in Requests, (\E e \in Experiments : CreateCampaign(r, e)) \/ Submit(r)
      PROVE  Still(w)
  <2>1. r \in Callers /\ r # w
    BY <1>1, WorkerConstants
  <2>2. enqueuing'[w] = enqueuing[w] /\ claim' = claim
    BY <1>1, <1>2, <2>1 DEF CreateCampaign, Submit, SubmitSelect, EnqueueSelect, SubmitQueued,
                       SubmitInsert, EnqueueInsert, queueVars, QueueFacts, TypeOK
  <2>3. UNCHANGED <<pc, camp, outcome, stale, todo>>
    BY <1>2 DEF CreateCampaign, Submit, SubmitSelect, SubmitQueued, SubmitInsert, workerVars,
                recoveryVars
  <2> QED
    BY <2>2, <2>3 DEF Still
<1>3. ASSUME NEW u \in Workers, ProcessStep(u)
      PROVE  Still(w)
  <2>1. u # w
    BY <1>3
  <2>2. pc'[w] = pc[w] /\ camp'[w] = camp[w] /\ outcome'[w] = outcome[w]
    BY <1>3, <2>1, OthersKeepPlace, OthersKeepOutcome
  <2>3. CallerStep(u) \/ WorkerStep(u) \/ UNCHANGED queueVars
    BY <1>3, ProcessUsesQueue
  <2>4. claim'[w] = claim[w]
    <3>1. TypeOK /\ w \in Workers \ {u}
      BY <2>1
    <3> QED
      BY <2>3, <3>1, OthersKeepClaim
  <2>5. enqueuing'[w] = enqueuing[w]
    BY <1>1, <2>1, <2>3
       DEF CallerStep, WorkerStep, queueVars, EnqueueSelect, EnqueueInsert, LeaveJob, Claim,
           MarkJobCompleted, FailJobSelect, FailJobWrite, TouchJob, BumpJobHeartbeat,
           RecoverSelect, RecoverWrite, QueueFacts, TypeOK
  <2>6. stale'[w] = stale[w] /\ todo'[w] = todo[w]
    <3>1. CASE Recover(u)
      BY <2>1, <3>1 DEF Recover, Start, ResumeSelect, ResumeWrite, PendingSelect, ExpireWrite,
                  RequeueSelect, RequeueQueued, RequeueInsert, Requeued, JobSweepSelect,
                  JobSweepNothing, JobSweepWrite, workerVars, recoveryVars
    <3>2. CASE Execute(u)
      BY <3>2 DEF Execute, ClaimJob, TouchCampaign, Acquire, Skip, RunStart, RunRound,
                  RunCompleted, RunFailed, Release, MarkSelect, MarkWrite, recoveryVars
    <3>3. CASE Settle(u)
      BY <3>3 DEF Settle, SettleCompleted, SettleFailSelect, SettleRetry, SettleFailed,
                  ResetCampaign, recoveryVars
    <3> QED
      BY <1>3, <3>1, <3>2, <3>3 DEF ProcessStep
  <2> QED
    BY <2>2, <2>4, <2>5, <2>6 DEF Still
<1>4. CASE ClockTick
  BY <1>4 DEF ClockTick, Tick, recoveryVars, Still
<1>5. CASE UNCHANGED vars
  BY <1>5 DEF vars, queueVars, workerVars, Still
<1> QED
  BY <1>2, <1>3, <1>4, <1>5 DEF FaultFree

\* A worker that executes goes on, or its run ends.
LEMMA RunGoesOn ==
  ASSUME Facts, NEW u \in Workers, ProcessStep(u), pc[u] \in Executing
  PROVE  \/ pc'[u] \in Executing /\ camp'[u] = camp[u]
         \/ RunCompleted(u) \/ RunFailed(u)
<1> USE DEF Facts, WorkerTypeOK, Executing
<1>1. ~Recover(u) /\ ~Settle(u)
  BY DEF Recover, Start, ResumeSelect, ResumeWrite, PendingSelect, ExpireWrite, RequeueSelect,
         RequeueQueued, RequeueInsert, Requeued, JobSweepSelect, JobSweepNothing, JobSweepWrite,
         Settle, SettleCompleted, SettleFailSelect, SettleRetry, SettleFailed, ResetCampaign
<1>2. CASE RunStart(u) \/ RunRound(u)
  BY <1>2 DEF RunStart, RunRound, Goto
<1>3. ~ClaimJob(u) /\ ~TouchCampaign(u) /\ ~Acquire(u) /\ ~Skip(u) /\ ~Release(u)
      /\ ~MarkSelect(u) /\ ~MarkWrite(u)
  BY DEF ClaimJob, TouchCampaign, Acquire, Skip, Release, MarkSelect, MarkWrite
<1> QED
  BY <1>1, <1>2, <1>3 DEF ProcessStep, Execute

\* The way into an execution, and to its failure, is to acquire the lease.
LEMMA UnendedBefore ==
  ASSUME Facts, EndInv, NEW u \in Workers, ProcessStep(u), Unended(u)'
  PROVE  camp'[u] = camp[u] /\ (Unended(u) \/ Acquire(u))
<1> USE DEF Facts, WorkerTypeOK, Unended, Executing
<1>1. CASE Recover(u)
  <2>1. pc'[u] \in Starting \cup {"down", "poll"}
    BY <1>1 DEF Recover, Start, ResumeSelect, ResumeWrite, PendingSelect, ExpireWrite,
           RequeueSelect, RequeueQueued, RequeueInsert, Requeued, JobSweepSelect,
           JobSweepNothing, JobSweepWrite, workerVars, Goto, Starting
  <2> QED
    BY <2>1 DEF Starting
<1>2. CASE Execute(u)
  <2>1. ~MarkSelect(u) /\ ~MarkWrite(u)
    BY DEF MarkSelect, MarkWrite, EndInv, EndWritten
  <2>2. CASE ClaimJob(u) \/ TouchCampaign(u) \/ Skip(u)
    BY <2>2 DEF ClaimJob, TouchCampaign, Skip, Goto
  <2>3. CASE Acquire(u)
    BY <2>3 DEF Acquire
  <2>4. CASE RunStart(u) \/ RunRound(u) \/ RunCompleted(u) \/ RunFailed(u) \/ Release(u)
    BY <2>4 DEF RunStart, RunRound, RunCompleted, RunFailed, Release
  <2> QED
    BY <1>2, <2>1, <2>2, <2>3, <2>4 DEF Execute
<1>3. CASE Settle(u)
  <2>1. CASE SettleCompleted(u) \/ SettleFailed(u) \/ ResetCampaign(u)
    BY <2>1 DEF SettleCompleted, SettleFailed, ResetCampaign, BackToPoll, Goto
  <2>2. CASE SettleFailSelect(u) \/ SettleRetry(u)
    BY <2>2 DEF SettleFailSelect, SettleRetry
  <2> QED
    BY <1>3, <2>1, <2>2 DEF Settle
<1> QED
  BY <1>1, <1>2, <1>3 DEF ProcessStep

\* The way to a COMPLETED job.
LEMMA ConcludedBefore ==
  ASSUME Facts, EndInv, NEW u \in Workers, ProcessStep(u), Concluded(u)'
  PROVE  /\ camp'[u] = camp[u]
         /\ Skip(u) \/ RunCompleted(u) \/ (Release(u) /\ Concluded(u))
<1> USE DEF Facts, WorkerTypeOK, Concluded
<1>1. CASE Recover(u)
  <2>1. pc'[u] \in Starting \cup {"down", "poll"}
    BY <1>1 DEF Recover, Start, ResumeSelect, ResumeWrite, PendingSelect, ExpireWrite,
           RequeueSelect, RequeueQueued, RequeueInsert, Requeued, JobSweepSelect,
           JobSweepNothing, JobSweepWrite, workerVars, Goto, Starting
  <2> QED
    BY <2>1 DEF Starting
<1>2. CASE Execute(u)
  <2>1. ~MarkSelect(u) /\ ~MarkWrite(u)
    BY DEF MarkSelect, MarkWrite, EndInv, EndWritten
  <2>2. CASE ClaimJob(u) \/ TouchCampaign(u) \/ Acquire(u) \/ RunStart(u) \/ RunRound(u)
    BY <2>2 DEF ClaimJob, TouchCampaign, Acquire, RunStart, RunRound, Goto
  <2>3. CASE RunFailed(u)
    BY <2>3 DEF RunFailed, Goto
  <2>4. CASE Skip(u) \/ RunCompleted(u)
    BY <2>4 DEF Skip, RunCompleted
  <2>5. CASE Release(u)
    <3>1. pc[u] = "release" /\ outcome[u] \in {"completed", "failed"}
      BY <2>5 DEF Release, EndInv, EndWritten
    <3>2. outcome[u] = "failed" => pc'[u] = "fail"
      BY <2>5 DEF Release, Goto
    <3> QED
      BY <2>5, <3>1, <3>2 DEF Release
  <2> QED
    BY <1>2, <2>1, <2>2, <2>3, <2>4, <2>5 DEF Execute
<1>3. CASE Settle(u)
  <2>1. pc'[u] \in {"poll", "failing", "reset"}
    BY <1>3 DEF Settle, SettleCompleted, SettleFailSelect, SettleRetry, SettleFailed,
                ResetCampaign, BackToPoll, Goto
  <2> QED
    BY <2>1
<1> QED
  BY <1>1, <1>2, <1>3 DEF ProcessStep

\* A worker gives up a job by settling its row.
LEMMA ClaimGivenUp ==
  ASSUME Facts, NEW u \in Workers, ProcessStep(u), Holds(u), claim'[u] # claim[u]
  PROVE  jobs'[claim[u].job].status # "RUNNING"
<1>1. CASE Recover(u)
  BY <1>1 DEF Recover, Start, ResumeSelect, ResumeWrite, PendingSelect, ExpireWrite,
              RequeueSelect, RequeueQueued, RequeueInsert, Requeued, JobSweepSelect,
              JobSweepNothing, JobSweepWrite, workerVars, queueVars, EnqueueSelect,
              EnqueueInsert, RecoverSelect, RecoverWrite
<1>2. CASE Execute(u)
  <2>1. ~ClaimJob(u)
    BY DEF ClaimJob, Claim
  <2> QED
    BY <1>2, <2>1 DEF Execute, TouchCampaign, Acquire, Skip, RunStart, RunRound,
                      BumpJobHeartbeat, RunCompleted, RunFailed, Release, MarkSelect, MarkWrite,
                      queueVars
<1>3. CASE Settle(u)
  <2>1. CASE SettleCompleted(u)
    <3>1. claim[u].job \in JobIds /\ jobs[claim[u].job].status = "RUNNING"
      BY HeldIsFresh DEF Facts, QueueFacts, TimelyInv, HeldRow
    <3>2. jobs' = [jobs EXCEPT ![claim[u].job].status = "COMPLETED",
                               ![claim[u].job].heartbeat = 0]
      BY <2>1, <3>1 DEF SettleCompleted, MarkJobCompleted
    <3>3. jobs'[claim[u].job].status = "COMPLETED"
      BY <3>1, <3>2 DEF Facts, QueueFacts, TypeOK, Row
    <3> QED
      BY <3>3
  <2>2. CASE SettleRetry(u) \/ SettleFailed(u)
    <3>1. jobs'[claim[u].job].status \in {"PENDING", "FAILED"}
      BY <2>2, FailCommits DEF SettleRetry, SettleFailed
    <3> QED
      BY <3>1
  <2>3. CASE SettleFailSelect(u) \/ ResetCampaign(u)
    BY <2>3 DEF SettleFailSelect, FailJobSelect, ResetCampaign, queueVars
  <2> QED
    BY <1>3, <2>1, <2>2, <2>3 DEF Settle
<1> QED
  BY <1>1, <1>2, <1>3 DEF ProcessStep
-----------------------------------------------------------------------------
(***************************************************************************)
(* What a step without a fault does to the calls of enqueue_campaign.      *)
(***************************************************************************)

\* Only the request itself creates its campaign and enqueues it.
LEMMA RequestMovesItself ==
  ASSUME Facts, FaultFree, NEW r \in Requests,
         ~Submit(r), ~ \E e \in Experiments : CreateCampaign(r, e)
  PROVE  enqueuing'[r] = enqueuing[r] /\ submitting'[r] = submitting[r]
<1>1. /\ enqueuing \in [Callers -> Experiments \cup {NoExperiment}]
      /\ submitting \in [Requests -> Experiments \cup {NoExperiment}]
      /\ r \in Callers /\ r \notin Workers
  BY WorkerConstants DEF Facts, WorkerTypeOK, TypeOK
<1>2. ASSUME NEW q \in Requests, (\E e \in Experiments : CreateCampaign(q, e)) \/ Submit(q)
      PROVE  enqueuing'[r] = enqueuing[r] /\ submitting'[r] = submitting[r]
  <2>1. q # r
    BY <1>2
  <2> QED
    BY <1>1, <1>2, <2>1 DEF CreateCampaign, Submit, SubmitSelect, EnqueueSelect, SubmitQueued,
                            SubmitInsert, EnqueueInsert, queueVars, workerVars
<1>3. ASSUME NEW u \in Workers, ProcessStep(u)
      PROVE  enqueuing'[r] = enqueuing[r] /\ submitting'[r] = submitting[r]
  <2>1. u # r /\ u \in Callers
    BY <1>1, QueueConstants
  <2>2. CallerStep(u) \/ WorkerStep(u) \/ UNCHANGED queueVars
    BY <1>3, ProcessUsesQueue
  <2>3. enqueuing'[r] = enqueuing[r]
    BY <1>1, <2>1, <2>2
       DEF CallerStep, WorkerStep, queueVars, EnqueueSelect, EnqueueInsert, LeaveJob, Claim,
           MarkJobCompleted, FailJobSelect, FailJobWrite, TouchJob, BumpJobHeartbeat,
           RecoverSelect, RecoverWrite
  <2>4. submitting' = submitting
    <3>1. CASE Recover(u)
      BY <3>1 DEF Recover, Start, ResumeSelect, ResumeWrite, PendingSelect, ExpireWrite,
                  RequeueSelect, RequeueQueued, RequeueInsert, Requeued, JobSweepSelect,
                  JobSweepNothing, JobSweepWrite, workerVars
    <3>2. CASE Execute(u)
      BY <3>2 DEF Execute, ClaimJob, TouchCampaign, Acquire, Skip, RunStart, RunRound,
                  RunCompleted, RunFailed, Release, MarkSelect, MarkWrite
    <3>3. CASE Settle(u)
      BY <3>3 DEF Settle, SettleCompleted, SettleFailSelect, SettleRetry, SettleFailed,
                  ResetCampaign
    <3> QED
      BY <1>3, <3>1, <3>2, <3>3 DEF ProcessStep
  <2> QED
    BY <2>3, <2>4
<1>4. CASE ClockTick
  BY <1>4 DEF ClockTick, Tick
<1>5. CASE UNCHANGED vars
  BY <1>5 DEF vars, queueVars, workerVars
<1> QED
  BY <1>2, <1>3, <1>4, <1>5 DEF FaultFree

\* What recovery is about to enqueue changes in four operations.
LEMMA RecoveryMoves ==
  ASSUME Facts, Calm, NEW u \in Workers, ProcessStep(u)
  PROVE  \/ /\ enqueuing'[u] = enqueuing[u] /\ stale'[u] = stale[u] /\ todo'[u] = todo[u]
            /\ todo[u] # {} => pc'[u] \in {"expiring", "requeue"}
         \/ PendingSelect(u)
         \/ \E e \in Experiments : RequeueSelect(u, e) \/ RequeueQueued(u, e)
         \/ RequeueInsert(u)
<1> DEFINE Same == /\ enqueuing'[u] = enqueuing[u] /\ stale'[u] = stale[u]
                   /\ todo'[u] = todo[u]
                   /\ todo[u] # {} => pc'[u] \in {"expiring", "requeue"}
<1>1. stale[u] = {} /\ (todo[u] # {} => pc[u] \in {"expiring", "requeue"})
  BY DEF Calm, Calls
<1>2. CASE ResumeSelect(u)
  <2>1. {e \in Experiments : IsStale(e)} = {}
    BY NothingStale DEF Calm
  <2>2. stale'[u] = {}
    BY <1>2, <2>1 DEF ResumeSelect, Facts, WorkerTypeOK
  <2>3. pc[u] = "resume" /\ enqueuing' = enqueuing /\ todo' = todo
    BY <1>2 DEF ResumeSelect, queueVars
  <2> QED
    BY <1>1, <2>2, <2>3
<1>3. CASE Start(u) \/ ResumeWrite(u) \/ JobSweepSelect(u) \/ JobSweepNothing(u)
           \/ JobSweepWrite(u)
  <2>1. pc[u] \notin {"expiring", "requeue"} /\ UNCHANGED <<enqueuing, stale, todo>>
    BY <1>3 DEF Start, ResumeWrite, JobSweepSelect, JobSweepNothing, JobSweepWrite,
                RecoverSelect, RecoverWrite, queueVars, recoveryVars
  <2> QED
    BY <1>1, <2>1
<1>4. CASE ExpireWrite(u)
  <2>1. pc'[u] = "requeue" /\ UNCHANGED <<enqueuing, stale, todo>>
    BY <1>4 DEF ExpireWrite, Goto, queueVars, Facts, WorkerTypeOK
  <2> QED
    BY <2>1
<1>5. CASE Requeued(u)
  BY <1>5 DEF Requeued, queueVars, recoveryVars
<1>6. CASE Execute(u)
  <2>1. pc[u] \notin {"expiring", "requeue"} /\ UNCHANGED <<enqueuing, stale, todo>>
    BY <1>6 DEF Execute, ClaimJob, Claim, TouchCampaign, Acquire, Skip, RunStart, RunRound,
                BumpJobHeartbeat, RunCompleted, RunFailed, Release, MarkSelect, MarkWrite,
                queueVars, recoveryVars, Executing
  <2> QED
    BY <1>1, <2>1
<1>7. CASE Settle(u)
  <2>1. pc[u] \notin {"expiring", "requeue"} /\ UNCHANGED <<enqueuing, stale, todo>>
    BY <1>7 DEF Settle, SettleCompleted, MarkJobCompleted, SettleFailSelect, FailJobSelect,
                SettleRetry, SettleFailed, FailJobWrite, ResetCampaign, queueVars, recoveryVars
  <2> QED
    BY <1>1, <2>1
<1> QED
  BY <1>2, <1>3, <1>4, <1>5, <1>6, <1>7 DEF ProcessStep, Recover

\* After the INSERT the campaign has an active job: the new one, or the one
\* for which the index refuses it.
LEMMA InsertQueues ==
  ASSUME Facts, NEW c \in Callers, NEW j \in JobIds, EnqueueInsert(c, j),
         NEW e \in Experiments, enqueuing[c] = e
  PROVE  \E i \in JobIds : jobs'[i].exp = e /\ jobs'[i].status \in ActiveStatus
<1> DEFINE table == [jobs EXCEPT ![j] = NewRow(e)]
<1>1. /\ table[j].exp = e /\ table[j].status = "PENDING"
      /\ \A i \in JobIds \ {j} : table[i] = jobs[i]
  BY DEF NewRow, Facts, QueueFacts, TypeOK
<1>2. Commit(table)
  BY DEF EnqueueInsert
<1> HIDE DEF table
<1>3. CASE UniqueActive(table)
  BY <1>1, <1>2, <1>3 DEF Commit, ActiveStatus
<1>4. CASE ~UniqueActive(table)
  <2>1. jobs' = jobs
    BY <1>2, <1>4 DEF Commit
  <2>2. PICK a, b \in JobIds :
          /\ table[a].status \in ActiveStatus /\ table[b].status \in ActiveStatus
          /\ table[a].exp = table[b].exp /\ a # b
    BY <1>4 DEF UniqueActive
  <2>3. a = j \/ b = j
    BY <1>1, <2>2 DEF Facts, QueueFacts, OneActiveJob, UniqueActive
  <2> QED
    BY <1>1, <2>1, <2>2, <2>3
<1> QED
  BY <1>3, <1>4
-----------------------------------------------------------------------------
(***************************************************************************)
(* Steps without a fault leave campaigns and jobs calm.                    *)
(***************************************************************************)

\* A campaign stays in the table.
LEMMA KnownStays ==
  ASSUME Facts, Calm, FaultFree, NEW e, Known(e)
  PROVE  Known(e)'
BY CampaignsMove DEF Known, CampaignMoves, SameStatus, StatusGoes, StatusWrittenBy

\* Nothing removes a campaign or refers to one that is not in the table.
LEMMA KnownCampaignsStay ==
  ASSUME Facts, Calm, FaultFree
  PROVE  KnownCampaigns'
<1> USE DEF Calm, KnownCampaigns
<1>1. ASSUME NEW j \in JobIds, jobs'[j].status # "ABSENT"
      PROVE  Known(jobs[j].exp)'
  <2>1. PICK e : e = jobs'[j].exp
    OBVIOUS
  <2>2. Known(e)
    <3>1. JobMoves(j)
      BY JobsMove
    <3>2. CASE jobs[j].status # "ABSENT" /\ jobs'[j].exp = jobs[j].exp
      BY <2>1, <3>2
    <3>3. CASE Inserted(j)
      BY <2>1, <3>3 DEF Inserted, NewRow
    <3> QED
      BY <1>1, <3>1, <3>2, <3>3 DEF JobMoves, SameJob, TakenBy, ClosedBy, RetriedBy, FailedBy,
                                    JobGoes
  <2>3. Known(e)'
    BY <2>2, KnownStays
  <2> QED
    BY <2>1, <2>3 DEF Known
<1>2. ASSUME NEW r \in Requests
      PROVE  Known(enqueuing[r])' /\ Known(submitting[r])'
  <2>1. r \in Callers /\ Known(enqueuing[r]) /\ Known(submitting[r]) /\ Known(NoExperiment)
    BY WorkerConstants, QueueConstants DEF Known
  <2>2. PICK a, b : a = enqueuing'[r] /\ b = submitting'[r]
    OBVIOUS
  <2>3. CASE \E e \in Experiments : CreateCampaign(r, e)
    <3>1. PICK e \in Experiments : CreateCampaign(r, e)
      BY <2>3
    <3>2. a = enqueuing[r] /\ b = e /\ exps'[e].status = "PENDING"
      BY <2>2, <3>1 DEF CreateCampaign, queueVars, Facts, WorkerTypeOK, Experiment
    <3>3. Known(a)'
      BY <2>1, <3>2, KnownStays
    <3> QED
      BY <2>2, <3>2, <3>3 DEF Known
  <2>4. CASE ~ \E e \in Experiments : CreateCampaign(r, e)
    <3>1. a \in {enqueuing[r], submitting[r], NoExperiment} /\ b \in {submitting[r], NoExperiment}
      <4>1. CASE Submit(r)
        BY <2>1, <2>2, <4>1 DEF Submit, SubmitSelect, EnqueueSelect, SubmitQueued, SubmitInsert,
              EnqueueInsert, queueVars, workerVars, Facts, WorkerTypeOK, TypeOK
      <4>2. CASE ~Submit(r)
        BY <2>2, <2>4, <4>2, RequestMovesItself
      <4> QED
        BY <4>1, <4>2
    <3>2. Known(a) /\ Known(b)
      BY <2>1, <3>1
    <3>3. Known(a)' /\ Known(b)'
      BY <3>2, KnownStays
    <3> QED
      BY <2>2, <3>3 DEF Known
  <2> QED
    BY <2>3, <2>4
<1>3. ASSUME NEW w \in Workers
      PROVE  Known(enqueuing[w])' /\ \A e \in Experiments : e \in todo'[w] => Known(e)'
  <2>1. w \in Callers /\ Known(enqueuing[w]) /\ \A e \in Experiments : e \in todo[w] => Known(e)
    BY QueueConstants
  <2>2. PICK a : a = enqueuing'[w]
    OBVIOUS
  <2>3. Known(a) /\ \A e \in Experiments : e \in todo'[w] => Known(e)
    <3>1. CASE enqueuing'[w] = enqueuing[w] /\ todo'[w] = todo[w]
      BY <2>1, <2>2, <3>1
    <3>2. CASE PendingSelect(w)
      <4>1. stale[w] = {} /\ enqueuing' = enqueuing
        BY <3>2 DEF PendingSelect, queueVars, Calls
      <4>2. todo'[w] \subseteq Waiting(stale[w])
        BY <3>2, <4>1 DEF PendingSelect, Facts, WorkerTypeOK
      <4> QED
        BY <2>1, <2>2, <4>1, <4>2 DEF Waiting, Known
    <3>3. ASSUME NEW d \in Experiments, RequeueSelect(w, d) \/ RequeueQueued(w, d)
          PROVE  Known(a) /\ \A e \in Experiments : e \in todo'[w] => Known(e)
      <4>1. d \in todo[w] /\ todo'[w] \subseteq todo[w]
        BY <3>3 DEF RequeueSelect, RequeueQueued, Facts, WorkerTypeOK
      <4>2. a \in {enqueuing[w], d}
        BY <2>1, <2>2, <3>3 DEF RequeueSelect, EnqueueSelect, RequeueQueued, queueVars, Facts,
                                WorkerTypeOK, TypeOK
      <4> QED
        BY <2>1, <4>1, <4>2
    <3>4. CASE RequeueInsert(w)
      <4>1. a = NoExperiment /\ todo' = todo
        BY <2>1, <2>2, <3>4 DEF RequeueInsert, EnqueueInsert, workerVars, Facts, WorkerTypeOK,
                                TypeOK
      <4> QED
        BY <2>1, <4>1, QueueConstants DEF Known
    <3> QED
      BY <3>1, <3>2, <3>3, <3>4, RecoveryMoves, MovesItself DEF Still
  <2>4. Known(a)' /\ \A e \in Experiments : e \in todo'[w] => Known(e)'
    BY <2>3, KnownStays
  <2> QED
    BY <2>2, <2>4 DEF Known
<1> QED
  BY <1>1, <1>2, <1>3, WorkerConstants DEF Known

\* A request enqueues the campaign it has submitted, a recovery what it has found stuck.
LEMMA CallsStay ==
  ASSUME Facts, Calm, FaultFree
  PROVE  Calls'
<1> USE DEF Calm, Calls
<1>1. ASSUME NEW r \in Requests, enqueuing'[r] # NoExperiment
      PROVE  enqueuing'[r] = submitting'[r]
  <2>1. r \in Callers
    BY WorkerConstants
  <2>2. CASE \E e \in Experiments : CreateCampaign(r, e)
    BY <1>1, <2>2 DEF CreateCampaign, queueVars
  <2>3. CASE Submit(r)
    <3>1. CASE SubmitSelect(r)
      BY <1>1, <2>1, <3>1 DEF SubmitSelect, EnqueueSelect, workerVars, Facts, QueueFacts, TypeOK
    <3>2. CASE SubmitQueued(r)
      <4>1. enqueuing' = enqueuing /\ submitting'[r] = NoExperiment
        BY <3>2 DEF SubmitQueued, queueVars, Facts, WorkerTypeOK
      <4>2. submitting[r] # NoExperiment /\ enqueuing[r] = NoExperiment
        BY <2>1, <3>2 DEF SubmitQueued
      <4> QED
        BY <1>1, <4>1, <4>2
    <3>3. CASE SubmitInsert(r)
      BY <1>1, <2>1, <3>3 DEF SubmitInsert, EnqueueInsert, Facts, QueueFacts, TypeOK
    <3> QED
      BY <2>3, <3>1, <3>2, <3>3 DEF Submit
  <2> QED
    BY <1>1, <2>2, <2>3, RequestMovesItself
<1>2. ASSUME NEW w \in Workers
      PROVE  stale'[w] = {} /\ (todo'[w] # {} => pc'[w] \in {"expiring", "requeue"})
  <2>1. CASE ~ProcessStep(w)
    BY <2>1, MovesItself DEF Still
  <2>2. CASE PendingSelect(w)
    BY <2>2 DEF PendingSelect, Goto, Facts, WorkerTypeOK
  <2>3. ASSUME NEW e \in Experiments, RequeueSelect(w, e) \/ RequeueQueued(w, e)
        PROVE  stale'[w] = {} /\ pc'[w] = "requeue"
    BY <2>3 DEF RequeueSelect, RequeueQueued
  <2>4. CASE RequeueInsert(w)
    BY <2>4 DEF RequeueInsert, workerVars
  <2> QED
    BY <2>1, <2>2, <2>3, <2>4, RecoveryMoves
<1> QED
  BY <1>1, <1>2

\* A campaign becomes RUNNING in the hands of a worker, who executes it to its end.
LEMMA ExecutedStays ==
  ASSUME Facts, Calm, FaultFree
  PROVE  Executed'
<1> SUFFICES ASSUME NEW e \in Experiments, exps'[e].status = "RUNNING"
             PROVE  \E w \in Workers : pc'[w] \in Executing /\ camp'[w] = e
  BY DEF Executed
<1>1. CampaignMoves(e) /\ exps[e] \in Experiment
  BY CampaignsMove DEF Facts, WorkerTypeOK
<1>2. CASE SameStatus(e)
  <2>1. PICK w \in Workers : pc[w] \in Executing /\ camp[w] = e
    BY <1>2 DEF SameStatus, Calm, Executed
  <2>2. ~RunCompleted(w) /\ ~RunFailed(w)
    BY <1>1, <2>1 DEF RunCompleted, RunFailed, StatusWritten, Experiment, Facts, WorkerTypeOK
  <2>3. pc'[w] \in Executing /\ camp'[w] = camp[w]
    BY <2>1, <2>2, MovesItself, RunGoesOn DEF Still
  <2> QED
    BY <2>1, <2>3
<1>3. ASSUME NEW w \in Workers, StatusWrittenBy(w, e)
      PROVE  pc'[w] \in Executing /\ camp'[w] = e
  BY <1>3 DEF StatusWrittenBy, StatusGoes, Acquire, Goto, Executing, Facts, WorkerTypeOK
<1> QED
  BY <1>1, <1>2, <1>3 DEF CampaignMoves, StatusGoes

\* A claimed job stays with its worker until it is settled.
LEMMA ClaimantStays ==
  ASSUME Facts, Calm, FaultFree
  PROVE  Claimant'
<1> SUFFICES ASSUME NEW j \in JobIds, jobs'[j].status = "RUNNING"
             PROVE  \E w \in Workers : claim'[w].job = j
  BY DEF Claimant
<1>1. JobMoves(j)
  BY JobsMove DEF Calm
<1>2. CASE SameJob(j)
  <2>1. PICK w \in Workers : claim[w].job = j
    BY <1>2 DEF SameJob, Calm, Claimant
  <2>2. Holds(w)
    BY <2>1, QueueConstants DEF Holds
  <2>3. claim'[w] = claim[w]
    BY <2>1, <2>2, MovesItself, ClaimGivenUp DEF Still
  <2> QED
    BY <2>1, <2>3
<1>3. ~Inserted(j)
  BY InsertedPending
<1>4. ASSUME NEW w \in Workers, TakenBy(w, j)
      PROVE  claim'[w].job = j
  BY <1>4 DEF TakenBy
<1>5. ASSUME NEW w \in Workers
      PROVE  ~ClosedBy(w, j) /\ ~RetriedBy(w, j) /\ ~FailedBy(w, j)
  BY DEF ClosedBy, RetriedBy, FailedBy, JobGoes
<1> QED
  BY <1>1, <1>2, <1>3, <1>4, <1>5 DEF JobMoves

\* Only a claim counts an attempt, and only a job with attempts left is queued again.
LEMMA TriesStay ==
  ASSUME Facts, Calm, FaultFree
  PROVE  Tries'
<1> SUFFICES ASSUME NEW j \in JobIds
             PROVE  /\ jobs'[j].attempts <= MaxAttempts
                    /\ jobs'[j].status = "PENDING" => jobs'[j].attempts < MaxAttempts
  BY DEF Tries
<1>1. JobMoves(j)
  BY JobsMove DEF Calm
<1>2. /\ jobs[j].attempts \in Nat /\ jobs[j].attempts <= MaxAttempts
      /\ jobs[j].status = "PENDING" => jobs[j].attempts < MaxAttempts
  BY DEF Calm, Tries, Facts, QueueFacts, TypeOK, Row
<1>3. CASE Inserted(j)
  BY <1>3, QueueConstants DEF Inserted, NewRow
<1>4. ASSUME NEW w \in Workers, TakenBy(w, j)
      PROVE  jobs'[j].attempts <= MaxAttempts /\ jobs'[j].status = "RUNNING"
  BY <1>2, <1>4, QueueConstants DEF TakenBy
<1>5. CASE SameJob(j)
  BY <1>2, <1>5 DEF SameJob
<1>6. ASSUME NEW w \in Workers, ClosedBy(w, j) \/ RetriedBy(w, j) \/ FailedBy(w, j)
      PROVE  /\ jobs'[j].attempts <= MaxAttempts
             /\ jobs'[j].status = "PENDING" => jobs'[j].attempts < MaxAttempts
  BY <1>2, <1>6 DEF ClosedBy, RetriedBy, FailedBy, JobGoes
<1> QED
  BY <1>1, <1>3, <1>4, <1>5, <1>6 DEF JobMoves

\* A finished campaign that no worker is about to reset keeps its status.
LEMMA FinishedStays ==
  ASSUME Facts, Calm, FaultFree, NEW e \in Experiments, exps[e].status \in Finished,
         \A w \in Workers : pc[w] = "reset" => camp[w] # e
  PROVE  exps'[e].status = exps[e].status
<1>1. CampaignMoves(e)
  BY CampaignsMove
<1> QED
  BY <1>1 DEF CampaignMoves, SameStatus, StatusGoes, StatusWrittenBy, Finished, ResetCampaign

\* A worker that concludes has ended its campaign, or found it ended.
LEMMA EndedStays ==
  ASSUME Facts, Calm, FaultFree
  PROVE  Ended'
<1> SUFFICES ASSUME NEW w \in Workers, Concluded(w)'
             PROVE  exps'[camp'[w]].status \in Finished
  BY DEF Ended
<1>1. ASSUME Concluded(w), camp'[w] = camp[w]
      PROVE  exps'[camp[w]].status \in Finished
  <2>1. pc[w] \in Busy /\ exps[camp[w]].status \in Finished
    BY <1>1 DEF Concluded, Busy, Settling, Calm, Ended
  <2>2. camp[w] \in Experiments
    BY <2>1, BusyCampaign DEF Facts
  <2>3. \A v \in Workers : pc[v] = "reset" => camp[v] # camp[w]
    BY <2>1, ResetApart DEF Facts
  <2> QED
    BY <2>1, <2>2, <2>3, FinishedStays
<1>2. CASE ~ProcessStep(w)
  BY <1>1, <1>2, MovesItself DEF Still, Concluded
<1>3. CASE ProcessStep(w)
  <2>1. /\ camp'[w] = camp[w]
        /\ Skip(w) \/ RunCompleted(w) \/ (Release(w) /\ Concluded(w))
    BY <1>3, ConcludedBefore DEF Calm
  <2>2. CASE Skip(w)
    <3>1. /\ pc[w] = "acquire" /\ pc[w] \in Busy
          /\ exps' = exps /\ exps[camp[w]].status # "PENDING"
      BY <2>2 DEF Skip, Acquirable, Busy
    <3>2. camp[w] \in Experiments
      BY <3>1, BusyCampaign DEF Facts
    <3>3. exps[camp[w]].status # "ABSENT"
      <4>1. Holds(w) /\ jobs[claim[w].job].exp = camp[w]
        BY <3>1 DEF Facts, WorkerInv, InOrder, BusyWithJob
      <4>2. claim[w].job \in JobIds /\ jobs[claim[w].job].status = "RUNNING"
        BY <4>1, HeldIsFresh DEF Facts, QueueFacts, TimelyInv, HeldRow
      <4> QED
        BY <3>2, <4>1, <4>2 DEF Calm, KnownCampaigns, Known
    <3>4. exps[camp[w]].status # "RUNNING"
      <4> SUFFICES ASSUME exps[camp[w]].status = "RUNNING" PROVE FALSE
        OBVIOUS
      <4>1. PICK v \in Workers : pc[v] \in Executing /\ camp[v] = camp[w]
        BY <3>2 DEF Calm, Executed
      <4>2. v = w
        BY <3>1, <4>1, BusyApart DEF Facts, Busy
      <4> QED
        BY <3>1, <4>1, <4>2 DEF Executing
    <3>5. exps[camp[w]].status \in Finished
      BY <3>1, <3>2, <3>3, <3>4 DEF Facts, WorkerTypeOK, Experiment, CampaignStatus, Finished
    <3> QED
      BY <2>1, <3>1, <3>5
  <2>3. CASE RunCompleted(w)
    <3>1. camp[w] \in Experiments
      BY <2>3, BusyCampaign DEF Facts, RunCompleted, Busy, Executing
    <3>2. exps'[camp[w]].status = "COMPLETED"
      BY <2>3, <3>1 DEF RunCompleted, StatusWritten, Facts, WorkerTypeOK, Experiment
    <3> QED
      BY <2>1, <3>2 DEF Finished
  <2> QED
    BY <1>1, <2>1, <2>2, <2>3
<1> QED
  BY <1>2, <1>3

\* When a worker settles its job, nobody else is about to write its campaign.
LEMMA SettledAlone ==
  ASSUME Facts, NEW w \in Workers, pc[w] \in Busy, ProcessStep(w), pc'[w] = "poll",
         NEW v \in Workers, Unended(v)'
  PROVE  camp'[v] # camp[w]
<1>1. v # w
  BY DEF Unended, Executing
<1>2. pc'[v] = pc[v] /\ camp'[v] = camp[v]
  BY <1>1, OthersKeepPlace DEF Facts
<1>3. pc[v] \in Busy \cup {"reset"}
  BY <1>2 DEF Unended, Busy, Executing, Settling
<1> QED
  BY <1>1, <1>2, <1>3, BusyApart, ResetApart DEF Facts

\* A job is settled after its campaign, and a settled campaign is not written again.
LEMMA SettledStays ==
  ASSUME Facts, Calm, FaultFree, NEW j \in JobIds
  PROVE  Settled(j)'
<1> SUFFICES ASSUME jobs'[j].status \in TerminalStatus
             PROVE  Settled(j)'
  BY DEF Settled
<1>1. JobMoves(j) /\ Settled(j)
  BY JobsMove DEF Calm
<1>2. CASE SameJob(j)
  <2>1. PICK e \in Experiments : e = jobs[j].exp
    BY <1>2 DEF SameJob, TerminalStatus, Facts, WorkerInv, RowsHaveCampaign
  <2>2. /\ exps[e].status \in Finished
        /\ jobs[j].status = "FAILED" => exps[e].status = "FAILED" /\ jobs[j].attempts = MaxAttempts
        /\ \A w \in Workers : Unended(w) => camp[w] # e
    BY <1>1, <1>2, <2>1 DEF SameJob, Settled
  <2>3. exps'[e].status = exps[e].status
    BY <2>2, FinishedStays DEF Unended
  <2>4. ASSUME NEW w \in Workers, Unended(w)', camp'[w] = e
        PROVE  FALSE
    <3>1. camp[w] = e /\ (Unended(w) \/ Acquire(w))
      BY <2>4, MovesItself, UnendedBefore DEF Still, Unended, Calm
    <3>2. ~Acquire(w)
      BY <2>2, <3>1 DEF Acquire, Acquirable, Finished
    <3> QED
      BY <2>2, <3>1, <3>2
  <2>5. jobs'[j].exp = e /\ jobs'[j].status = jobs[j].status /\ jobs'[j].attempts = jobs[j].attempts
    BY <1>2, <2>1 DEF SameJob
  <2> QED
    BY <2>2, <2>3, <2>4, <2>5 DEF Settled
<1>3. ASSUME NEW w \in Workers, ClosedBy(w, j)
      PROVE  Settled(j)'
  <2>1. /\ pc[w] = "complete" /\ pc[w] \in Busy /\ pc'[w] = "poll"
        /\ ProcessStep(w) /\ exps' = exps
    BY <1>3 DEF ClosedBy, SettleCompleted, BackToPoll, Goto, Busy, Settling, ProcessStep, Settle,
                Facts, WorkerTypeOK
  <2>2. jobs'[j].exp = camp[w] /\ jobs'[j].status = "COMPLETED"
    BY <1>3, <2>1 DEF ClosedBy, JobGoes, Facts, WorkerInv, InOrder, BusyWithJob
  <2>3. exps[camp[w]].status \in Finished
    BY <2>1 DEF Calm, Ended, Concluded
  <2> QED
    BY <2>1, <2>2, <2>3, SettledAlone DEF Settled
<1>4. ASSUME NEW w \in Workers, FailedBy(w, j)
      PROVE  Settled(j)'
  <2>1. /\ pc[w] = "failing" /\ pc[w] \in Busy /\ pc'[w] = "poll"
        /\ ProcessStep(w) /\ exps' = exps
    BY <1>4 DEF FailedBy, SettleFailed, BackToPoll, Goto, Busy, Settling, ProcessStep, Settle,
                Facts, WorkerTypeOK
  <2>2. jobs'[j].exp = camp[w]
    BY <1>4, <2>1 DEF FailedBy, JobGoes, Facts, WorkerInv, InOrder, BusyWithJob
  <2>3. exps[camp[w]].status = "FAILED"
    BY <2>1 DEF Calm, EndInv, EndWritten, Unsettled
  <2>4. jobs'[j].attempts = MaxAttempts
    <3>1. jobs[j].attempts \in Nat /\ jobs[j].attempts <= MaxAttempts
      BY DEF Calm, Tries, Facts, QueueFacts, TypeOK, Row
    <3> QED
      BY <1>4, <3>1, QueueConstants DEF FailedBy, JobGoes
  <2> QED
    BY <2>1, <2>2, <2>3, <2>4, SettledAlone DEF Settled, Finished
<1>5. ~Inserted(j)
  BY InsertedPending DEF TerminalStatus
<1>6. ASSUME NEW w \in Workers
      PROVE  ~TakenBy(w, j) /\ ~RetriedBy(w, j)
  BY DEF TakenBy, RetriedBy, JobGoes, TerminalStatus
<1> QED
  BY <1>1, <1>2, <1>3, <1>4, <1>5, <1>6 DEF JobMoves

\* A campaign becomes PENDING with a job, or with somebody about to queue one.
LEMMA WaitedStays ==
  ASSUME Facts, Calm, FaultFree
  PROVE  Waited'
<1> SUFFICES ASSUME NEW e \in Experiments, exps'[e].status = "PENDING"
             PROVE  ActiveJobs(jobs, e)' # {} \/ BeingQueued(e)'
  BY DEF Waited
<1>1. CampaignMoves(e)
  BY CampaignsMove
<1>2. ASSUME NEW i \in JobIds, jobs'[i].exp = e, jobs'[i].status \in ActiveStatus
      PROVE  ActiveJobs(jobs, e)' # {}
  BY <1>2 DEF ActiveJobs
<1>3. ASSUME NEW r \in Requests, CreateCampaign(r, e)
      PROVE  BeingQueued(e)'
  BY <1>3 DEF CreateCampaign, BeingQueued, Facts, WorkerTypeOK
<1>4. ASSUME NEW w \in Workers, ResetCampaign(w), camp[w] = e
      PROVE  ActiveJobs(jobs, e)' # {}
  <2>1. PICK i \in JobIds : Cooling(i, e)
    BY <1>4 DEF ResetCampaign, Facts, WorkerInv, InOrder, WaitsForReset
  <2>2. jobs' = jobs
    BY <1>4 DEF ResetCampaign, queueVars
  <2> QED
    BY <1>2, <2>1, <2>2 DEF Cooling, ActiveStatus
<1>5. CASE SameStatus(e)
  <2>1. exps[e].status = "PENDING"
    BY <1>5 DEF SameStatus
  <2>2. CASE ActiveJobs(jobs, e) # {}
    <3>1. PICK i \in JobIds : jobs[i].exp = e /\ jobs[i].status \in ActiveStatus
      BY <2>2 DEF ActiveJobs
    <3>2. JobMoves(i)
      BY JobsMove DEF Calm
    <3>3. ASSUME NEW w \in Workers, ClosedBy(w, i) \/ FailedBy(w, i)
          PROVE  FALSE
      <4>1. /\ pc[w] \in Busy /\ claim[w].job = i
            /\ pc[w] = "complete" \/ pc[w] = "failing"
        BY <3>3 DEF ClosedBy, FailedBy, SettleCompleted, SettleFailed, Busy, Settling
      <4>2. camp[w] = e
        BY <3>1, <4>1 DEF Facts, WorkerInv, InOrder, BusyWithJob
      <4> QED
        BY <2>1, <4>1, <4>2 DEF Calm, Ended, Concluded, EndInv, EndWritten, Unsettled, Finished
    <3>4. jobs'[i].exp = e /\ jobs'[i].status \in ActiveStatus
      BY <3>1, <3>2, <3>3 DEF JobMoves, SameJob, Inserted, TakenBy, RetriedBy, JobGoes,
                              ActiveStatus
    <3> QED
      BY <1>2, <3>4
  <2>3. ASSUME NEW r \in Requests, submitting[r] = e
        PROVE  ActiveJobs(jobs, e)' # {} \/ BeingQueued(e)'
    <3>1. CASE submitting'[r] = submitting[r]
      BY <2>3, <3>1 DEF BeingQueued
    <3>2. CASE SubmitQueued(r)
      <4>1. jobs' = jobs /\ ActiveJobs(jobs, e) # {}
        BY <2>3, <3>2 DEF SubmitQueued, queueVars
      <4> QED
        BY <4>1 DEF ActiveJobs
    <3>3. CASE SubmitInsert(r)
      <4>1. PICK i \in JobIds : EnqueueInsert(r, i)
        BY <3>3 DEF SubmitInsert
      <4>2. enqueuing[r] = e /\ r \in Callers
        BY <2>3, <4>1, WorkerConstants DEF EnqueueInsert, Calm, Calls
      <4> QED
        BY <1>2, <4>1, <4>2, InsertQueues
    <3>4. ~ \E d \in Experiments : CreateCampaign(r, d)
      BY <2>3, QueueConstants DEF CreateCampaign
    <3> QED
      BY <3>1, <3>2, <3>3, <3>4, RequestMovesItself DEF Submit, SubmitSelect, workerVars
  <2>4. ASSUME NEW w \in Workers, e \in todo[w] \/ enqueuing[w] = e
        PROVE  ActiveJobs(jobs, e)' # {} \/ BeingQueued(e)'
    <3>1. CASE enqueuing'[w] = enqueuing[w] /\ todo'[w] = todo[w]
      BY <2>4, <3>1 DEF BeingQueued
    <3>2. CASE PendingSelect(w)
      <4>1. pc[w] = "pending" /\ enqueuing' = enqueuing
        BY <3>2 DEF PendingSelect, queueVars
      <4>2. todo[w] = {}
        BY <4>1 DEF Calm, Calls
      <4> QED
        BY <2>4, <4>1, <4>2 DEF BeingQueued
    <3>3. ASSUME NEW d \in Experiments, RequeueSelect(w, d)
          PROVE  BeingQueued(e)'
      <4>1. w \in Callers
        BY QueueConstants
      <4>2. enqueuing[w] = NoExperiment /\ enqueuing'[w] = d /\ todo'[w] = todo[w] \ {d}
        BY <3>3, <4>1 DEF RequeueSelect, EnqueueSelect, Facts, WorkerTypeOK, TypeOK
      <4>3. e \in todo[w]
        BY <2>4, <4>2, QueueConstants
      <4>4. enqueuing'[w] = e \/ e \in todo'[w]
        BY <4>2, <4>3
      <4> QED
        BY <4>4 DEF BeingQueued
    <3>4. ASSUME NEW d \in Experiments, RequeueQueued(w, d)
          PROVE  ActiveJobs(jobs, e)' # {} \/ BeingQueued(e)'
      <4>1. /\ enqueuing[w] = NoExperiment /\ todo'[w] = todo[w] \ {d}
            /\ jobs' = jobs /\ ActiveJobs(jobs, d) # {}
        BY <3>4 DEF RequeueQueued, queueVars, Facts, WorkerTypeOK
      <4>2. e \in todo[w]
        BY <2>4, <4>1, QueueConstants
      <4>3. CASE e = d
        BY <4>1, <4>3 DEF ActiveJobs
      <4>4. CASE e # d
        BY <4>1, <4>2, <4>4 DEF BeingQueued
      <4> QED
        BY <4>3, <4>4
    <3>5. CASE RequeueInsert(w)
      <4>1. PICK i \in JobIds : EnqueueInsert(w, i)
        BY <3>5 DEF RequeueInsert
      <4>2. todo' = todo
        BY <3>5 DEF RequeueInsert, workerVars
      <4>3. CASE enqueuing[w] = e
        BY <1>2, <4>1, <4>3, InsertQueues, QueueConstants
      <4>4. CASE e \in todo[w]
        BY <4>2, <4>4 DEF BeingQueued
      <4> QED
        BY <2>4, <4>3, <4>4
    <3> QED
      BY <3>1, <3>2, <3>3, <3>4, <3>5, RecoveryMoves, MovesItself DEF Still
  <2>5. \A w \in Workers : stale[w] = {}
    BY DEF Calm, Calls
  <2> QED
    BY <2>1, <2>2, <2>3, <2>4, <2>5 DEF Calm, Waited, BeingQueued
<1> QED
  BY <1>1, <1>3, <1>4, <1>5 DEF CampaignMoves, StatusGoes, StatusWrittenBy

\* The invariant of a system in which nothing has failed.
LEMMA CalmInvariant ==
  ASSUME TimelyWorkers, ShortTransactions
  PROVE  Spec => [](faults = 0 => Calm)
<1> DEFINE Inv == faults = 0 => Calm
<1>1. Init => Inv
  <2> SUFFICES ASSUME Init PROVE Calm
    OBVIOUS
  <2>1. EndInv /\ Ended
    BY DEF Init, EndInv, OneReset, EndWritten, Unsettled, Ended, Concluded
  <2>2. KnownCampaigns
    BY QueueConstants, WorkerConstants DEF Init, QueueInit, NoRow, KnownCampaigns, Known
  <2>3. Executed /\ Waited
    BY DEF Init, NoCampaign, Executed, Waited
  <2>4. Claimant /\ Tries /\ \A j \in JobIds : Settled(j)
    BY QueueConstants DEF Init, QueueInit, NoRow, Claimant, Tries, Settled, TerminalStatus
  <2>5. Calls
    BY WorkerConstants DEF Init, QueueInit, Calls
  <2> QED
    BY <2>1, <2>2, <2>3, <2>4, <2>5 DEF Calm
<1>2. Facts /\ Inv /\ [Next]_vars => Inv'
  <2> SUFFICES ASSUME Facts, Inv, [Next]_vars, faults' = 0
               PROVE  Calm'
    OBVIOUS
  <2>1. faults = 0 /\ FaultFree /\ \A w \in Workers : ~FaultStep(w)
    BY FaultsCounted DEF Facts
  <2>2. Calm
    BY <2>1
  <2>3. EndInv'
    BY <2>1, <2>2, EndStays DEF Calm
  <2>4. KnownCampaigns' /\ Executed' /\ Claimant'
    BY <2>1, <2>2, KnownCampaignsStay, ExecutedStays, ClaimantStays
  <2>5. Ended' /\ Tries'
    BY <2>1, <2>2, EndedStays, TriesStay
  <2>6. \A j \in JobIds : Settled(j)'
    BY <2>1, <2>2, SettledStays
  <2>7. Waited' /\ Calls'
    BY <2>1, <2>2, WaitedStays, CallsStay
  <2> QED
    BY <2>3, <2>4, <2>5, <2>6, <2>7 DEF Calm
<1> QED
  BY <1>1, <1>2, WorkerFacts, PTL DEF Spec, Facts

\* Without faults no campaign is stranded: whoever waits is queued or about to
\* be, whatever is RUNNING is executed by a live worker (NoOrphans).
THEOREM NoOrphansHolds ==
  ASSUME TimelyWorkers, ShortTransactions
  PROVE  Spec => []NoOrphans
<1>1. (faults = 0 => Calm) => NoOrphans
  BY DEF Calm, Waited, Executed, NoOrphans, Orphaned
<1> QED
  BY <1>1, CalmInvariant, PTL

\* Without faults a job that is settled tells how its campaign ended, and no
\* job is claimed more often than MaxAttempts (JobsTellTheTruth).
THEOREM JobsTellTheTruthHolds ==
  ASSUME TimelyWorkers, ShortTransactions
  PROVE  Spec => []JobsTellTheTruth
<1>1. (faults = 0 => Calm) => JobsTellTheTruth
  BY DEF Calm, Settled, Tries, JobsTellTheTruth, TerminalStatus
<1> QED
  BY <1>1, CalmInvariant, PTL
=============================================================================
