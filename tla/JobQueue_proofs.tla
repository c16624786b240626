-------------------------- MODULE JobQueue_proofs --------------------------
(***************************************************************************)
(* Theorems about JobQueue, for every set of campaigns, keys and workers,  *)
(* every timeout and every number of attempts.                             *)
(***************************************************************************)
EXTENDS JobQueue, TLAPS

USE QueueConstants

(***************************************************************************)
(* Type correctness.                                                       *)
(***************************************************************************)

\* The rows the operations write are rows.
LEMMA RowTypes ==
  /\ NoRow \in Row
  /\ \A e \in Experiments : NewRow(e) \in Row
  /\ \A row \in Row : Aged(row) \in Row
<1>1. NoRow \in Row
  BY DEF NoRow, Row, JobStatus
<1>2. \A e \in Experiments : NewRow(e) \in Row
  BY DEF NewRow, Row, JobStatus, ActiveStatus
<1>3. ASSUME NEW row \in Row PROVE Aged(row) \in Row
  <2>1. CASE row.status = "RUNNING"
    BY <2>1 DEF Aged, Row
  <2>2. CASE row.status = "PENDING"
    BY <2>2 DEF Aged, Row
  <2>3. CASE row.status \notin {"RUNNING", "PENDING"}
    BY <2>3 DEF Aged
  <2> QED
    BY <2>1, <2>2, <2>3
<1> QED
  BY <1>1, <1>2, <1>3

\* Setting one column of a row.
LEMMA ColumnTypes ==
  /\ \A row \in Row, s \in JobStatus : [row EXCEPT !.status = s] \in Row
  /\ \A row \in Row, n \in Nat : [row EXCEPT !.attempts = n] \in Row
  /\ \A row \in Row : [row EXCEPT !.heartbeat = 0] \in Row
  /\ \A row \in Row, d \in Int : [row EXCEPT !.due = d] \in Row
BY DEF Row

\* Setting the columns an operation sets.
LEMMA RowUpdates ==
  ASSUME NEW row \in Row
  PROVE  /\ [row EXCEPT !.status = "COMPLETED", !.heartbeat = 0] \in Row
         /\ [row EXCEPT !.status = "PENDING", !.due = 0] \in Row
         /\ [row EXCEPT !.status = "RUNNING", !.attempts = row.attempts + 1,
                        !.heartbeat = 0] \in Row
<1> USE DEF JobStatus, ActiveStatus, TerminalStatus
<1>1. [row EXCEPT !.status = "COMPLETED", !.heartbeat = 0] \in Row
  BY ColumnTypes
<1>2. [row EXCEPT !.status = "PENDING", !.due = 0] \in Row
  <2>1. \A waiting \in Row : [waiting EXCEPT !.due = 0] \in Row
    BY DEF Row
  <2> QED
    BY <2>1, ColumnTypes
<1>3. [row EXCEPT !.status = "RUNNING", !.attempts = row.attempts + 1,
                  !.heartbeat = 0] \in Row
  <2>1. row.attempts + 1 \in Nat
    BY DEF Row
  <2> QED
    BY <2>1, ColumnTypes
<1> QED
  BY <1>1, <1>2, <1>3

\* fail_job leaves a row, whatever it has read.
LEMMA FailedRowType ==
  ASSUME NEW row \in Row, NEW seen \in [status : JobStatus \cup {"ABSENT"}, attempts : Nat]
  PROVE  FailedRow(row, seen) \in Row
<1> DEFINE due    == Backoff * seen.attempts
           status == IF seen.attempts < MaxAttempts THEN "PENDING" ELSE "FAILED"
           kept   == IF seen.status = status THEN row.status ELSE status
<1>1. due \in Int
  OBVIOUS
<1>2. [row EXCEPT !.status = kept] \in Row
  <2>1. CASE seen.status = status
    BY <2>1 DEF Row
  <2>2. CASE seen.status # status
    BY <2>2, ColumnTypes DEF JobStatus, ActiveStatus, TerminalStatus
  <2> QED
    BY <2>1, <2>2
<1>3. [[row EXCEPT !.status = kept] EXCEPT !.heartbeat = 0] \in Row
  BY <1>2, ColumnTypes
<1>4. [[[row EXCEPT !.status = kept] EXCEPT !.heartbeat = 0] EXCEPT !.due = due] \in Row
  <2> HIDE DEF due, kept
  <2> QED
    BY <1>1, <1>3, ColumnTypes
<1>5. CASE seen.attempts < MaxAttempts
  BY <1>4, <1>5 DEF FailedRow
<1>6. CASE ~(seen.attempts < MaxAttempts)
  BY <1>3, <1>6 DEF FailedRow
<1> QED
  BY <1>5, <1>6

\* Every operation of the queue keeps the table, the claims and the open
\* transactions well typed.
THEOREM QueueTypeCorrect == QueueSpec => []TypeOK
<1>1. QueueInit => TypeOK
  BY RowTypes DEF QueueInit, TypeOK, NoClaim, NotRead
<1>2. TypeOK /\ [QueueNext]_queueVars => TypeOK'
  <2> SUFFICES ASSUME TypeOK, [QueueNext]_queueVars PROVE TypeOK'
    OBVIOUS
  <2> USE DEF TypeOK
  <2>1. ASSUME NEW c \in Callers, NEW e \in Experiments, EnqueueSelect(c, e)
        PROVE  TypeOK'
    BY <2>1 DEF EnqueueSelect
  <2>2. ASSUME NEW c \in Callers, NEW j \in JobIds, EnqueueInsert(c, j)
        PROVE  TypeOK'
    <3>1. NewRow(enqueuing[c]) \in Row
      BY <2>2, RowTypes DEF EnqueueInsert
    <3>2. jobs' \in [JobIds -> Row]
      BY <2>2, <3>1 DEF EnqueueInsert, Commit
    <3> QED
      BY <2>2, <3>2 DEF EnqueueInsert
  <2>3. ASSUME NEW c \in Callers, LeaveJob(c)
        PROVE  TypeOK'
    BY <2>3 DEF LeaveJob, NoClaim, NotRead
  <2>4. ASSUME NEW w \in Workers, NEW j \in JobIds, Claim(w, j)
        PROVE  TypeOK'
    <3>1. Claimed(jobs, j) \in [JobIds -> Row]
      <4>1. Claimed(jobs, j) =
              [jobs EXCEPT ![j] = [jobs[j] EXCEPT !.status    = "RUNNING",
                                                  !.attempts  = jobs[j].attempts + 1,
                                                  !.heartbeat = 0]]
        BY DEF Claimed, Row
      <4>2. [jobs[j] EXCEPT !.status = "RUNNING", !.attempts = jobs[j].attempts + 1,
                            !.heartbeat = 0] \in Row
        BY RowUpdates
      <4> QED
        BY <4>1, <4>2
    <3>2. Claimed(jobs, j)[j].attempts \in Nat
      BY <3>1 DEF Row
    <3> QED
      BY <2>4, <3>1, <3>2 DEF Claim, Heard
  <2>5. ASSUME NEW w \in Workers, MarkJobCompleted(w)
        PROVE  TypeOK'
    <3> DEFINE job == claim[w].job
               row == [jobs[job] EXCEPT !.status = "COMPLETED", !.heartbeat = 0]
    <3>1. job \in JobIds
      BY <2>5 DEF MarkJobCompleted, Holds
    <3>2. row \in Row
      BY <3>1, RowUpdates
    <3>3. [jobs EXCEPT ![job] = row] \in [JobIds -> Row]
      BY <3>2
    <3>4. jobs' = jobs \/ jobs' = [jobs EXCEPT ![job] = row]
      BY <2>5, <3>1 DEF MarkJobCompleted, Row
    <3>5. jobs' \in [JobIds -> Row]
      BY <3>3, <3>4
    <3> HIDE DEF job, row
    <3> QED
      BY <2>5, <3>5 DEF MarkJobCompleted, Heard, NoClaim
  <2>6. ASSUME NEW w \in Workers, FailJobSelect(w)
        PROVE  TypeOK'
    BY <2>6 DEF FailJobSelect, Holds, Row
  <2>7. ASSUME NEW w \in Workers, FailJobWrite(w)
        PROVE  TypeOK'
    <3>1. claim[w].job \in JobIds
      BY <2>7 DEF FailJobWrite, Holds
    <3>2. FailedRow(jobs[claim[w].job], failing[w]) \in Row
      BY <3>1, FailedRowType
    <3>3. FailedTable(w) \in [JobIds -> Row]
      BY <3>1, <3>2 DEF FailedTable
    <3> QED
      BY <2>7, <3>3 DEF FailJobWrite, Commit, Heard, NoClaim, NotRead
  <2>8. \A running : Beaten(jobs, running) \in [JobIds -> Row]
    BY ColumnTypes DEF Beaten
  <2>9. ASSUME NEW w \in Workers, TouchJob(w) \/ BumpJobHeartbeat(w)
        PROVE  TypeOK'
    BY <2>8, <2>9 DEF TouchJob, BumpJobHeartbeat, Heard
  <2>10. ASSUME NEW w \in Workers, RecoverSelect(w)
         PROVE  TypeOK'
    BY <2>10 DEF RecoverSelect, StaleJobs
  <2>11. ASSUME NEW w \in Workers, RecoverWrite(w)
         PROVE  TypeOK'
    <3>1. Readmitted(jobs, sweeping[w]) \in [JobIds -> Row]
      BY RowUpdates DEF Readmitted
    <3> QED
      BY <2>11, <3>1 DEF RecoverWrite, Commit
  <2>12. ASSUME Tick
         PROVE  TypeOK'
    <3>1. jobs' \in [JobIds -> Row]
      BY <2>12, RowTypes DEF Tick
    <3>2. quiet' \in [Workers -> 0 .. Timeout]
      BY <2>12 DEF Tick, Quieter, OnTime
    <3> QED
      BY <2>12, <3>1, <3>2 DEF Tick
  <2>13. CASE UNCHANGED queueVars
    BY <2>13 DEF queueVars
  <2> QED
    BY <2>1, <2>2, <2>3, <2>4, <2>5, <2>6, <2>7, <2>9, <2>10, <2>11, <2>12, <2>13
       DEF QueueNext, CallerStep, WorkerStep
<1> QED
  BY <1>1, <1>2, PTL DEF QueueSpec
-----------------------------------------------------------------------------
(***************************************************************************)
(* What the operations do to a row, column by column.                      *)
(***************************************************************************)

\* A commit leaves the table it was given, or the table as it was.
LEMMA CommitOutcome ==
  ASSUME NEW table, Commit(table)
  PROVE  jobs' = jobs \/ (jobs' = table /\ UniqueActive(table))
BY DEF Commit

\* claim_next_job writes the row it takes and no other.
LEMMA ClaimedColumns ==
  ASSUME TypeOK, NEW j \in JobIds
  PROVE  /\ \A i \in JobIds \ {j} : Claimed(jobs, j)[i] = jobs[i]
         /\ Claimed(jobs, j)[j].exp = jobs[j].exp
         /\ Claimed(jobs, j)[j].status = "RUNNING"
         /\ Claimed(jobs, j)[j].attempts = jobs[j].attempts + 1
         /\ Claimed(jobs, j)[j].heartbeat = 0
BY DEF TypeOK, Claimed, Row

\* mark_job_completed finishes a RUNNING row and changes nothing else.
LEMMA CompletedColumns ==
  ASSUME TypeOK, NEW w \in Workers, MarkJobCompleted(w)
  PROVE  /\ claim[w].job \in JobIds
         /\ \A i \in JobIds \ {claim[w].job} : jobs'[i] = jobs[i]
         /\ \A i \in JobIds : /\ jobs'[i].exp = jobs[i].exp
                              /\ jobs'[i].attempts = jobs[i].attempts
                              /\ \/ jobs'[i] = jobs[i]
                                 \/ jobs[i].status = "RUNNING" /\ jobs'[i].status = "COMPLETED"
<1>1. claim[w].job \in JobIds
  BY DEF TypeOK, MarkJobCompleted, Holds
<1>2. CASE jobs[claim[w].job].status = "RUNNING"
  BY <1>1, <1>2 DEF TypeOK, MarkJobCompleted, Row
<1>3. CASE jobs[claim[w].job].status # "RUNNING"
  BY <1>1, <1>3 DEF TypeOK, MarkJobCompleted
<1> QED
  BY <1>1, <1>2, <1>3

\* fail_job writes the row of its claim and no other.
LEMMA FailedColumns ==
  ASSUME TypeOK, NEW w \in Workers, FailJobWrite(w)
  PROVE  /\ claim[w].job \in JobIds
         /\ \A i \in JobIds \ {claim[w].job} : jobs'[i] = jobs[i]
         /\ \A i \in JobIds : /\ jobs'[i].exp = jobs[i].exp
                              /\ jobs'[i].attempts = jobs[i].attempts
         /\ jobs'[claim[w].job] \in {jobs[claim[w].job],
                                     FailedRow(jobs[claim[w].job], failing[w])}
<1> DEFINE j == claim[w].job
<1>1. j \in JobIds
  BY DEF TypeOK, FailJobWrite, Holds
<1>2. /\ FailedRow(jobs[j], failing[w]).exp = jobs[j].exp
      /\ FailedRow(jobs[j], failing[w]).attempts = jobs[j].attempts
  BY <1>1 DEF TypeOK, FailedRow, Row
<1>3. /\ FailedTable(w)[j] = FailedRow(jobs[j], failing[w])
      /\ \A i \in JobIds \ {j} : FailedTable(w)[i] = jobs[i]
  BY <1>1 DEF TypeOK, FailedTable
<1>4. jobs' = jobs \/ jobs' = FailedTable(w)
  BY CommitOutcome DEF FailJobWrite
<1> HIDE DEF j
<1>5. QED
  BY <1>1, <1>2, <1>3, <1>4 DEF j

\* A heartbeat changes the column heartbeat_at of the rows it is for.
LEMMA BeatenColumns ==
  ASSUME TypeOK, NEW running, NEW j \in JobIds
  PROVE  /\ Beaten(jobs, running)[j].exp = jobs[j].exp
         /\ Beaten(jobs, running)[j].status = jobs[j].status
         /\ Beaten(jobs, running)[j].attempts = jobs[j].attempts
         /\ Beaten(jobs, running)[j].heartbeat = IF j \in running THEN 0
                                                 ELSE jobs[j].heartbeat
BY DEF TypeOK, Beaten, Row

\* A sweep makes the rows it has found PENDING.
LEMMA ReadmittedColumns ==
  ASSUME TypeOK, NEW found, NEW j \in JobIds
  PROVE  /\ Readmitted(jobs, found)[j].attempts = jobs[j].attempts
         /\ j \in found => Readmitted(jobs, found)[j].status = "PENDING"
         /\ j \notin found => Readmitted(jobs, found)[j] = jobs[j]
BY DEF TypeOK, Readmitted, Row

\* The clock moves the two columns that hold a time.
LEMMA AgedColumns ==
  ASSUME NEW row \in Row
  PROVE  /\ Aged(row).exp = row.exp
         /\ Aged(row).status = row.status
         /\ Aged(row).attempts = row.attempts
         /\ Aged(row).heartbeat \in {row.heartbeat, row.heartbeat + 1}
<1>1. CASE row.status = "RUNNING"
  BY <1>1 DEF Aged, Row
<1>2. CASE row.status = "PENDING"
  BY <1>2 DEF Aged, Row
<1>3. CASE row.status \notin {"RUNNING", "PENDING"}
  BY <1>3 DEF Aged, Row
<1> QED
  BY <1>1, <1>2, <1>3
-----------------------------------------------------------------------------
(***************************************************************************)
(* One active job per campaign.                                            *)
(***************************************************************************)

\* A write that activates no row and moves none to another campaign.
LEMMA ActiveStaysUnique ==
  ASSUME UniqueActive(jobs),
         \A j \in JobIds : jobs'[j].status \in ActiveStatus =>
           jobs[j].status \in ActiveStatus /\ jobs'[j].exp = jobs[j].exp
  PROVE  UniqueActive(jobs')
BY DEF UniqueActive

\* At most one PENDING or RUNNING job per campaign, whatever enqueues, retries
\* and sweeps race: what the index refuses is no row of any other operation.
THEOREM OneActiveJobHolds == QueueSpec => []OneActiveJob
<1>1. QueueInit => OneActiveJob
  BY DEF QueueInit, OneActiveJob, UniqueActive, NoRow, ActiveStatus
<1>2. TypeOK /\ OneActiveJob /\ [QueueNext]_queueVars => OneActiveJob'
  <2> SUFFICES ASSUME TypeOK, UniqueActive(jobs), [QueueNext]_queueVars
               PROVE  UniqueActive(jobs')
    BY DEF OneActiveJob
  <2>1. CASE UNCHANGED jobs
    BY <2>1
  <2>2. ASSUME NEW table, Commit(table)
        PROVE  UniqueActive(jobs')
    BY <2>2, CommitOutcome
  <2>3. ASSUME NEW w \in Workers, NEW j \in JobIds, Claim(w, j)
        PROVE  UniqueActive(jobs')
    <3>1. jobs[j].status = "PENDING"
      BY <2>3 DEF Claim, Oldest, Eligible
    <3>2. jobs' = Claimed(jobs, j)
      BY <2>3 DEF Claim
    <3> QED
      BY <3>1, <3>2, ClaimedColumns, ActiveStaysUnique DEF ActiveStatus
  <2>4. ASSUME NEW w \in Workers, MarkJobCompleted(w)
        PROVE  UniqueActive(jobs')
    BY <2>4, CompletedColumns, ActiveStaysUnique DEF ActiveStatus
  <2>5. ASSUME NEW w \in Workers, TouchJob(w) \/ BumpJobHeartbeat(w)
        PROVE  UniqueActive(jobs')
    <3>1. PICK running : jobs' = Beaten(jobs, running)
      BY <2>5 DEF TouchJob, BumpJobHeartbeat
    <3> QED
      BY <3>1, BeatenColumns, ActiveStaysUnique
  <2>6. CASE Tick
    <3>1. \A j \in JobIds : jobs[j] \in Row /\ jobs'[j] = Aged(jobs[j])
      BY <2>6 DEF Tick, TypeOK
    <3> QED
      BY <3>1, AgedColumns, ActiveStaysUnique
  <2> QED
    BY <2>1, <2>2, <2>3, <2>4, <2>5, <2>6
       DEF QueueNext, CallerStep, WorkerStep, queueVars, EnqueueSelect, EnqueueInsert,
           LeaveJob, FailJobSelect, FailJobWrite, RecoverSelect, RecoverWrite
<1> QED
  BY <1>1, <1>2, QueueTypeCorrect, PTL DEF QueueSpec
-----------------------------------------------------------------------------
(***************************************************************************)
(* An attempt of a job is handed out once.                                 *)
(***************************************************************************)

\* The attempts of a row are at least those of any claim on it: a new claim
\* then differs from all others.
ClaimsCounted ==
  \A w \in Workers : Holds(w) => claim[w].attempt <= jobs[claim[w].job].attempts

\* No step but a claim touches the attempts of a row.
LEMMA AttemptsStay ==
  ASSUME TypeOK, [QueueNext]_queueVars,
         ~ \E w \in Workers, j \in JobIds : Claim(w, j)
  PROVE  \A j \in JobIds : jobs'[j].attempts = jobs[j].attempts
<1>1. CASE UNCHANGED jobs
  BY <1>1
<1>2. ASSUME NEW c \in Callers, NEW j \in JobIds, EnqueueInsert(c, j)
      PROVE  \A i \in JobIds : jobs'[i].attempts = jobs[i].attempts
  <2>1. jobs' = jobs \/ jobs' = [jobs EXCEPT ![j] = NewRow(enqueuing[c])]
    BY <1>2, CommitOutcome DEF EnqueueInsert
  <2>2. jobs[j] = NoRow
    BY <1>2 DEF EnqueueInsert
  <2> QED
    BY <2>1, <2>2 DEF NewRow, NoRow, TypeOK
<1>3. ASSUME NEW w \in Workers, MarkJobCompleted(w)
      PROVE  \A i \in JobIds : jobs'[i].attempts = jobs[i].attempts
  BY <1>3, CompletedColumns
<1>4. ASSUME NEW w \in Workers, FailJobWrite(w)
      PROVE  \A i \in JobIds : jobs'[i].attempts = jobs[i].attempts
  BY <1>4, FailedColumns
<1>5. ASSUME NEW w \in Workers, TouchJob(w) \/ BumpJobHeartbeat(w)
      PROVE  \A i \in JobIds : jobs'[i].attempts = jobs[i].attempts
  <2>1. PICK running : jobs' = Beaten(jobs, running)
    BY <1>5 DEF TouchJob, BumpJobHeartbeat
  <2> QED
    BY <2>1, BeatenColumns
<1>6. ASSUME NEW w \in Workers, RecoverWrite(w)
      PROVE  \A i \in JobIds : jobs'[i].attempts = jobs[i].attempts
  <2>1. jobs' = jobs \/ jobs' = Readmitted(jobs, sweeping[w])
    BY <1>6, CommitOutcome DEF RecoverWrite
  <2> QED
    BY <2>1, ReadmittedColumns
<1>7. CASE Tick
  <2>1. \A j \in JobIds : jobs[j] \in Row /\ jobs'[j] = Aged(jobs[j])
    BY <1>7 DEF Tick, TypeOK
  <2> QED
    BY <2>1, AgedColumns
<1> QED
  BY <1>1, <1>2, <1>3, <1>4, <1>5, <1>6, <1>7
     DEF QueueNext, CallerStep, WorkerStep, queueVars, EnqueueSelect,
         LeaveJob, FailJobSelect, RecoverSelect

\* No step but a claim gives a worker a job.
LEMMA ClaimsStay ==
  ASSUME TypeOK, [QueueNext]_queueVars, NEW w \in Workers,
         ~ \E j \in JobIds : Claim(w, j)
  PROVE  claim'[w] = claim[w] \/ claim'[w] = NoClaim
<1> USE DEF TypeOK
<1>1. CASE UNCHANGED queueVars
  BY <1>1 DEF queueVars
<1>2. ASSUME NEW c \in Callers, CallerStep(c)
      PROVE  claim'[w] = claim[w] \/ claim'[w] = NoClaim
  BY <1>2 DEF CallerStep, EnqueueSelect, EnqueueInsert, LeaveJob
<1>3. ASSUME NEW v \in Workers, WorkerStep(v)
      PROVE  claim'[w] = claim[w] \/ claim'[w] = NoClaim
  BY <1>3 DEF WorkerStep, Claim, MarkJobCompleted, FailJobSelect, FailJobWrite, TouchJob,
              BumpJobHeartbeat, RecoverSelect, RecoverWrite
<1>4. CASE Tick
  BY <1>4 DEF Tick
<1> QED
  BY <1>1, <1>2, <1>3, <1>4 DEF QueueNext

\* The two together are inductive.
LEMMA ClaimsInvariant == QueueSpec => [](ClaimsCounted /\ ClaimsDistinct)
<1> DEFINE Inv == ClaimsCounted /\ ClaimsDistinct
<1>1. QueueInit => Inv
  BY DEF QueueInit, ClaimsCounted, ClaimsDistinct, Holds, NoClaim
<1>2. TypeOK /\ TypeOK' /\ Inv /\ [QueueNext]_queueVars => Inv'
  <2> SUFFICES ASSUME TypeOK, TypeOK', Inv, [QueueNext]_queueVars
               PROVE  Inv'
    OBVIOUS
  <2>1. ASSUME NEW w \in Workers, NEW j \in JobIds, Claim(w, j)
        PROVE  Inv'
    <3>1. /\ claim' = [claim EXCEPT ![w] = [job |-> j, attempt |-> jobs[j].attempts + 1]]
          /\ jobs' = Claimed(jobs, j)
      BY <2>1, ClaimedColumns DEF Claim
    <3>2. /\ \A i \in JobIds \ {j} : jobs'[i].attempts = jobs[i].attempts
          /\ jobs'[j].attempts = jobs[j].attempts + 1
          /\ jobs[j].attempts \in Nat
      BY <3>1, ClaimedColumns DEF TypeOK, Row
    <3>3. /\ claim'[w].job = j
          /\ claim'[w].attempt = jobs[j].attempts + 1
          /\ \A v \in Workers \ {w} : claim'[v] = claim[v]
      BY <3>1 DEF TypeOK
    <3>4. \A v \in Workers \ {w} :
            Holds(v) /\ claim[v].job = j => claim[v].attempt <= jobs[j].attempts
      BY DEF ClaimsCounted
    <3>5. \A v \in Workers : claim[v].attempt \in Nat /\ claim[v].job \in JobIds \cup {NoJob}
      BY DEF TypeOK
    <3>6. ClaimsCounted'
      <4> SUFFICES ASSUME NEW v \in Workers, claim'[v].job # NoJob
                   PROVE  claim'[v].attempt <= jobs'[claim'[v].job].attempts
        BY DEF ClaimsCounted, Holds
      <4>1. CASE v = w
        BY <3>2, <3>3, <4>1
      <4>2. CASE v # w
        <5>1. claim'[v] = claim[v] /\ claim[v].attempt <= jobs[claim[v].job].attempts
          BY <3>3, <4>2 DEF ClaimsCounted, Holds
        <5>2. claim[v].job \in JobIds
          BY <3>5, <5>1
        <5> QED
          BY <3>2, <3>5, <5>1, <5>2
      <4> QED
        BY <4>1, <4>2
    <3>7. ClaimsDistinct'
      BY <3>2, <3>3, <3>4, <3>5 DEF ClaimsDistinct, Holds
    <3> QED
      BY <3>6, <3>7
  <2>2. CASE ~ \E w \in Workers, j \in JobIds : Claim(w, j)
    <3>1. \A w \in Workers : claim'[w] = claim[w] \/ claim'[w] = NoClaim
      BY <2>2, ClaimsStay
    <3>2. \A j \in JobIds : jobs'[j].attempts = jobs[j].attempts
      BY <2>2, AttemptsStay
    <3>3. ClaimsCounted'
      BY <3>1, <3>2 DEF ClaimsCounted, Holds, NoClaim, TypeOK
    <3>4. ClaimsDistinct'
      BY <3>1 DEF ClaimsDistinct, Holds, NoClaim
    <3> QED
      BY <3>3, <3>4
  <2> QED
    BY <2>1, <2>2
<1> QED
  BY <1>1, <1>2, QueueTypeCorrect, PTL DEF QueueSpec

\* Two workers never hold the same attempt of a job, even when a sweep has
\* given the job of a live worker to another one.
THEOREM ClaimsDistinctHolds == QueueSpec => []ClaimsDistinct
BY ClaimsInvariant, PTL
-----------------------------------------------------------------------------
(***************************************************************************)
(* What a late worker may still undo.                                      *)
(***************************************************************************)

\* The first claim of a row is its first attempt, and as long as there was no
\* second one, nobody but that worker has ended the job.
FirstClaims ==
  \A w \in Workers : Holds(w) =>
    /\ claim[w].attempt >= 1
    /\ jobs[claim[w].job].attempts <= 1 =>
         jobs[claim[w].job].status \notin TerminalStatus

\* Of a row that was claimed once, there is one claim.
LEMMA OneFirstClaim ==
  ASSUME TypeOK, ClaimsCounted, ClaimsDistinct, FirstClaims,
         NEW v \in Workers, NEW w \in Workers, Holds(v), claim[v].job = claim[w].job,
         jobs[claim[v].job].attempts <= 1
  PROVE  v = w
<1>1. Holds(w)
  BY DEF Holds
<1>2. /\ claim[v].attempt \in Nat /\ claim[w].attempt \in Nat
      /\ jobs[claim[v].job].attempts \in Nat
  BY DEF TypeOK, Holds, Row
<1>3. claim[v].attempt = 1 /\ claim[w].attempt = 1
  BY <1>1, <1>2 DEF ClaimsCounted, FirstClaims
<1>4. claim[v] = claim[w]
  BY <1>3 DEF TypeOK
<1> QED
  BY <1>4 DEF ClaimsDistinct

\* What a step that is no claim writes into a row.
LEMMA FinishedRow ==
  ASSUME TypeOK, [QueueNext]_queueVars, NEW j \in JobIds,
         jobs'[j].status # jobs[j].status,
         ~ \E w \in Workers, i \in JobIds : Claim(w, i)
  PROVE  \/ jobs'[j].status = "PENDING" /\ jobs[j].status = "ABSENT"
         \/ \E w \in Workers :
              \/ /\ MarkJobCompleted(w) /\ claim[w].job = j
                 /\ jobs[j].status = "RUNNING"
              \/ FailJobWrite(w) /\ claim[w].job = j
              \/ RecoverWrite(w) /\ j \in sweeping[w] /\ jobs'[j].status = "PENDING"
<1>1. ~ UNCHANGED jobs
  OBVIOUS
<1>2. ASSUME NEW c \in Callers, NEW i \in JobIds, EnqueueInsert(c, i)
      PROVE  jobs'[j].status = "PENDING" /\ jobs[j].status = "ABSENT"
  <2>1. jobs' = [jobs EXCEPT ![i] = NewRow(enqueuing[c])] /\ jobs[i] = NoRow
    BY <1>1, <1>2, CommitOutcome DEF EnqueueInsert
  <2>2. i = j
    BY <2>1 DEF TypeOK
  <2> QED
    BY <2>1, <2>2 DEF NewRow, NoRow, TypeOK
<1>3. ASSUME NEW w \in Workers, MarkJobCompleted(w)
      PROVE  claim[w].job = j /\ jobs[j].status = "RUNNING"
  BY <1>3, CompletedColumns
<1>4. ASSUME NEW w \in Workers, FailJobWrite(w)
      PROVE  claim[w].job = j
  BY <1>4, FailedColumns
<1>5. ASSUME NEW w \in Workers, TouchJob(w) \/ BumpJobHeartbeat(w)
      PROVE  FALSE
  <2>1. PICK running : jobs' = Beaten(jobs, running)
    BY <1>5 DEF TouchJob, BumpJobHeartbeat
  <2> QED
    BY <2>1, BeatenColumns
<1>6. ASSUME NEW w \in Workers, RecoverWrite(w)
      PROVE  j \in sweeping[w] /\ jobs'[j].status = "PENDING"
  <2>1. jobs' = Readmitted(jobs, sweeping[w])
    BY <1>1, <1>6, CommitOutcome DEF RecoverWrite
  <2> QED
    BY <2>1, ReadmittedColumns
<1>7. CASE Tick
  <2>1. jobs[j] \in Row /\ jobs'[j] = Aged(jobs[j])
    BY <1>7 DEF Tick, TypeOK
  <2> QED
    BY <2>1, AgedColumns
<1> QED
  BY <1>1, <1>2, <1>3, <1>4, <1>5, <1>6, <1>7
     DEF QueueNext, CallerStep, WorkerStep, queueVars, EnqueueSelect,
         LeaveJob, FailJobSelect, RecoverSelect

\* No step ends the job of a worker that has the only claim of it.
LEMMA FirstClaimsInvariant == QueueSpec => []FirstClaims
<1>1. QueueInit => FirstClaims
  BY DEF QueueInit, FirstClaims, Holds, NoClaim
<1>2. TypeOK /\ ClaimsCounted /\ ClaimsDistinct /\ FirstClaims /\ [QueueNext]_queueVars
        => FirstClaims'
  <2> SUFFICES ASSUME TypeOK, ClaimsCounted, ClaimsDistinct, FirstClaims,
                      [QueueNext]_queueVars,
                      NEW v \in Workers, claim'[v].job # NoJob
               PROVE  /\ claim'[v].attempt >= 1
                      /\ jobs'[claim'[v].job].attempts <= 1 =>
                           jobs'[claim'[v].job].status \notin TerminalStatus
    BY DEF FirstClaims, Holds
  <2>1. ASSUME NEW w \in Workers, NEW j \in JobIds, Claim(w, j)
        PROVE  /\ claim'[v].attempt >= 1
               /\ jobs'[claim'[v].job].attempts <= 1 =>
                    jobs'[claim'[v].job].status \notin TerminalStatus
    <3>1. /\ claim' = [claim EXCEPT ![w] = [job |-> j, attempt |-> jobs[j].attempts + 1]]
          /\ jobs' = Claimed(jobs, j) /\ jobs[j].attempts \in Nat
      BY <2>1, ClaimedColumns DEF Claim, TypeOK, Row
    <3>2. /\ jobs'[j].status = "RUNNING"
          /\ \A i \in JobIds \ {j} : jobs'[i] = jobs[i]
      BY <3>1, ClaimedColumns
    <3>3. CASE v = w
      <4>1. claim'[v].job = j /\ claim'[v].attempt = jobs[j].attempts + 1
        BY <3>1, <3>3 DEF TypeOK
      <4> QED
        BY <3>1, <3>2, <4>1 DEF TerminalStatus
    <3>4. CASE v # w
      <4>1. claim'[v] = claim[v] /\ claim[v].job \in JobIds /\ Holds(v)
        BY <3>1, <3>4 DEF TypeOK, Holds
      <4> QED
        BY <3>2, <4>1 DEF FirstClaims, TerminalStatus
    <3> QED
      BY <3>3, <3>4
  <2>2. CASE ~ \E w \in Workers, j \in JobIds : Claim(w, j)
    <3> DEFINE j == claim[v].job
    <3>1. claim'[v] = claim[v] /\ Holds(v) /\ j \in JobIds
      BY <2>2, ClaimsStay DEF NoClaim, Holds, TypeOK
    <3>2. jobs'[j].attempts = jobs[j].attempts
      BY <2>2, <3>1, AttemptsStay
    <3>3. ASSUME jobs[j].attempts <= 1 PROVE jobs'[j].status \notin TerminalStatus
      <4>1. jobs[j].status \notin TerminalStatus
        BY <3>1, <3>3 DEF FirstClaims
      <4>2. ASSUME NEW w \in Workers, MarkJobCompleted(w) \/ FailJobWrite(w),
                   claim[w].job = j
            PROVE  FALSE
        <5>1. v = w
          BY <3>1, <3>3, <4>2, OneFirstClaim
        <5>2. claim'[w] = NoClaim
          BY <4>2 DEF MarkJobCompleted, FailJobWrite, TypeOK
        <5> QED
          BY <5>1, <5>2 DEF NoClaim
      <4>3. CASE jobs'[j].status = jobs[j].status
        BY <4>1, <4>3
      <4>4. CASE jobs'[j].status # jobs[j].status
        BY <2>2, <3>1, <4>2, <4>4, FinishedRow DEF TerminalStatus
      <4> QED
        BY <4>3, <4>4
    <3> QED
      BY <3>1, <3>2, <3>3 DEF FirstClaims
  <2> QED
    BY <2>1, <2>2
<1> QED
  BY <1>1, <1>2, QueueTypeCorrect, ClaimsInvariant, PTL DEF QueueSpec

\* Without any assumption on time, the end of a job is undone only by a recovery
\* that had read the row before, or by fail_job of a worker whose job was claimed
\* a second time.
THEOREM RevivalsExplainedHolds == QueueSpec => RevivalsExplained
<1> DEFINE Undone(j) == jobs[j].status \in TerminalStatus /\ jobs'[j].status # jobs[j].status
           Late(w, j) == \/ j \in sweeping[w] /\ sweeping'[w] = {}
                         \/ claim[w].job = j /\ failing[w] # NotRead /\ failing'[w] = NotRead
                              /\ jobs[j].attempts > 1
           Explained == \A j \in JobIds : Undone(j) => \E w \in Workers : Late(w, j)
<1>1. TypeOK /\ FirstClaims /\ [QueueNext]_queueVars => [Explained]_queueVars
  <2> SUFFICES ASSUME TypeOK, FirstClaims, QueueNext, NEW j \in JobIds, Undone(j)
               PROVE  \E w \in Workers : Late(w, j)
    OBVIOUS
  <2>1. ~ \E w \in Workers, i \in JobIds : Claim(w, i)
    <3> SUFFICES ASSUME NEW w \in Workers, NEW i \in JobIds, Claim(w, i) PROVE FALSE
      OBVIOUS
    <3> QED
      BY ClaimedColumns DEF Claim, Oldest, Eligible, TerminalStatus
  <2>2. PICK w \in Workers : \/ FailJobWrite(w) /\ claim[w].job = j
                             \/ RecoverWrite(w) /\ j \in sweeping[w]
    BY <2>1, FinishedRow DEF TerminalStatus
  <2>3. CASE RecoverWrite(w) /\ j \in sweeping[w]
    <3>1. sweeping'[w] = {}
      BY <2>3 DEF RecoverWrite, TypeOK
    <3> QED
      BY <2>3, <3>1
  <2>4. CASE FailJobWrite(w) /\ claim[w].job = j
    <3>1. failing[w] # NotRead /\ failing'[w] = NotRead /\ Holds(w)
      BY <2>4 DEF FailJobWrite, TypeOK
    <3>2. jobs[j].attempts \in Nat /\ ~(jobs[j].attempts <= 1)
      BY <2>4, <3>1 DEF FirstClaims, TypeOK, Row
    <3> QED
      BY <2>4, <3>1, <3>2
  <2> QED
    BY <2>2, <2>3, <2>4
<1> QED
  BY <1>1, QueueTypeCorrect, FirstClaimsInvariant, PTL DEF QueueSpec, RevivalsExplained
-----------------------------------------------------------------------------
(***************************************************************************)
(* Workers that are on time, and transactions nobody gets between.         *)
(***************************************************************************)

\* The row of a job that is executed: RUNNING, under the claimed attempt, and
\* its heartbeat no older than the silence of the worker, so never stale.
HeldRow(w) ==
  Holds(w) =>
    /\ jobs[claim[w].job].status = "RUNNING"
    /\ jobs[claim[w].job].attempts = claim[w].attempt
    /\ jobs[claim[w].job].heartbeat <= quiet[w]

\* What fail_job has read is still what the row says.
FailingRow(w) ==
  failing[w] # NotRead =>
    Holds(w) /\ failing[w] = [status |-> "RUNNING", attempts |-> claim[w].attempt]

\* What a sweep has found is still stale, and the sweeper has no job.
SweptRows(w) ==
  sweeping[w] # {} => ~Holds(w) /\ sweeping[w] \subseteq StaleJobs

OneTransaction ==
  \A v, w \in Workers : InTransaction(v) /\ InTransaction(w) => v = w

TimelyInv ==
  /\ \A w \in Workers : HeldRow(w) /\ FailingRow(w) /\ SweptRows(w)
  /\ ExclusiveJob
  /\ OneTransaction

\* No job that is executed is stale, and none that is stale is executed.
LEMMA HeldIsFresh ==
  ASSUME TypeOK, TimelyInv, NEW w \in Workers, Holds(w)
  PROVE  claim[w].job \in JobIds \ StaleJobs
<1>1. claim[w].job \in JobIds
  BY DEF TypeOK, Holds
<1>2. quiet[w] \in 0 .. Timeout /\ jobs[claim[w].job].heartbeat \in 0 .. Timeout + 1
  BY <1>1 DEF TypeOK, Row
<1> QED
  BY <1>1, <1>2 DEF TimelyInv, HeldRow, StaleJobs

\* Nobody acts while another worker is between its Select and its Write.
LEMMA NobodyElse ==
  ASSUME ShortTransactions, NEW c \in Callers, Undisturbed(c),
         NEW w \in Workers, w # c
  PROVE  failing[w] = NotRead /\ sweeping[w] = {}
BY DEF Undisturbed, InTransaction

\* A step that leaves a worker and its row alone keeps what holds of them.
LEMMA HeldRowStays ==
  ASSUME NEW w \in Workers, HeldRow(w),
         claim'[w] = claim[w],
         Holds(w) => /\ jobs'[claim[w].job].status = jobs[claim[w].job].status
                     /\ jobs'[claim[w].job].attempts = jobs[claim[w].job].attempts
                     /\ jobs'[claim[w].job].heartbeat <= quiet'[w]
  PROVE  HeldRow(w)'
BY DEF HeldRow, Holds

\* The transactions, after a step during which nobody was in one.
LEMMA NoTransaction ==
  ASSUME \A w \in Workers : failing'[w] = NotRead /\ sweeping'[w] = {}
  PROVE  OneTransaction' /\ \A w \in Workers : FailingRow(w)' /\ SweptRows(w)'
BY DEF OneTransaction, InTransaction, FailingRow, SweptRows

\* A worker that is not in a transaction acts while nobody is.
LEMMA AllIdle ==
  ASSUME ShortTransactions, NEW w \in Workers, Undisturbed(w), ~InTransaction(w)
  PROVE  \A v \in Workers : failing[v] = NotRead /\ sweeping[v] = {}
BY NobodyElse DEF InTransaction

\* Claim.
LEMMA TimelyClaim ==
  ASSUME ShortTransactions, TypeOK, TypeOK', TimelyInv,
         NEW w \in Workers, Undisturbed(w), NEW j \in JobIds, Claim(w, j)
  PROVE  TimelyInv'
<1>1. /\ claim' = [claim EXCEPT ![w] = [job |-> j, attempt |-> jobs[j].attempts + 1]]
      /\ jobs' = Claimed(jobs, j)
      /\ quiet' = [quiet EXCEPT ![w] = 0]
      /\ UNCHANGED <<failing, sweeping>>
  BY ClaimedColumns DEF Claim, Heard
<1>2. \A v \in Workers : Holds(v) => claim[v].job \in JobIds \ {j}
  BY HeldIsFresh DEF TimelyInv, HeldRow, Claim, Oldest, Eligible
<1>3. \A v \in Workers : HeldRow(v)'
  <2>1. HeldRow(w)'
    BY <1>1, ClaimedColumns DEF HeldRow, TypeOK
  <2>2. ASSUME NEW v \in Workers \ {w} PROVE HeldRow(v)'
    <3>1. claim'[v] = claim[v] /\ quiet'[v] = quiet[v]
      BY <1>1 DEF TypeOK
    <3>2. Holds(v) => jobs'[claim[v].job] = jobs[claim[v].job]
      BY <1>1, <1>2, ClaimedColumns
    <3> QED
      BY <3>1, <3>2, HeldRowStays DEF TimelyInv, HeldRow
  <2> QED
    BY <2>1, <2>2
<1>4. ExclusiveJob'
  BY <1>1, <1>2 DEF TimelyInv, ExclusiveJob, Holds, TypeOK
<1>5. \A v \in Workers : failing'[v] = NotRead /\ sweeping'[v] = {}
  BY <1>1, AllIdle DEF Claim
<1> QED
  BY <1>3, <1>4, <1>5, NoTransaction DEF TimelyInv

\* A worker is done with its job, or dies: the rows of the others stay.
LEMMA TimelyRelease ==
  ASSUME TypeOK, TypeOK', TimelyInv, NEW w \in Workers,
         claim' = [claim EXCEPT ![w] = NoClaim],
         \A v \in Workers \ {w} : quiet'[v] = quiet[v],
         \A v \in Workers \ {w} : Holds(v) => jobs'[claim[v].job] = jobs[claim[v].job],
         \A v \in Workers : failing'[v] = NotRead /\ sweeping'[v] = {}
  PROVE  TimelyInv'
<1>1. \A v \in Workers : HeldRow(v)'
  <2>1. HeldRow(w)'
    BY DEF HeldRow, Holds, NoClaim, TypeOK
  <2>2. ASSUME NEW v \in Workers \ {w} PROVE HeldRow(v)'
    BY HeldRowStays DEF TimelyInv, HeldRow, TypeOK
  <2> QED
    BY <2>1, <2>2
<1>2. ExclusiveJob'
  BY DEF TimelyInv, ExclusiveJob, Holds, NoClaim, TypeOK
<1> QED
  BY <1>1, <1>2, NoTransaction DEF TimelyInv

\* MarkJobCompleted and FailJobWrite.
LEMMA TimelySettle ==
  ASSUME ShortTransactions, TypeOK, TypeOK', TimelyInv,
         NEW w \in Workers, Undisturbed(w), MarkJobCompleted(w) \/ FailJobWrite(w)
  PROVE  TimelyInv'
<1>1. Holds(w) /\ claim' = [claim EXCEPT ![w] = NoClaim]
  BY DEF MarkJobCompleted, FailJobWrite
<1>2. \A v \in Workers \ {w} : quiet'[v] = quiet[v]
  BY DEF MarkJobCompleted, FailJobWrite, Heard, TypeOK
<1>3. \A v \in Workers \ {w} : Holds(v) => jobs'[claim[v].job] = jobs[claim[v].job]
  <2>1. \A i \in JobIds \ {claim[w].job} : jobs'[i] = jobs[i]
    BY CompletedColumns, FailedColumns
  <2> QED
    BY <1>1, <2>1, HeldIsFresh DEF TimelyInv, ExclusiveJob
<1>4. \A v \in Workers : failing'[v] = NotRead /\ sweeping'[v] = {}
  <2>1. CASE MarkJobCompleted(w)
    BY <2>1, AllIdle DEF MarkJobCompleted
  <2>2. CASE FailJobWrite(w)
    <3>1. sweeping[w] = {}
      BY <1>1 DEF TimelyInv, SweptRows
    <3> QED
      BY <2>2, <3>1, NobodyElse, QueueConstants DEF FailJobWrite, TypeOK
  <2> QED
    BY <2>1, <2>2
<1> QED
  BY <1>1, <1>2, <1>3, <1>4, TimelyRelease

\* TouchJob and BumpJobHeartbeat: the row of the worker is among the beaten.
LEMMA TimelyBeat ==
  ASSUME ShortTransactions, TypeOK, TypeOK', TimelyInv,
         NEW w \in Workers, Undisturbed(w), TouchJob(w) \/ BumpJobHeartbeat(w)
  PROVE  TimelyInv'
<1>1. /\ Holds(w) /\ UNCHANGED <<claim, failing, sweeping>>
      /\ quiet' = [quiet EXCEPT ![w] = 0]
  BY DEF TouchJob, BumpJobHeartbeat, Heard
<1>2. jobs[claim[w].job].status = "RUNNING" /\ claim[w].job \in JobIds
  BY <1>1, HeldIsFresh DEF TimelyInv, HeldRow
<1>3. PICK running : jobs' = Beaten(jobs, running) /\ claim[w].job \in running
  BY <1>2 DEF TouchJob, BumpJobHeartbeat
<1>4. \A v \in Workers : HeldRow(v)'
  <2> SUFFICES ASSUME NEW v \in Workers, Holds(v) PROVE HeldRow(v)'
    BY <1>1 DEF HeldRow, Holds
  <2>1. claim[v].job \in JobIds
    BY HeldIsFresh
  <2>2. /\ jobs'[claim[v].job].status = jobs[claim[v].job].status
        /\ jobs'[claim[v].job].attempts = jobs[claim[v].job].attempts
        /\ jobs'[claim[v].job].heartbeat = IF claim[v].job \in running THEN 0
                                           ELSE jobs[claim[v].job].heartbeat
    BY <1>3, <2>1, BeatenColumns
  <2>3. jobs'[claim[v].job].heartbeat <= quiet'[v]
    <3>1. quiet'[v] \in 0 .. Timeout /\ jobs[claim[v].job].heartbeat <= quiet[v]
      BY DEF TypeOK, TimelyInv, HeldRow
    <3>2. CASE claim[v].job \in running
      BY <2>2, <3>1, <3>2, QueueConstants
    <3>3. CASE claim[v].job \notin running
      <4>1. v # w
        BY <1>3, <3>3
      <4> QED
        BY <1>1, <2>2, <3>1, <3>3, <4>1 DEF TypeOK
    <3> QED
      BY <3>2, <3>3
  <2> QED
    BY <1>1, <2>2, <2>3, HeldRowStays DEF TimelyInv
<1>5. ExclusiveJob'
  BY <1>1 DEF TimelyInv, ExclusiveJob, Holds
<1>6. \A v \in Workers : failing'[v] = NotRead /\ sweeping'[v] = {}
  BY <1>1, AllIdle DEF TouchJob, BumpJobHeartbeat
<1> QED
  BY <1>4, <1>5, <1>6, NoTransaction DEF TimelyInv

\* FailJobSelect and RecoverSelect open a transaction, alone.
LEMMA TimelySelect ==
  ASSUME ShortTransactions, TypeOK, TypeOK', TimelyInv,
         NEW w \in Workers, Undisturbed(w), FailJobSelect(w) \/ RecoverSelect(w)
  PROVE  TimelyInv'
<1>1. UNCHANGED <<jobs, claim, quiet>>
  BY DEF FailJobSelect, RecoverSelect
<1>2. \A v \in Workers : failing[v] = NotRead /\ sweeping[v] = {}
  BY AllIdle DEF FailJobSelect, RecoverSelect
<1>3. \A v \in Workers \ {w} : failing'[v] = NotRead /\ sweeping'[v] = {}
  BY <1>2 DEF FailJobSelect, RecoverSelect, TypeOK
<1>4. FailingRow(w)' /\ SweptRows(w)'
  <2>1. CASE FailJobSelect(w)
    BY <1>1, <1>2, <2>1 DEF FailJobSelect, FailingRow, SweptRows, TimelyInv, HeldRow,
                            Holds, TypeOK
  <2>2. CASE RecoverSelect(w)
    BY <1>1, <1>2, <2>2 DEF RecoverSelect, FailingRow, SweptRows, Holds, StaleJobs, TypeOK
  <2> QED
    BY <2>1, <2>2
<1>5. \A v \in Workers : HeldRow(v)'
  BY <1>1 DEF TimelyInv, HeldRow, Holds
<1>6. ExclusiveJob'
  BY <1>1 DEF TimelyInv, ExclusiveJob, Holds
<1>7. OneTransaction'
  BY <1>3 DEF OneTransaction, InTransaction
<1>8. \A v \in Workers : FailingRow(v)' /\ SweptRows(v)'
  BY <1>3, <1>4 DEF FailingRow, SweptRows
<1> QED
  BY <1>5, <1>6, <1>7, <1>8 DEF TimelyInv

\* RecoverWrite: no row it writes is the row of a job that is executed.
LEMMA TimelySweep ==
  ASSUME ShortTransactions, TypeOK, TypeOK', TimelyInv,
         NEW w \in Workers, Undisturbed(w), RecoverWrite(w)
  PROVE  TimelyInv'
<1>1. UNCHANGED <<claim, failing, quiet>> /\ sweeping' = [sweeping EXCEPT ![w] = {}]
  BY DEF RecoverWrite
<1>2. sweeping[w] \subseteq StaleJobs /\ ~Holds(w)
  BY DEF RecoverWrite, TimelyInv, SweptRows
<1>3. \A j \in JobIds \ StaleJobs : jobs'[j] = jobs[j]
  BY <1>2, CommitOutcome, ReadmittedColumns DEF RecoverWrite
<1>4. \A v \in Workers : HeldRow(v)'
  BY <1>1, <1>3, HeldIsFresh, HeldRowStays DEF TimelyInv, HeldRow
<1>5. ExclusiveJob'
  BY <1>1 DEF TimelyInv, ExclusiveJob, Holds
<1>6. \A v \in Workers : failing'[v] = NotRead /\ sweeping'[v] = {}
  <2>1. failing[w] = NotRead
    BY <1>2 DEF TimelyInv, FailingRow
  <2> QED
    BY <1>1, <2>1, NobodyElse, QueueConstants DEF TypeOK
<1> QED
  BY <1>4, <1>5, <1>6, NoTransaction DEF TimelyInv

\* EnqueueSelect and EnqueueInsert: a new row is nobody's job yet.
LEMMA TimelyEnqueue ==
  ASSUME TypeOK, TypeOK', TimelyInv, NEW c \in Callers,
         \/ \E e \in Experiments : EnqueueSelect(c, e)
         \/ \E j \in JobIds : EnqueueInsert(c, j)
  PROVE  TimelyInv'
<1>1. UNCHANGED <<claim, failing, sweeping, quiet>>
  BY DEF EnqueueSelect, EnqueueInsert
<1>2. \A j \in JobIds : jobs[j].status = "RUNNING" => jobs'[j] = jobs[j]
  <2>1. ASSUME NEW e \in Experiments, EnqueueSelect(c, e)
        PROVE  jobs' = jobs
    BY <2>1 DEF EnqueueSelect
  <2>2. ASSUME NEW j \in JobIds, EnqueueInsert(c, j)
        PROVE  \A i \in JobIds : jobs[i].status = "RUNNING" => jobs'[i] = jobs[i]
    <3>1. jobs' = jobs \/ jobs' = [jobs EXCEPT ![j] = NewRow(enqueuing[c])]
      BY <2>2, CommitOutcome DEF EnqueueInsert
    <3> QED
      BY <2>2, <3>1 DEF EnqueueInsert, NoRow, TypeOK
  <2> QED
    BY <2>1, <2>2
<1>3. \A v \in Workers : HeldRow(v)'
  BY <1>1, <1>2, HeldIsFresh, HeldRowStays DEF TimelyInv, HeldRow
<1>4. \A v \in Workers : FailingRow(v)' /\ SweptRows(v)'
  BY <1>1, <1>2 DEF TimelyInv, FailingRow, SweptRows, Holds, StaleJobs
<1>5. ExclusiveJob' /\ OneTransaction'
  BY <1>1 DEF TimelyInv, ExclusiveJob, OneTransaction, Holds, InTransaction
<1> QED
  BY <1>3, <1>4, <1>5 DEF TimelyInv

\* LeaveJob: what a caller leaves behind is not held by another one.
LEMMA TimelyLeave ==
  ASSUME ShortTransactions, TypeOK, TypeOK', TimelyInv,
         NEW c \in Callers, Undisturbed(c), LeaveJob(c)
  PROVE  TimelyInv'
<1>1. \A w \in Workers : failing'[w] = NotRead /\ sweeping'[w] = {}
  BY NobodyElse DEF LeaveJob
<1>2. \A w \in Workers : HeldRow(w)'
  BY DEF TimelyInv, HeldRow, Holds, LeaveJob, NoClaim
<1>3. ExclusiveJob'
  BY DEF TimelyInv, ExclusiveJob, Holds, LeaveJob, NoClaim
<1> QED
  BY <1>1, <1>2, <1>3, NoTransaction DEF TimelyInv

\* Tick: the heartbeat of a held row and the silence of its worker grow alike.
LEMMA TimelyTick ==
  ASSUME TimelyWorkers, TypeOK, TypeOK', TimelyInv, Tick,
         \A w \in Workers : ~InTransaction(w)
  PROVE  TimelyInv'
<1>1. UNCHANGED <<claim, failing, sweeping>>
  BY DEF Tick
<1>2. \A w \in Workers : HeldRow(w)'
  <2> SUFFICES ASSUME NEW w \in Workers, Holds(w) PROVE HeldRow(w)'
    BY <1>1 DEF HeldRow, Holds
  <2>1. claim[w].job \in JobIds
    BY HeldIsFresh
  <2>2. jobs[claim[w].job] \in Row /\ jobs'[claim[w].job] = Aged(jobs[claim[w].job])
    BY <2>1 DEF Tick, TypeOK
  <2>3. quiet'[w] = quiet[w] + 1 /\ quiet[w] \in 0 .. Timeout
    BY DEF Tick, Quieter, TypeOK
  <2>4. jobs[claim[w].job].heartbeat <= quiet[w] /\ jobs[claim[w].job].heartbeat \in Int
    BY <2>2, QueueConstants DEF TimelyInv, HeldRow, Row
  <2>5. jobs'[claim[w].job].heartbeat <= quiet'[w]
    BY <2>2, <2>3, <2>4, AgedColumns
  <2> QED
    BY <1>1, <2>2, <2>5, AgedColumns, HeldRowStays DEF TimelyInv
<1>3. ExclusiveJob'
  BY <1>1 DEF TimelyInv, ExclusiveJob, Holds
<1> QED
  BY <1>1, <1>2, <1>3, NoTransaction DEF TimelyInv, InTransaction

\* The inductive invariant of a queue whose workers are on time.
LEMMA TimelyInvariant ==
  ASSUME TimelyWorkers, ShortTransactions
  PROVE  QueueSpec => []TimelyInv
<1>1. QueueInit => TimelyInv
  <2> SUFFICES ASSUME QueueInit PROVE TimelyInv
    OBVIOUS
  <2>1. \A w \in Workers : ~Holds(w) /\ failing[w] = NotRead /\ sweeping[w] = {}
    BY DEF QueueInit, Holds, NoClaim
  <2> QED
    BY <2>1 DEF TimelyInv, HeldRow, FailingRow, SweptRows, ExclusiveJob, OneTransaction,
                InTransaction
<1>2. TypeOK /\ TypeOK' /\ TimelyInv /\ [QueueNext]_queueVars => TimelyInv'
  <2> SUFFICES ASSUME TypeOK, TypeOK', TimelyInv, [QueueNext]_queueVars
               PROVE  TimelyInv'
    OBVIOUS
  <2>1. ASSUME NEW c \in Callers, Undisturbed(c), CallerStep(c)
        PROVE  TimelyInv'
    BY <2>1, TimelyEnqueue, TimelyLeave DEF CallerStep
  <2>2. ASSUME NEW w \in Workers, Undisturbed(w), WorkerStep(w)
        PROVE  TimelyInv'
    BY <2>2, TimelyClaim, TimelySettle, TimelyBeat, TimelySelect, TimelySweep DEF WorkerStep
  <2>3. ASSUME \A w \in Workers : ~InTransaction(w), Tick
        PROVE  TimelyInv'
    BY <2>3, TimelyTick
  <2>4. CASE UNCHANGED queueVars
    BY <2>4 DEF queueVars, TimelyInv, HeldRow, FailingRow, SweptRows, ExclusiveJob,
                OneTransaction, InTransaction, Holds, StaleJobs
  <2> QED
    BY <2>1, <2>2, <2>3, <2>4 DEF QueueNext
<1> QED
  BY <1>1, <1>2, QueueTypeCorrect, PTL DEF QueueSpec

\* Workers that beat within the timeout never execute a job twice at a time.
THEOREM ExclusiveJobHolds ==
  ASSUME TimelyWorkers, ShortTransactions
  PROVE  QueueSpec => []ExclusiveJob
<1>1. TimelyInv => ExclusiveJob
  BY DEF TimelyInv
<1> QED
  BY <1>1, TimelyInvariant, PTL

\* A job that is executed is RUNNING under the attempt its worker claimed.
THEOREM ClaimIsCurrentHolds ==
  ASSUME TimelyWorkers, ShortTransactions
  PROVE  QueueSpec => []ClaimIsCurrent
<1>1. TimelyInv => ClaimIsCurrent
  BY DEF TimelyInv, HeldRow, ClaimIsCurrent
<1> QED
  BY <1>1, TimelyInvariant, PTL

\* A COMPLETED or FAILED job is never active again.
THEOREM TerminalJobsStayHolds ==
  ASSUME TimelyWorkers, ShortTransactions
  PROVE  QueueSpec => TerminalJobsStay
<1> DEFINE Stays == \A j \in JobIds : jobs[j].status \in TerminalStatus
                                        => jobs'[j].status = jobs[j].status
<1>1. TypeOK /\ TimelyInv /\ [QueueNext]_queueVars => [Stays]_queueVars
  <2> SUFFICES ASSUME TypeOK, TimelyInv, QueueNext PROVE Stays
    OBVIOUS
  <2>1. CASE UNCHANGED jobs
    BY <2>1
  <2>2. ASSUME NEW c \in Callers, NEW j \in JobIds, EnqueueInsert(c, j)
        PROVE  Stays
    <3>1. jobs' = jobs \/ jobs' = [jobs EXCEPT ![j] = NewRow(enqueuing[c])]
      BY <2>2, CommitOutcome DEF EnqueueInsert
    <3> QED
      BY <2>2, <3>1 DEF EnqueueInsert, NoRow, TypeOK, TerminalStatus
  <2>3. ASSUME NEW w \in Workers, NEW j \in JobIds, Claim(w, j)
        PROVE  Stays
    BY <2>3, ClaimedColumns DEF Claim, Oldest, Eligible, TerminalStatus
  <2>4. ASSUME NEW w \in Workers, MarkJobCompleted(w)
        PROVE  Stays
    BY <2>4, CompletedColumns DEF TerminalStatus
  <2>5. ASSUME NEW w \in Workers, FailJobWrite(w)
        PROVE  Stays
    <3>1. jobs[claim[w].job].status = "RUNNING"
      BY <2>5 DEF FailJobWrite, TimelyInv, HeldRow
    <3> QED
      BY <2>5, <3>1, FailedColumns DEF TerminalStatus
  <2>6. ASSUME NEW w \in Workers, TouchJob(w) \/ BumpJobHeartbeat(w)
        PROVE  Stays
    <3>1. PICK running : jobs' = Beaten(jobs, running)
      BY <2>6 DEF TouchJob, BumpJobHeartbeat
    <3> QED
      BY <3>1, BeatenColumns
  <2>7. ASSUME NEW w \in Workers, RecoverWrite(w)
        PROVE  Stays
    <3>1. \A j \in sweeping[w] : jobs[j].status = "RUNNING"
      BY <2>7 DEF RecoverWrite, TimelyInv, SweptRows, StaleJobs
    <3> QED
      BY <2>7, <3>1, CommitOutcome, ReadmittedColumns DEF RecoverWrite, TerminalStatus
  <2>8. CASE Tick
    <3>1. \A j \in JobIds : jobs[j] \in Row /\ jobs'[j] = Aged(jobs[j])
      BY <2>8 DEF Tick, TypeOK
    <3> QED
      BY <3>1, AgedColumns
  <2> QED
    BY <2>1, <2>2, <2>3, <2>4, <2>5, <2>6, <2>7, <2>8
       DEF QueueNext, CallerStep, WorkerStep, EnqueueSelect, LeaveJob, FailJobSelect,
           RecoverSelect
<1> QED
  BY <1>1, QueueTypeCorrect, TimelyInvariant, PTL DEF QueueSpec, TerminalJobsStay

\* Only a sweep puts a job back in the queue that has used up its attempts.
THEOREM RetriesBoundedHolds ==
  ASSUME TimelyWorkers, ShortTransactions
  PROVE  QueueSpec => RetriesBounded
<1> DEFINE Back(j) == /\ jobs[j].status = "RUNNING" /\ jobs'[j].status = "PENDING"
                      /\ jobs[j].attempts >= MaxAttempts
           Swept(j) == \E w \in Workers : j \in sweeping[w] /\ sweeping'[w] = {}
           Bounded == \A j \in JobIds : Back(j) => Swept(j)
<1>1. TypeOK /\ TimelyInv /\ [QueueNext]_queueVars => [Bounded]_queueVars
  <2> SUFFICES ASSUME TypeOK, TimelyInv, QueueNext, NEW j \in JobIds, Back(j)
               PROVE  Swept(j)
    OBVIOUS
  <2>1. CASE UNCHANGED jobs
    BY <2>1
  <2>2. ASSUME NEW c \in Callers, NEW i \in JobIds, EnqueueInsert(c, i)
        PROVE  FALSE
    <3>1. jobs' = jobs \/ jobs' = [jobs EXCEPT ![i] = NewRow(enqueuing[c])]
      BY <2>2, CommitOutcome DEF EnqueueInsert
    <3> QED
      BY <2>2, <3>1 DEF EnqueueInsert, NoRow, TypeOK
  <2>3. ASSUME NEW w \in Workers, NEW i \in JobIds, Claim(w, i)
        PROVE  FALSE
    BY <2>3, ClaimedColumns DEF Claim
  <2>4. ASSUME NEW w \in Workers, MarkJobCompleted(w)
        PROVE  FALSE
    BY <2>4, CompletedColumns
  <2>5. ASSUME NEW w \in Workers, FailJobWrite(w)
        PROVE  FALSE
    <3>1. j = claim[w].job /\ jobs'[j] = FailedRow(jobs[j], failing[w])
      BY <2>5, FailedColumns
    <3>2. failing[w].attempts = jobs[j].attempts /\ failing[w].status = "RUNNING"
      <4>1. /\ Holds(w)
            /\ failing[w] = [status |-> "RUNNING", attempts |-> claim[w].attempt]
        BY <2>5 DEF FailJobWrite, TimelyInv, FailingRow
      <4>2. jobs[claim[w].job].attempts = claim[w].attempt
        BY <4>1 DEF TimelyInv, HeldRow
      <4> QED
        BY <3>1, <4>1, <4>2
    <3>3. jobs[j].attempts \in Nat
      BY DEF TypeOK, Row
    <3>4. ~(failing[w].attempts < MaxAttempts)
      BY <3>2, <3>3
    <3>5. FailedRow(jobs[j], failing[w]).status = "FAILED"
      BY <3>2, <3>4 DEF FailedRow, TypeOK, Row
    <3> QED
      BY <3>1, <3>5
  <2>6. ASSUME NEW w \in Workers, TouchJob(w) \/ BumpJobHeartbeat(w)
        PROVE  FALSE
    <3>1. PICK running : jobs' = Beaten(jobs, running)
      BY <2>6 DEF TouchJob, BumpJobHeartbeat
    <3> QED
      BY <3>1, BeatenColumns
  <2>7. ASSUME NEW w \in Workers, RecoverWrite(w)
        PROVE  Swept(j)
    <3>1. j \in sweeping[w]
      BY <2>7, CommitOutcome, ReadmittedColumns DEF RecoverWrite
    <3> QED
      BY <2>7, <3>1 DEF RecoverWrite, TypeOK
  <2>8. CASE Tick
    <3>1. jobs[j] \in Row /\ jobs'[j] = Aged(jobs[j])
      BY <2>8 DEF Tick, TypeOK
    <3> QED
      BY <3>1, AgedColumns
  <2> QED
    BY <2>1, <2>2, <2>3, <2>4, <2>5, <2>6, <2>7, <2>8
       DEF QueueNext, CallerStep, WorkerStep, EnqueueSelect, LeaveJob, FailJobSelect,
           RecoverSelect
<1> QED
  BY <1>1, QueueTypeCorrect, TimelyInvariant, PTL DEF QueueSpec, RetriesBounded
=============================================================================
