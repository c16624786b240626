------------------------ MODULE CampaignBudget_proofs ------------------------
(***************************************************************************)
(* Proofs about CampaignBudget, for any cap, any estimates and any number  *)
(* of runs, retries and faults.                                            *)
(*                                                                         *)
(* SpendBounded is not inductive: it says nothing of what the tracker of   *)
(* the run believes.  BudgetInv relates the three sums: the tracker        *)
(* covers the ledger but for one cap per failed read of it (RunAccounts),  *)
(* the ledger itself stays below one cap plus one per failed read          *)
(* (Accounts), and what is billed exceeds the ledger by one cap per lost   *)
(* charge (LedgerTellsTheSpend).                                           *)
(***************************************************************************)
EXTENDS CampaignBudget, TLAPS

\* What the tripwire admitted still fits.
Admitted == pc \in {"request", "body"} => Total + estimate <= Cap
CostBounded ==
    /\ pc \in {"answered", "recorded"} => cost <= RunLimit
    /\ pc \in {"request", "body"} => cost = 0

\* What the tracker will count once the answer in hand is recorded.
Counted == IF pc = "answered" THEN Total + cost ELSE Total
Past == RunLimit * loadErrors
Gone == RunLimit * lost
RunAccounts == pc # "idle" => ledger + Pending <= Counted + Past
Accounts == ledger + Pending <= RunLimit + Past

\* A body that is still read is not cut.
BodyWhole == pc \in {"request", "body"} => kept < MaxBytes /\ kept = sent

Sums == /\ Admitted /\ CostBounded /\ RunAccounts /\ Accounts
        /\ LedgerTellsTheSpend

BudgetInv == BudgetTypeOK /\ Sums /\ BodyWhole /\ AnswersAreWhole

-----------------------------------------------------------------------------
(* Types and bodies. *)

\* The bounds are numbers.
LEMMA Limits == /\ Cap \in Nat /\ Overshoot \in Nat /\ RunLimit \in Nat
                /\ RunLimit = Cap + Overshoot
                /\ \A n \in Nat : /\ RunLimit * n \in Nat
                                  /\ RunLimit * (n + 1) = RunLimit * n + RunLimit
BY BudgetConstants DEF RunLimit

\* Nothing is spent.
LEMMA TypeInit == BudgetInit => BudgetInv
<1> SUFFICES ASSUME BudgetInit PROVE BudgetInv
  OBVIOUS
<1>1. BudgetTypeOK
  <2>1. error \in BOOLEAN
    BY Zenon DEF BudgetInit
  <2> QED
    BY <2>1, BudgetConstants DEF BudgetInit, BudgetTypeOK, Phases, Roles
<1>2. Sums
  BY Limits DEF BudgetInit, Sums, Admitted, CostBounded, RunAccounts, Accounts,
     LedgerTellsTheSpend, Pending, Counted, Total, Past
<1>3. BodyWhole /\ AnswersAreWhole
  BY DEF BudgetInit, BodyWhole, AnswersAreWhole
<1> QED
  BY <1>1, <1>2, <1>3 DEF BudgetInv

\* A charge that is not seen is a natural number, and counted as lost.
LEMMA UnseenCharge ==
  ASSUME BudgetTypeOK, Unseen
  PROVE  /\ billed' \in Nat /\ lost' \in Nat
         /\ \/ UNCHANGED <<billed, lost>>
            \/ /\ lost' = lost + 1
               /\ \E c \in Nat : c <= estimate + Overshoot /\ billed' = billed + c
BY BudgetConstants DEF Unseen, Charges, BudgetTypeOK

\* Every step keeps the types.
LEMMA TypeStep == BudgetTypeOK /\ [BudgetNext]_vars => BudgetTypeOK'
<1> SUFFICES ASSUME BudgetTypeOK, [BudgetNext]_vars PROVE BudgetTypeOK'
  OBVIOUS
<1>0. /\ pc \in Phases /\ role \in Roles /\ estimate \in Nat
      /\ attempt \in 0..MaxRetries /\ kept \in 0..MaxBytes /\ sent \in Nat
      /\ cost \in Nat /\ error \in BOOLEAN
      /\ resumed \in Nat /\ recorded \in Nat /\ ledger \in Nat
      /\ billed \in Nat /\ runs \in Nat /\ loadErrors \in Nat /\ lost \in Nat
  BY DEF BudgetTypeOK
<1>1. CASE UNCHANGED vars
  BY <1>1 DEF BudgetTypeOK, vars, call, tracker, faults
<1>2. CASE StartRun
  BY <1>0, <1>2 DEF BudgetTypeOK, StartRun, Phases, call, tracker, faults
<1>3. CASE EndRun \/ OpenBody
  BY <1>0, <1>3 DEF BudgetTypeOK, EndRun, OpenBody, Phases, call, tracker, faults
<1>4. CASE Crash
  <2>1. billed' \in Nat /\ lost' \in Nat
    BY <1>0, <1>4, UnseenCharge DEF Crash
  <2> QED
    BY <1>0, <1>4, <2>1 DEF BudgetTypeOK, Crash, Phases, call, tracker, faults
<1>5. ASSUME NEW r \in Roles, NEW e \in Estimates, Call(r, e) PROVE BudgetTypeOK'
  <2>1. error' \in BOOLEAN
    BY <1>5, Zenon DEF Call
  <2> QED
    BY <1>0, <1>5, <2>1, BudgetConstants DEF BudgetTypeOK, Call, Phases, tracker, faults
<1>6. CASE Answer \/ EndOfBody
  <2>1. PICK c \in Charges : Answered(c, FALSE)
    BY <1>6 DEF Answer, EndOfBody
  <2>2. c \in Nat
    BY <1>0, BudgetConstants DEF Charges
  <2>3. error' \in BOOLEAN
    BY <2>1, Zenon DEF Answered
  <2> QED
    BY <1>0, <2>1, <2>2, <2>3 DEF BudgetTypeOK, Answered, Phases, tracker, faults
<1>7. CASE Retry
  <2>1. attempt' \in 0..MaxRetries
    BY <1>0, <1>7, BudgetConstants DEF Retry
  <2> QED
    BY <1>0, <1>7, <2>1, UnseenCharge DEF BudgetTypeOK, Retry, tracker
<1>8. CASE Fail
  BY <1>0, <1>8, UnseenCharge DEF BudgetTypeOK, Fail, Phases, tracker
<1>9. ASSUME NEW n \in ChunkSizes, Chunk(n) PROVE BudgetTypeOK'
  <2>1. n \in Nat /\ MaxBytes \in Nat
    BY BudgetConstants
  <2>2. kept' \in 0..MaxBytes /\ sent' \in Nat
    BY <1>0, <1>9, <2>1 DEF Chunk, Lesser
  <2>3. pc' \in Phases /\ error' \in BOOLEAN
    BY <1>0, <1>9 DEF Chunk, Phases
  <2> QED
    BY <1>0, <1>9, <2>2, <2>3 DEF BudgetTypeOK, Chunk, tracker, faults
<1>10. CASE Record
  BY <1>0, <1>10 DEF BudgetTypeOK, Record, Phases, call, faults
<1>11. CASE Persist
  BY <1>0, <1>11 DEF BudgetTypeOK, Persist, Phases, call, tracker
<1> QED
  BY <1>1, <1>2, <1>3, <1>4, <1>5, <1>6, <1>7, <1>8, <1>9, <1>10, <1>11
     DEF BudgetNext, CallStep

\* Every variable keeps its type; no request is tried more often than
\* LLM_MAX_RETRIES says, no body kept beyond its limit (litellm.py,
\* custom_http.py).
THEOREM BudgetTypeCorrect == BudgetFairSpec => []BudgetTypeOK
<1>1. BudgetInit => BudgetTypeOK
  BY TypeInit DEF BudgetInv
<1> QED
  BY <1>1, TypeStep, PTL DEF BudgetFairSpec, BudgetSpec

\* Every step keeps a body that is read whole.
LEMMA BodyStep ==
  BudgetTypeOK /\ BodyWhole /\ AnswersAreWhole /\ [BudgetNext]_vars
    => BodyWhole' /\ AnswersAreWhole'
<1> SUFFICES ASSUME BudgetTypeOK, BodyWhole, AnswersAreWhole, [BudgetNext]_vars
             PROVE  BodyWhole' /\ AnswersAreWhole'
  OBVIOUS
<1>0. kept \in Nat /\ sent \in Nat /\ MaxBytes \in Nat \ {0} /\ ChunkSizes \subseteq Nat
  BY BudgetConstants DEF BudgetTypeOK
<1>1. CASE UNCHANGED vars
  BY <1>1 DEF BodyWhole, AnswersAreWhole, vars, call
<1>2. CASE StartRun \/ EndRun \/ Crash \/ Record \/ Persist
  <2>1. pc' \notin {"request", "body", "answered"}
    BY <1>2 DEF StartRun, EndRun, Crash, Record, Persist
  <2> QED
    BY <2>1 DEF BodyWhole, AnswersAreWhole
<1>3. CASE OpenBody
  BY <1>3 DEF OpenBody, BodyWhole, AnswersAreWhole, call
<1>4. ASSUME NEW r \in Roles, NEW e \in Estimates, Call(r, e)
      PROVE  BodyWhole' /\ AnswersAreWhole'
  BY <1>0, <1>4 DEF Call, BodyWhole, AnswersAreWhole
<1>5. CASE Answer \/ EndOfBody
  BY <1>5 DEF Answer, EndOfBody, Answered, BodyWhole, AnswersAreWhole
<1>6. CASE Retry
  BY <1>6 DEF Retry, BodyWhole, AnswersAreWhole
<1>7. CASE Fail
  BY <1>7 DEF Fail, BodyWhole, AnswersAreWhole
<1>8. ASSUME NEW n \in ChunkSizes, Chunk(n) PROVE BodyWhole' /\ AnswersAreWhole'
  <2>1. n \in Nat /\ kept < MaxBytes /\ kept = sent
    BY <1>0, <1>8 DEF Chunk, BodyWhole
  <2>2. CASE kept + n >= MaxBytes
    BY <1>0, <1>8, <2>1, <2>2 DEF Chunk, Lesser, TooLarge, BodyWhole, AnswersAreWhole
  <2>3. CASE kept + n < MaxBytes
    BY <1>0, <1>8, <2>1, <2>3 DEF Chunk, Lesser, TooLarge, BodyWhole, AnswersAreWhole
  <2> QED
    BY <1>0, <2>1, <2>2, <2>3
<1> QED
  BY <1>1, <1>2, <1>3, <1>4, <1>5, <1>6, <1>7, <1>8 DEF BudgetNext, CallStep

\* An answer whose body was cut at MAX_TARGET_RESPONSE_BYTES is an error
\* (custom_http.py, _bounded_content).
THEOREM AnswersAreWholeHolds == BudgetFairSpec => []AnswersAreWhole
<1>1. BudgetInit => BudgetTypeOK /\ BodyWhole /\ AnswersAreWhole
  BY TypeInit DEF BudgetInv
<1> QED
  BY <1>1, TypeStep, BodyStep, PTL DEF BudgetFairSpec, BudgetSpec

-----------------------------------------------------------------------------
(* The sums. *)

\* Every step keeps the sums.
LEMMA SumsStep == BudgetTypeOK /\ Sums /\ [BudgetNext]_vars => Sums'
<1> SUFFICES ASSUME BudgetTypeOK, Sums, [BudgetNext]_vars PROVE Sums'
  OBVIOUS
<1>0. /\ estimate \in Nat /\ cost \in Nat /\ resumed \in Nat /\ recorded \in Nat
      /\ ledger \in Nat /\ billed \in Nat /\ loadErrors \in Nat /\ lost \in Nat
      /\ Past \in Nat /\ Gone \in Nat
      /\ RunLimit * (loadErrors + 1) = Past + RunLimit
      /\ RunLimit * (lost + 1) = Gone + RunLimit
  BY Limits DEF BudgetTypeOK, Past, Gone
<1>1. /\ Admitted /\ CostBounded
      /\ pc # "idle" => ledger + Pending <= Counted + Past
      /\ ledger + Pending <= RunLimit + Past
      /\ ledger + Pending <= billed
      /\ billed <= ledger + Pending + Gone
  BY DEF Sums, RunAccounts, Accounts, LedgerTellsTheSpend, Gone
<1>2. ASSUME Admitted', CostBounded',
             pc' # "idle" => (ledger + Pending)' <= Counted' + Past',
             (ledger + Pending)' <= RunLimit + Past',
             (ledger + Pending)' <= billed',
             billed' <= (ledger + Pending)' + Gone'
      PROVE  Sums'
  BY <1>2 DEF Sums, RunAccounts, Accounts, LedgerTellsTheSpend, Gone
<1>3. /\ loadErrors' = loadErrors => Past' = Past
      /\ loadErrors' = loadErrors + 1 => Past' = Past + RunLimit
      /\ lost' = lost => Gone' = Gone
      /\ lost' = lost + 1 => Gone' = Gone + RunLimit
  BY <1>0 DEF Past, Gone
\* What the tripwire admitted is within one limit.
<1>4. ASSUME pc \in {"request", "body"}, NEW c \in Nat, c <= estimate + Overshoot
      PROVE  Total + c <= RunLimit /\ c <= RunLimit
  BY <1>0, <1>1, <1>4, Limits DEF Admitted, Total
\* A charge that nobody sees is one more that is lost.
<1>5. ASSUME pc \in {"request", "body"}, Unseen
      PROVE  ledger <= billed' /\ billed' <= ledger + Gone'
  <2>1. ledger <= billed /\ billed <= ledger + Gone
    BY <1>0, <1>1, <1>5 DEF Pending
  <2>2. CASE UNCHANGED <<billed, lost>>
    BY <1>3, <2>1, <2>2
  <2>3. ASSUME lost' = lost + 1, NEW c \in Nat, c <= estimate + Overshoot, billed' = billed + c
        PROVE  ledger <= billed' /\ billed' <= ledger + Gone'
    <3>1. c <= RunLimit /\ Gone' = Gone + RunLimit
      BY <1>3, <1>4, <1>5, <2>3
    <3> QED
      BY <1>0, <2>1, <2>3, <3>1, Limits
  <2> QED
    BY <1>5, <2>2, <2>3, UnseenCharge
<1>6. CASE UNCHANGED vars
  BY <1>1, <1>2, <1>3, <1>6 DEF vars, call, tracker, faults, Admitted, CostBounded, Pending,
     Counted, Total
<1>7. CASE StartRun
  <2>1. /\ pc = "idle" /\ pc' = "ready" /\ recorded' = 0
        /\ ledger' = ledger /\ billed' = billed /\ lost' = lost
        /\ \/ resumed' = ledger /\ loadErrors' = loadErrors
           \/ resumed' = 0 /\ loadErrors' = loadErrors + 1
    BY <1>7 DEF StartRun
  <2>2. Admitted' /\ CostBounded' /\ Pending = 0 /\ Pending' = 0 /\ Counted' = resumed'
    BY <1>0, <2>1 DEF Admitted, CostBounded, Pending, Counted, Total
  <2> QED
    BY <1>0, <1>1, <1>2, <1>3, <2>1, <2>2, Limits
<1>8. CASE EndRun
  BY <1>0, <1>1, <1>2, <1>3, <1>8 DEF EndRun, call, tracker, faults, Admitted, CostBounded,
     Pending, Counted, Total
<1>9. CASE OpenBody
  BY <1>0, <1>1, <1>2, <1>3, <1>9 DEF OpenBody, call, tracker, faults, Admitted, CostBounded,
     Pending, Counted, Total
<1>10. CASE Crash
  <2>1. /\ pc' = "idle" /\ Pending' = 0 /\ ledger' = ledger /\ loadErrors' = loadErrors
        /\ Admitted' /\ CostBounded'
    BY <1>10 DEF Crash, Pending, Admitted, CostBounded
  <2>2. CASE pc \in {"answered", "recorded"}
    <3>1. billed' = billed /\ lost' = lost + 1 /\ Pending = cost /\ cost <= RunLimit
      BY <1>1, <1>10, <2>2 DEF Crash, Pending, CostBounded
    <3> QED
      BY <1>0, <1>1, <1>2, <1>3, <2>1, <3>1, Limits
  <2>3. CASE pc \in {"request", "body"}
    <3>1. Unseen /\ Pending = 0
      BY <1>10, <2>3 DEF Crash, Pending
    <3>4. ledger + Pending = ledger /\ (ledger + Pending)' = ledger
      BY <1>0, <2>1, <3>1
    <3>5. ledger <= billed' /\ billed' <= ledger + Gone'
      BY <1>5, <2>3, <3>1
    <3> QED
      BY <1>1, <1>2, <1>3, <2>1, <3>4, <3>5
  <2>4. CASE pc \notin {"answered", "recorded", "request", "body"}
    <3>1. billed' = billed /\ lost' = lost /\ Pending = 0
      BY <1>10, <2>4 DEF Crash, Pending
    <3> QED
      BY <1>0, <1>1, <1>2, <1>3, <2>1, <3>1, Limits
  <2> QED
    BY <2>2, <2>3, <2>4
<1>11. ASSUME NEW r \in Roles, NEW e \in Estimates, Call(r, e) PROVE Sums'
  <2>1. /\ pc = "ready" /\ pc' \in {"ready", "request", "idle"} /\ estimate' = e /\ cost' = 0
        /\ pc' = "request" => Total + e <= Cap
        /\ UNCHANGED <<resumed, recorded, ledger, billed, loadErrors, lost>>
    BY <1>11 DEF Call, Affordable, tracker, faults
  <2> QED
    BY <1>0, <1>1, <1>2, <1>3, <2>1 DEF Admitted, CostBounded, Pending, Counted, Total
<1>12. CASE Answer \/ EndOfBody
  <2>1. PICK c \in Charges : Answered(c, FALSE)
    BY <1>12 DEF Answer, EndOfBody
  <2>2. pc \in {"request", "body"} /\ c \in Nat /\ c <= estimate + Overshoot
    <3>1. pc \in {"request", "body"}
      BY <1>12, Zenon DEF Answer, EndOfBody
    <3>2. c \in Nat /\ c <= estimate + Overshoot
      BY <1>0, BudgetConstants DEF Charges
    <3> QED
      BY <3>1, <3>2
  <2>3. Total + c <= RunLimit /\ c <= RunLimit
    BY <1>4, <2>2
  <2>4. /\ pc' = "answered" /\ cost' = c /\ billed' = billed + c
        /\ UNCHANGED <<resumed, recorded, ledger, loadErrors, lost>>
    BY <2>1 DEF Answered, tracker, faults
  <2>5. /\ Pending = 0 /\ Pending' = c /\ Counted = Total /\ Counted' = Total + c
        /\ Total \in Nat /\ Admitted' /\ CostBounded'
    BY <1>0, <2>2, <2>3, <2>4 DEF Pending, Counted, Total, Admitted, CostBounded
  <2> QED
    BY <1>0, <1>1, <1>2, <1>3, <2>2, <2>3, <2>4, <2>5, Limits
<1>13. CASE Retry
  <2>1. /\ pc = "request" /\ pc' = "request" /\ Unseen
        /\ UNCHANGED <<estimate, cost, resumed, recorded, ledger, loadErrors>>
    BY <1>13 DEF Retry, tracker
  <2>4. Pending = 0 /\ Pending' = 0 /\ Counted' = Counted /\ Admitted' /\ CostBounded'
    BY <1>1, <2>1 DEF Pending, Counted, Total, Admitted, CostBounded
  <2>5. ledger + Pending = ledger /\ (ledger + Pending)' = ledger
    BY <1>0, <2>1, <2>4
  <2>6. ledger <= billed' /\ billed' <= ledger + Gone'
    BY <1>5, <2>1
  <2> QED
    BY <1>1, <1>2, <1>3, <2>1, <2>4, <2>5, <2>6
<1>14. CASE Fail
  <2>1. /\ pc \in {"request", "body"} /\ pc' = "answered" /\ cost' = 0 /\ Unseen
        /\ UNCHANGED <<resumed, recorded, ledger, loadErrors>>
    BY <1>14 DEF Fail, tracker
  <2>4. /\ Pending = 0 /\ Pending' = 0 /\ Counted = Total /\ Counted' = Total
        /\ Admitted' /\ CostBounded' /\ Total \in Nat
    BY <1>0, <2>1, Limits DEF Pending, Counted, Total, Admitted, CostBounded
  <2>5. ledger + Pending = ledger /\ (ledger + Pending)' = ledger
    BY <1>0, <2>1, <2>4
  <2>6. ledger <= billed' /\ billed' <= ledger + Gone'
    BY <1>5, <2>1
  <2> QED
    BY <1>1, <1>2, <1>3, <2>1, <2>4, <2>5, <2>6
<1>15. ASSUME NEW n \in ChunkSizes, Chunk(n) PROVE Sums'
  <2>1. /\ pc = "body" /\ pc' \in {"body", "answered"}
        /\ UNCHANGED <<estimate, cost, resumed, recorded, ledger, billed, loadErrors, lost>>
    BY <1>15 DEF Chunk, tracker, faults
  <2>2. cost = 0 /\ cost' = 0 /\ Total \in Nat /\ Total' = Total
    BY <1>0, <1>1, <2>1 DEF CostBounded, Total
  <2>3. /\ Pending = 0 /\ Pending' = 0 /\ Counted = Total /\ Counted' = Total
        /\ Admitted' /\ CostBounded'
    BY <1>1, <2>1, <2>2, Limits DEF Pending, Counted, Admitted, CostBounded
  <2> QED
    BY <1>1, <1>2, <1>3, <2>1, <2>3
<1>16. CASE Record
  <2>1. /\ pc = "answered" /\ pc' = "recorded" /\ recorded' = recorded + cost
        /\ UNCHANGED <<estimate, cost, resumed, ledger, billed, loadErrors, lost>>
    BY <1>16 DEF Record, call, faults
  <2> QED
    BY <1>0, <1>1, <1>2, <1>3, <2>1 DEF Admitted, CostBounded, Pending, Counted, Total
<1>17. CASE Persist
  <2>1. /\ pc = "recorded" /\ pc' \in {"idle", "ready"}
        /\ UNCHANGED <<estimate, cost, resumed, recorded, billed, loadErrors>>
        /\ \/ ledger' = ledger + cost /\ lost' = lost
           \/ ledger' = ledger /\ lost' = lost + 1
    BY <1>17 DEF Persist, call, tracker
  <2>2. /\ Pending = cost /\ Pending' = 0 /\ Counted = Total /\ Counted' = Total
        /\ Total \in Nat /\ cost <= RunLimit /\ Admitted' /\ CostBounded'
    BY <1>0, <1>1, <2>1 DEF Pending, Counted, Total, Admitted, CostBounded
  <2> QED
    BY <1>0, <1>1, <1>2, <1>3, <2>1, <2>2, Limits
<1> QED
  BY <1>6, <1>7, <1>8, <1>9, <1>10, <1>11, <1>12, <1>13, <1>14, <1>15, <1>16, <1>17
     DEF BudgetNext, CallStep

\* The invariant of the accounts.
LEMMA SumsHold == BudgetFairSpec => [](BudgetTypeOK /\ Sums)
<1>1. BudgetInit => BudgetTypeOK /\ Sums
  BY TypeInit DEF BudgetInv
<1> QED
  BY <1>1, TypeStep, SumsStep, PTL DEF BudgetFairSpec, BudgetSpec

\* The ledger is what was billed, but for what was lost (campaign.py,
\* _persist_usage_entry).
THEOREM LedgerTellsTheSpendHolds == BudgetFairSpec => []LedgerTellsTheSpend
BY SumsHold, PTL DEF Sums

\* The cap of a campaign holds over all its runs, but for one cap per read of
\* the ledger that failed and one per charge that was lost (campaign.py,
\* _load_campaign_spend; budget.py, check_allow).
THEOREM SpendBoundedHolds == BudgetFairSpec => []SpendBounded
<1>1. BudgetTypeOK /\ Sums => SpendBounded
  <2> SUFFICES ASSUME BudgetTypeOK, Sums PROVE SpendBounded
    OBVIOUS
  <2> DEFINE known == ledger + Pending
  <2>1. loadErrors \in Nat /\ lost \in Nat /\ billed \in Nat /\ known \in Nat
        /\ RunLimit \in Nat /\ Past \in Nat /\ Gone \in Nat
    BY Limits DEF BudgetTypeOK, Pending, Past, Gone
  <2>2. known <= RunLimit + Past /\ billed <= known + Gone
    BY DEF Sums, Accounts, LedgerTellsTheSpend, Gone
  <2>3. RunLimit * (1 + loadErrors + lost) = RunLimit + Past + Gone
    BY <2>1 DEF Past, Gone
  <2> HIDE DEF known
  <2>4. billed <= RunLimit + Past + Gone
    BY <2>1, <2>2
  <2> QED
    BY <2>3, <2>4 DEF SpendBounded
<1> QED
  BY <1>1, SumsHold, PTL
=============================================================================
