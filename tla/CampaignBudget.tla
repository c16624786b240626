--------------------------- MODULE CampaignBudget ---------------------------
(***************************************************************************)
(* The spend of one campaign over its runs.  Each call of an agent to its  *)
(* provider is a sequence of steps: the tripwire (check_allow) on an       *)
(* estimate, the request with its retries (litellm.py) or the reading of   *)
(* a body of bounded size (custom_http.py), the record in the tracker, and *)
(* the best-effort write to the ledger.  A run may die between any two of  *)
(* them, and the next one seeds its tracker from the ledger.               *)
(*                                                                         *)
(* Costs are natural numbers of some unit.  `billed' is what the providers *)
(* charge: the answers the program saw, and those that it did not see      *)
(* because the attempt timed out or the worker died while it waited.       *)
(***************************************************************************)
EXTENDS Integers, FiniteSets

CONSTANTS
    Cap,         \* max_cost_usd of the run
    Estimates,   \* what estimate_call_cost may answer
    Overshoot,   \* how much more than the estimate a call may cost
    MaxRetries,  \* LLM_MAX_RETRIES
    MaxBytes,    \* MAX_TARGET_RESPONSE_BYTES
    ChunkSizes,  \* the sizes of the chunks a body arrives in
    MaxRuns,     \* bound: how often the campaign is run
    MaxFaults    \* bound: ledger reads that fail, and usages that are lost

ASSUME BudgetConstants ==
    /\ Cap \in Nat /\ Estimates \subseteq Nat /\ Overshoot \in Nat
    /\ MaxRetries \in Nat /\ MaxBytes \in Nat \ {0}
    /\ ChunkSizes \subseteq Nat \ {0}
    /\ MaxRuns \in Nat /\ MaxFaults \in Nat

VARIABLES
    pc,         \* where the run is in its current call
    role,       \* the agent that calls
    estimate,   \* what the tripwire admitted
    attempt,    \* retries of the current request so far
    kept, sent, \* bytes of the body that were kept; that arrived (capped)
    cost,       \* the cost of the answer in hand
    error,      \* whether the answer in hand is an error
    resumed,    \* tracker._resumed_cost_usd
    recorded,   \* tracker._totals["cost_usd"]
    ledger,     \* SUM(token_usage.cost_usd) of the campaign
    billed,     \* history: what the providers charged
    runs,       \* history: runs started
    loadErrors, \* history: runs whose read of the ledger failed
    lost        \* history: charges that never reached the ledger

call == <<role, estimate, attempt, kept, sent, cost, error>>
tracker == <<resumed, recorded>>
faults == <<loadErrors, lost>>
vars == <<pc, call, tracker, ledger, billed, runs, faults>>

Roles == {"attacker", "evaluator", "verifier", "target"}
Phases == {"idle", "ready", "request", "body", "answered", "recorded"}

BudgetInit ==
    /\ pc = "idle" /\ role = "attacker" /\ estimate = 0 /\ attempt = 0
    /\ kept = 0 /\ sent = 0 /\ cost = 0 /\ error = FALSE
    /\ resumed = 0 /\ recorded = 0 /\ ledger = 0
    /\ billed = 0 /\ runs = 0 /\ loadErrors = 0 /\ lost = 0

-----------------------------------------------------------------------------
(* The run. *)

Total == resumed + recorded

\* _load_campaign_spend: what is in the ledger, and zero when the read fails.
StartRun ==
    /\ pc = "idle" /\ runs < MaxRuns
    /\ \/ resumed' = ledger /\ UNCHANGED loadErrors
       \/ /\ loadErrors < MaxFaults
          /\ resumed' = 0 /\ loadErrors' = loadErrors + 1
    /\ recorded' = 0
    /\ runs' = runs + 1 /\ pc' = "ready"
    /\ UNCHANGED <<call, ledger, billed, lost>>

EndRun ==
    /\ pc = "ready" /\ pc' = "idle"
    /\ UNCHANGED <<call, tracker, ledger, billed, runs, faults>>

\* check_allow, before every call.  BudgetExceededError ends the run, unless
\* the caller is the verifier, whose exceptions the campaign swallows.
Affordable_Spent(e) == Total <= Cap
Affordable(e) == Total + e <= Cap

Call(r, e) ==
    /\ pc = "ready"
    /\ role' = r /\ estimate' = e /\ attempt' = 0
    /\ pc' = IF Affordable(e) THEN "request"
             ELSE IF r = "verifier" THEN "ready" ELSE "idle"
    /\ kept' = 0 /\ sent' = 0 /\ cost' = 0 /\ error' = FALSE
    /\ UNCHANGED <<tracker, ledger, billed, runs, faults>>

-----------------------------------------------------------------------------
(* The providers. *)

Charges == 0..(estimate + Overshoot)

Answered(c, failed) ==
    /\ cost' = c /\ error' = failed /\ billed' = billed + c
    /\ pc' = "answered"
    /\ UNCHANGED <<role, estimate, attempt, kept, sent, tracker, ledger, runs, faults>>

\* A charge for an answer that the program never sees.
Unseen ==
    \/ UNCHANGED <<billed, lost>>
    \/ /\ lost < MaxFaults /\ lost' = lost + 1
       /\ \E c \in Charges : billed' = billed + c

\* LiteLLMTargetProvider.execute: an answer, a transient error that is tried
\* again, and an error response once the retries are used up.
Answer == pc = "request" /\ \E c \in Charges : Answered(c, FALSE)

Retry_Restart ==
    /\ pc = "request"
    /\ attempt' = IF attempt < MaxRetries THEN attempt + 1 ELSE 0
    /\ UNCHANGED <<pc, role, estimate, kept, sent, cost, error, tracker,
                   ledger, billed, runs, faults>>
Retry ==
    /\ pc = "request" /\ attempt < MaxRetries
    /\ attempt' = attempt + 1
    /\ Unseen
    /\ UNCHANGED <<pc, role, estimate, kept, sent, cost, error, tracker,
                   ledger, runs, loadErrors>>

Fail ==
    /\ pc \in {"request", "body"}
    /\ cost' = 0 /\ error' = TRUE /\ pc' = "answered"
    /\ Unseen
    /\ UNCHANGED <<role, estimate, attempt, kept, sent, tracker, ledger, runs,
                   loadErrors>>

\* CustomHTTPTargetProvider.execute is not retried.  _bounded_content keeps at
\* most MaxBytes, and reports a body that reaches them as too large.
OpenBody ==
    /\ pc = "request" /\ role = "target" /\ attempt = 0
    /\ pc' = "body"
    /\ UNCHANGED <<call, tracker, ledger, billed, runs, faults>>

Lesser(a, b) == IF a <= b THEN a ELSE b
TooLarge_NextChunk(bytes) == kept >= MaxBytes
TooLarge(bytes) == bytes >= MaxBytes

Chunk(n) ==
    LET bytes == Lesser(kept + n, MaxBytes)
    IN  /\ pc = "body"
        /\ kept' = bytes /\ sent' = Lesser(sent + n, MaxBytes + 1)
        /\ IF TooLarge(bytes) THEN pc' = "answered" /\ error' = TRUE
           ELSE UNCHANGED <<pc, error>>
        /\ UNCHANGED <<role, estimate, attempt, cost, tracker, ledger, billed,
                       runs, faults>>

\* The body is JSON and the status below 400: the usage it reports is charged.
EndOfBody == pc = "body" /\ \E c \in Charges : Answered(c, FALSE)

-----------------------------------------------------------------------------
(* The books. *)

\* record_usage: an error response counts for nothing.
Record ==
    /\ pc = "answered" /\ pc' = "recorded"
    /\ recorded' = recorded + cost
    /\ UNCHANGED <<call, resumed, ledger, billed, runs, faults>>

\* _persist_usage_entry swallows a failing write.  Then the agents raise on an
\* error response, while the execution stores it and the verifier's is ignored.
Persist_Total ==
    /\ pc = "recorded" /\ pc' = "ready"
    /\ ledger' = ledger + recorded
    /\ UNCHANGED <<call, tracker, billed, runs, faults>>

Persist ==
    /\ pc = "recorded"
    /\ pc' = IF error /\ role \in {"attacker", "evaluator"} THEN "idle" ELSE "ready"
    /\ \/ ledger' = ledger + cost /\ UNCHANGED lost
       \/ /\ lost < MaxFaults
          /\ lost' = lost + 1 /\ UNCHANGED ledger
    /\ UNCHANGED <<call, tracker, billed, runs, loadErrors>>

\* The worker dies: what it had in hand never reaches the ledger.
Crash ==
    /\ pc # "idle" /\ pc' = "idle"
    /\ IF pc \in {"answered", "recorded"}
       THEN lost < MaxFaults /\ lost' = lost + 1 /\ UNCHANGED billed
       ELSE IF pc \in {"request", "body"} THEN Unseen
       ELSE UNCHANGED <<billed, lost>>
    /\ UNCHANGED <<call, tracker, ledger, runs, loadErrors>>

CallStep ==
    \/ Answer \/ Retry \/ Fail
    \/ \E n \in ChunkSizes : Chunk(n)
    \/ EndOfBody \/ Record \/ Persist

BudgetNext ==
    \/ StartRun \/ EndRun \/ OpenBody \/ Crash
    \/ \E r \in Roles, e \in Estimates : Call(r, e)
    \/ CallStep

BudgetSpec == BudgetInit /\ [][BudgetNext]_vars

\* Every request has a timeout, so each attempt ends in some way.
BudgetFairSpec == BudgetSpec /\ WF_vars(CallStep)

-----------------------------------------------------------------------------
(* Properties. *)

\* Every variable keeps its type; the retries and the body stay in bounds.
BudgetTypeOK ==
    /\ pc \in Phases /\ role \in Roles /\ estimate \in Nat
    /\ attempt \in 0..MaxRetries /\ kept \in 0..MaxBytes /\ sent \in Nat
    /\ cost \in Nat /\ error \in BOOLEAN
    /\ resumed \in Nat /\ recorded \in Nat /\ ledger \in Nat
    /\ billed \in Nat /\ runs \in Nat /\ loadErrors \in Nat /\ lost \in Nat

\* What one run may spend, and what is charged but not yet in the ledger.
RunLimit == Cap + Overshoot
Pending == IF pc \in {"answered", "recorded"} THEN cost ELSE 0

\* The cap holds over all the runs of a campaign up to the error of one
\* estimate; each ledger read that fails forgets at most one cap, and each
\* charge that never reached the ledger at most one.  (budget.py says that
\* "budget enforcement never restarts at zero": the failed reads are where it does.)
SpendBounded == billed <= RunLimit * (1 + loadErrors + lost)

\* The ledger, which the dashboard shows, is what the providers charged, but
\* for the charges that were lost: nothing is written twice.
LedgerTellsTheSpend ==
    /\ ledger + Pending <= billed
    /\ billed <= ledger + Pending + RunLimit * lost

\* A body of which a part was dropped is never taken for an answer.
AnswersAreWhole == pc = "answered" /\ ~error => kept = sent

\* A call that was admitted is over some time, whatever the provider does.
CallsSettle == pc = "request" ~> pc \in {"ready", "idle"}
=============================================================================
