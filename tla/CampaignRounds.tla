--------------------------- MODULE CampaignRounds ---------------------------
(***************************************************************************)
(* CampaignOrchestrator.run_campaign: the loop of rounds that plans,       *)
(* generates, executes, grades, verifies and mutates attacks, and          *)
(* _load_progress, which a worker uses to continue a campaign that another *)
(* one left.  Every await of the loop is a step, so the worker may die     *)
(* between any two writes of the database.                                 *)
(*                                                                         *)
(* An attack is its position in the table `attacks' (creation order, what  *)
(* created_at sorts by).  Prompts and responses are abstracted to what the *)
(* loop tells apart: the strategy name the attacker wrote in its payload,  *)
(* and whether the stored response is empty.  Provider calls may answer,   *)
(* fail, or be refused by the budget; the two last ones are the same to    *)
(* the loop (see CampaignBudget for the cap).  stop_on_first_success is    *)
(* False for every campaign that is built from its row (_build_config).    *)
(***************************************************************************)
EXTENDS Naturals, Sequences, FiniteSets, FiniteSetsExt, SequencesExt

CONSTANTS
    StrategyOrder,  \* the registered strategies, in registration order
    Mutable,        \* those whose supports_mutation is True
    Other,          \* a strategy name that is not registered
    MaxRounds,      \* config.max_rounds
    MutationBudget, \* max(1, attack_budget // 2)
    Dice,           \* what random.random() < exploration_ratio may answer
    Severities,     \* the severities the evaluator may give
    VerifiedStatus, \* the statuses the verifier may give
    MaxRuns,        \* bound: how often the campaign is run, the retries included
    MaxDrift        \* bound: how many payloads carry another strategy name

Strategies == {StrategyOrder[k] : k \in DOMAIN StrategyOrder}

ASSUME RoundsConstants ==
    /\ MaxRounds \in Nat \ {0} /\ MutationBudget \in Nat \ {0}
    /\ StrategyOrder \in Seq(Strategies) \ {<<>>} /\ Mutable \subseteq Strategies
    /\ \A j, k \in DOMAIN StrategyOrder : StrategyOrder[j] = StrategyOrder[k] => j = k
    /\ Other \notin Strategies
    /\ Dice \in SUBSET BOOLEAN \ {{}} /\ Severities # {}
    /\ "UNCONFIRMED" \notin VerifiedStatus
    /\ MaxRuns \in Nat \ {0} /\ MaxDrift \in Nat

VARIABLES
    status,    \* experiments.status
    attacks,   \* the attacks table, each row with its attack_results
    findings,  \* the vulnerabilities table
    run,       \* the locals of run_campaign in the worker that runs it
    runs,      \* history: how many times run_campaign started
    graded,    \* history: attacks evaluate_result gave a verdict for
    unverified,\* history: verifications that raised
    drifted    \* history: payloads that named another strategy

rows == <<status, attacks, findings>>
history == <<runs, graded, unverified, drifted>>
vars == <<status, attacks, findings, run, runs, graded, unverified, drifted>>

-----------------------------------------------------------------------------
(* The rows, and what _load_progress reads from them. *)

Replies == {"empty", "text"}

Attack(round, parent, name) ==
    [round |-> round, parent |-> parent, name |-> name, results |-> <<>>]
Finding_OtherStatus(a, severity) ==
    [attack |-> a, severity |-> severity, status |-> "UNVERIFIED"]
Finding(a, severity) ==
    [attack |-> a, severity |-> severity, status |-> "UNCONFIRMED"]

Ids == DOMAIN attacks
Found == {findings[k].attack : k \in DOMAIN findings}
Round(r) == {i \in Ids : attacks[i].round = r}
Roots == {i \in Ids : attacks[i].parent = 0}
LastRound == IF Ids = {} THEN 0 ELSE Max({attacks[i].round : i \in Ids})

\* The mutations of one attack; and the chain from an attack, oldest first.
Children(i) == {j \in Round(attacks[i].round) : attacks[j].parent = i}
Chain ==
    LET chain[i \in Ids] ==
            IF Children(i) = {} THEN <<i>>
            ELSE <<i>> \o chain[Min(Children(i))]
    IN  chain

\* The turn a new run may continue from: the last round's last mutation, when
\* it was executed, nothing in its chain succeeded, and it may still evolve.
LastChain == Chain[Min(Round(LastRound))]
Resumable_Succeeded ==
    /\ LastRound \in 1..MaxRounds
    /\ LET last == attacks[Last(LastChain)]
       IN  last.results # <<>> /\ last.name \in Mutable
    /\ Len(LastChain) - 1 < MutationBudget
Resumable_AnyLength ==
    /\ LastRound \in 1..MaxRounds
    /\ LET last == attacks[Last(LastChain)]
       IN  last.results # <<>> /\ last.name \in Mutable
    /\ \A k \in DOMAIN LastChain : LastChain[k] \notin Found
Resumable_OffByOne ==
    /\ LastRound \in 1..MaxRounds
    /\ LET last == attacks[Last(LastChain)]
       IN  last.results # <<>> /\ last.name \in Mutable
    /\ \A k \in DOMAIN LastChain : LastChain[k] \notin Found
    /\ Len(LastChain) < MutationBudget
Resumable ==
    /\ LastRound \in 1..MaxRounds
    /\ LET last == attacks[Last(LastChain)]
       IN  last.results # <<>> /\ last.name \in Mutable
    /\ \A k \in DOMAIN LastChain : LastChain[k] \notin Found
    /\ Len(LastChain) - 1 < MutationBudget

\* The round a run starts with, and the strategies that were tried.
StartingRound_Same == IF LastRound = 0 THEN 1 ELSE LastRound
StartingRound_First == 1
StartingRound == IF Resumable THEN LastRound ELSE LastRound + 1
TriedNames_None == {}
TriedNames == {attacks[i].name : i \in Ids}

Score(s) == Cardinality({k \in DOMAIN findings :
                            attacks[findings[k].attack].name = s})

-----------------------------------------------------------------------------
(* The locals of run_campaign. *)

Idle == [pc |-> "idle", round |-> 0, resume |-> 0, attempts |-> 0,
         strategy |-> Other, current |-> 0, used |-> {},
         scores |-> [s \in Strategies |-> 0]]

RoundsInit ==
    /\ status = "PENDING" /\ attacks = <<>> /\ findings = <<>>
    /\ run = Idle
    /\ runs = 0 /\ graded = {} /\ unverified = 0 /\ drifted = 0

At(pc) == run.pc = pc
GoTo(pc) == run' = [run EXCEPT !.pc = pc]
NextRound(r) == [r EXCEPT !.pc = "round", !.round = @ + 1]

\* The except branches: any call the loop awaits may raise (the provider, the
\* budget, the database, the embedding that follows an insert), and the
\* campaign is FAILED.  While "verify" it is only the refresh of the row that
\* was just inserted: the verification itself swallows its exceptions.
Raise ==
    /\ ~At("idle")
    /\ status' = "FAILED" /\ run' = Idle
    /\ UNCHANGED <<attacks, findings, history>>

\* The job of a failed campaign is retried, up to its attempts: execute_job
\* puts the campaign back to PENDING.
Retry ==
    /\ status = "FAILED" /\ runs < MaxRuns
    /\ status' = "PENDING"
    /\ UNCHANGED <<attacks, findings, run, history>>

\* After the last round.
Finish_Early ==
    /\ At("round") /\ run.round >= MaxRounds
    /\ status' = "COMPLETED" /\ run' = Idle
    /\ UNCHANGED <<attacks, findings, history>>

Finish ==
    /\ At("round") /\ run.round > MaxRounds
    /\ status' = "COMPLETED" /\ run' = Idle
    /\ UNCHANGED <<attacks, findings, history>>

\* The recovery at a worker's start hands a campaign whose worker died back to
\* the queue, once its heartbeat is older than the timeout.  No later start may
\* ever see it that old, so nothing makes this step happen; the races of the
\* recovery with a worker that lives are in CampaignWorker.
HandBack ==
    /\ At("idle") /\ status = "RUNNING"
    /\ status' = "PENDING"
    /\ UNCHANGED <<attacks, findings, run, history>>

\* A worker wins the lease of a PENDING campaign, and starts or resumes it.
Begin ==
    /\ At("idle") /\ status = "PENDING"
    /\ status' = "RUNNING"
    /\ run' = [Idle EXCEPT
          !.pc = "round",
          !.round = StartingRound,
          !.resume = IF Resumable THEN Last(LastChain) ELSE 0,
          !.used = TriedNames,
          !.scores = [s \in Strategies |-> Score(s)]]
    /\ runs' = runs + 1
    /\ UNCHANGED <<attacks, findings, graded, unverified, drifted>>

\* _select_strategy: explore the untried, exploit the best, or take any.
Untried == Strategies \ run.used
KnownGood == {s \in Strategies : run.scores[s] > 0}
Exploring(roll) ==
    roll \/ (Untried # {} /\ Cardinality(run.used) < Len(StrategyOrder))
FirstUntried == StrategyOrder[Min({k \in DOMAIN StrategyOrder :
                                        StrategyOrder[k] \in Untried})]
Selected(roll) ==
    IF Exploring(roll) /\ Untried # {}
    THEN IF Dice = {FALSE} THEN {FirstUntried} ELSE Untried
    ELSE IF KnownGood # {}
         THEN {s \in KnownGood :
                  \A t \in KnownGood : run.scores[s] >= run.scores[t]}
         ELSE Strategies

\* The attacker's payload carries the name it is stored under.
Names(s) == IF drifted < MaxDrift THEN Strategies \cup {Other} ELSE {s}

\* generate_and_persist_attack and generate_mutated_attack insert a row.
Insert(s, parent, r) ==
    /\ \E name \in Names(s) :
          /\ attacks' = Append(attacks, Attack(run.round, parent, name))
          /\ drifted' = IF name = s THEN drifted ELSE drifted + 1
    /\ run' = [r EXCEPT !.pc = "execute", !.strategy = s,
                        !.current = Len(attacks) + 1]

ResumeRound_Executes ==
    /\ At("round") /\ run.round <= MaxRounds /\ run.resume # 0
    /\ run' = [run EXCEPT !.pc = "execute", !.current = run.resume,
                          !.resume = 0,
                          !.strategy = attacks[run.resume].name]
    /\ UNCHANGED <<rows, history>>

ResumeRound ==
    /\ At("round") /\ run.round <= MaxRounds /\ run.resume # 0
    /\ run' = [run EXCEPT !.pc = "evaluate", !.current = run.resume,
                          !.resume = 0,
                          !.strategy = attacks[run.resume].name,
                          !.used = @ \cup {attacks[run.resume].name}]
    /\ UNCHANGED <<rows, history>>

Generate ==
    /\ At("round") /\ run.round <= MaxRounds /\ run.resume = 0
    /\ \E roll \in Dice : \E s \in Selected(roll) :
          Insert(s, 0, [run EXCEPT !.used = @ \cup {s}])
    /\ UNCHANGED <<status, findings, runs, graded, unverified>>

Execute_SkipEmpty ==
    /\ At("execute")
    /\ \E reply \in Replies :
          /\ attacks' = [attacks EXCEPT ![run.current].results = Append(@, reply)]
          /\ run' = IF reply = "empty" THEN NextRound(run)
                    ELSE [run EXCEPT !.pc = "evaluate"]
    /\ UNCHANGED <<status, findings, history>>

\* execute_attack: a provider error is stored as an empty response; only the
\* budget and a target that cannot be resolved raise.
Execute ==
    /\ At("execute")
    /\ \E reply \in Replies :
          attacks' = [attacks EXCEPT ![run.current].results = Append(@, reply)]
    /\ GoTo("evaluate")
    /\ UNCHANGED <<status, findings, history>>

\* evaluate_result: an empty response, as a plain refusal, is blocked without
\* a call; the evaluator may block any other text, or see a jailbreak.
Blocked ==
    /\ GoTo("mutate")
    /\ graded' = graded \cup {run.current}
    /\ UNCHANGED rows

Jailbreak_NoVerify(severity) ==
    /\ findings' = Append(findings, Finding(run.current, severity))
    /\ graded' = graded \cup {run.current}
    /\ run' = NextRound(run)
    /\ UNCHANGED <<status, attacks>>

Jailbreak(severity) ==
    /\ findings' = Append(findings, Finding(run.current, severity))
    /\ graded' = graded \cup {run.current}
    /\ run' = [run EXCEPT !.pc = "verify", !.scores[run.strategy] = @ + 1]
    /\ UNCHANGED <<status, attacks>>

Evaluate_AnyReply ==
    /\ At("evaluate")
    /\ Blocked \/ \E severity \in Severities : Jailbreak(severity)
    /\ UNCHANGED <<runs, unverified, drifted>>

Evaluate ==
    /\ At("evaluate")
    /\ \/ Blocked
       \/ /\ Last(attacks[run.current].results) = "text"
          /\ \E severity \in Severities : Jailbreak(severity)
    /\ UNCHANGED <<runs, unverified, drifted>>

\* verify_vulnerability on the finding just recorded.  An exception is
\* swallowed, and the campaign goes on with the finding UNCONFIRMED.
Verify ==
    /\ At("verify")
    /\ \/ /\ \E verdict \in VerifiedStatus :
                findings' = [findings EXCEPT ![Len(findings)].status = verdict]
          /\ UNCHANGED unverified
       \/ unverified' = unverified + 1 /\ UNCHANGED findings
    /\ run' = NextRound(run)
    /\ UNCHANGED <<status, attacks, runs, graded, drifted>>

MayMutate_OffByOne == run.strategy \in Mutable /\ run.attempts <= MutationBudget
MayMutate == run.strategy \in Mutable /\ run.attempts < MutationBudget

\* The head of the mutation loop: give up on the round, or ask the attacker
\* for the next turn, which may be dropped as a duplicate.
GiveUp_Stays ==
    /\ At("mutate") /\ ~MayMutate
    /\ UNCHANGED <<rows, run, history>>

GiveUp ==
    /\ At("mutate") /\ ~MayMutate
    /\ run' = NextRound(run)
    /\ UNCHANGED <<rows, history>>

Tried == [run EXCEPT !.attempts = @ + 1]
Mutate_FromRoot ==
    /\ At("mutate") /\ MayMutate
    /\ \/ Insert(run.strategy, Min(Round(run.round)), Tried)
       \/ run' = NextRound(Tried) /\ UNCHANGED <<attacks, drifted>>
    /\ UNCHANGED <<status, findings, runs, graded, unverified>>

Mutate ==
    /\ At("mutate") /\ MayMutate
    /\ \/ Insert(run.strategy, run.current, Tried)
       \/ run' = NextRound(Tried) /\ UNCHANGED <<attacks, drifted>>
    /\ UNCHANGED <<status, findings, runs, graded, unverified>>

\* The worker dies, or is cancelled at shutdown: the row stays RUNNING.
Crash ==
    /\ ~At("idle") /\ runs < MaxRuns
    /\ run' = Idle
    /\ UNCHANGED <<rows, history>>

\* POST /vulnerabilities/verify, by a user, at any time.
Reverify ==
    /\ \E k \in DOMAIN findings, verdict \in VerifiedStatus :
          findings' = [findings EXCEPT ![k].status = verdict]
    /\ UNCHANGED <<status, attacks, run, history>>

\* What a worker that lives does next.
LoopStep ==
    \/ ResumeRound \/ Generate \/ Execute \/ Evaluate
    \/ Verify \/ GiveUp \/ Mutate \/ Finish

RoundsNext ==
    \/ Begin \/ LoopStep
    \/ Raise \/ Retry \/ Crash \/ HandBack \/ Reverify

RoundsSpec == RoundsInit /\ [][RoundsNext]_vars

\* A worker that lives goes on, as every call it awaits has a timeout.  That a
\* campaign is begun, retried or handed back is not assumed: what the queue and
\* the recovery do about it is CampaignWorker's.
RoundsFairSpec == RoundsSpec /\ WF_vars(LoopStep)

-----------------------------------------------------------------------------
(* Properties. *)

\* Every variable keeps its type (campaign.py, run_campaign and the tables).
RoundsTypeOK ==
    /\ status \in {"PENDING", "RUNNING", "COMPLETED", "FAILED"}
    /\ \A i \in Ids :
          /\ attacks[i].round \in 1..MaxRounds /\ attacks[i].parent \in 0..(i - 1)
          /\ attacks[i].name \in Strategies \cup {Other}
          /\ \A k \in DOMAIN attacks[i].results : attacks[i].results[k] \in Replies
    /\ \A k \in DOMAIN findings :
          /\ findings[k].attack \in Ids /\ findings[k].severity \in Severities
          /\ findings[k].status \in VerifiedStatus \cup {"UNCONFIRMED"}
    /\ run.round \in 0..(MaxRounds + 1) /\ run.attempts \in 0..MutationBudget
    /\ run.resume \in {0} \cup Ids /\ run.current \in {0} \cup Ids
    /\ graded \subseteq Ids

\* Across every crash and resume, the rounds of the table are 1, 2, ... with
\* no gap, and each has exactly one attack that no other was mutated into
\* (_load_progress: "continues where it stopped").
RoundsContiguous ==
    \A r \in 1..LastRound : Cardinality(Round(r) \cap Roots) = 1

\* No attack is sent to the target a second time: what the verifier and the
\* dashboard read with .first() is the only result.
ExecutedOnce == \A i \in Ids : Len(attacks[i].results) <= 1

\* A round is over with its first success: however often it is resumed, it
\* yields at most one finding.
OneFindingPerRound ==
    \A j, k \in DOMAIN findings :
        attacks[findings[j].attack].round = attacks[findings[k].attack].round
            => j = k

\* Mutations form one line, each turn answered and blocked before the next:
\* what _load_progress rebuilds is the whole conversation of the round.
ChainsLinear ==
    \A i \in Ids : attacks[i].parent # 0 =>
        /\ attacks[attacks[i].parent].results # <<>>
        /\ attacks[i].parent \in graded \ Found
        /\ Children(attacks[i].parent) = {i}

\* The cap on the mutations of a campaign restarts with every run, but the
\* length of the chain decides whether a round is resumed: no round holds
\* twice the cap, however many workers die in it.
ChainsBounded ==
    \A r \in 1..LastRound : Cardinality(Round(r)) <= 2 * MutationBudget

\* ... and each run, a resume or a retry, adds at most one cap to the campaign's.
MutationsBounded ==
    Cardinality(Ids \ Roots) <= MutationBudget * runs

\* A run that is interrupted leaves at most one attack without a verdict, so a
\* campaign that completes in its first run has graded every attack it made.
Interrupted == IF status = "COMPLETED" \/ run.pc \in {"round", "mutate", "verify"}
               THEN runs - 1 ELSE runs
LostBounded == Cardinality(Ids \ graded) <= Interrupted

\* A finding is left UNCONFIRMED only by a verification that raised, or by a
\* run that was interrupted before it.
UnconfirmedExplained ==
    Cardinality({k \in DOMAIN findings : findings[k].status = "UNCONFIRMED"})
        <= unverified + (IF At("verify") THEN runs ELSE Interrupted)

\* While payloads keep the name they were asked for, a strategy is not planned
\* twice before each was planned once, a resume included (_select_strategy).
ExploresFirst ==
    drifted = 0 =>
        \A i, j \in Roots :
            i # j /\ attacks[i].name = attacks[j].name =>
                attacks[i].round > Len(StrategyOrder)
                    \/ attacks[j].round > Len(StrategyOrder)

\* A campaign COMPLETED went through all its rounds, whatever happened to its
\* runs, and an attack it never graded is one that _load_progress refused to go
\* on from: it had no answer, its strategy does not evolve, or its chain was at
\* the cap.  (Findings may be left UNCONFIRMED: see UnconfirmedExplained.)
Refused(i) ==
    \/ attacks[i].results = <<>> \/ attacks[i].name \notin Mutable
    \/ Cardinality(Round(attacks[i].round)) > MutationBudget
CompletedAllRounds ==
    status = "COMPLETED" =>
        LastRound = MaxRounds /\ \A i \in Ids \ graded : Refused(i)

\* A round that ended is never entered again: a resume only goes back to the
\* round in which the last worker was, and never generates into an old one.
RoundsNeverReopen ==
    [][\A i \in DOMAIN attacks' \ DOMAIN attacks : attacks'[i].round >= LastRound]_vars

\* Whatever the attacker, the target and the evaluator answer, a run of the
\* loop comes to its end, unless its worker dies.
RunEnds == ~At("idle") ~> At("idle")
=============================================================================
