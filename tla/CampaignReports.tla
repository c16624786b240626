-------------------------- MODULE CampaignReports --------------------------
(***************************************************************************)
(* What is computed from the tables that CampaignRounds writes: the        *)
(* conversation that is sent to the target (conversation.py), the lines    *)
(* the attacker retrieves from its memory (memory.py), the report, the     *)
(* analytics and the listings of the dashboard.  All of it reads; the      *)
(* question is whether the parts agree in every state the loop can reach.  *)
(***************************************************************************)
EXTENDS CampaignRounds

-----------------------------------------------------------------------------
(* The conversation. *)

\* load_conversation_lineage: from an attack back to its root, oldest first.
Lineage_TwoTurns(i) == IF attacks[i].parent = 0 THEN <<i>> ELSE <<attacks[i].parent, i>>
Lineage(i) ==
    LET line[j \in 0..i] ==
            IF j = 0 THEN <<>> ELSE Append(line[attacks[j].parent], j)
    IN  line[i]

LatestResponse(i) ==
    IF attacks[i].results = <<>> THEN "empty" ELSE Last(attacks[i].results)

\* build_target_messages: every earlier turn with its answer, unless that is
\* empty, and the prompt of the current one.
Answered(i) == LatestResponse(i) # "empty"
TargetMessages(i) ==
    LET Turn(j) == IF j # i /\ Answered(j)
                   THEN <<[role |-> "user", turn |-> j],
                          [role |-> "assistant", turn |-> j]>>
                   ELSE <<[role |-> "user", turn |-> j]>>
        line == Lineage(i)
    IN  FlattenSeq([k \in DOMAIN line |-> Turn(line[k])])

-----------------------------------------------------------------------------
(* The memory: which attacks retrieve_similar_attacks ranks. *)

Successful(i) == i \in Found
Retrievable(wanted, strategy) ==
    {i \in Ids : /\ wanted = "successful" => Successful(i)
                 /\ wanted = "failed" => ~Successful(i)
                 /\ attacks[i].name = strategy}

\* What is retrieved for a mutation: the attacker's successful prior lines.
PriorLines == Retrievable("successful", run.strategy)

-----------------------------------------------------------------------------
(* The responses of a finding that its readers see. *)

VerifierResponse(i) ==
    IF attacks[i].results = <<>> THEN "empty" ELSE Head(attacks[i].results)
ListedResponse(i) == VerifierResponse(i)
DetailResponse(i) == LatestResponse(i)

-----------------------------------------------------------------------------
(* The report and the analytics. *)

ReportSeverities == {"CRITICAL", "HIGH", "MEDIUM", "LOW"}
Bucket(severity) == IF severity \in ReportSeverities THEN severity ELSE "LOW"

SeverityCounts ==
    [s \in ReportSeverities |->
        Cardinality({k \in DOMAIN findings : Bucket(findings[k].severity) = s})]

Percent(part, whole) == IF whole = 0 THEN 0 ELSE (part * 100) \div whole

\* strategy_stats: attempts and successes of each name.
Breakdown ==
    LET Named(name) == {i \in Ids : attacks[i].name = name}
    IN  [name \in {attacks[i].name : i \in Ids} |->
            [attempts |-> Cardinality(Named(name)),
             successes |-> Cardinality(Named(name) \cap Found)]]

\* generate_experiment_report counts the attacks that succeeded; _assemble and
\* compute_metrics count the findings.
Report == [attacks |-> Len(attacks), severities |-> SeverityCounts,
           strategies |-> Breakdown,
           rate |-> Percent(Cardinality(Found), Len(attacks))]
Metrics == [vulnerabilities |-> Len(findings), strategies |-> Breakdown,
            rate |-> Percent(Len(findings), Len(attacks))]

-----------------------------------------------------------------------------
(* Properties. *)

\* What the target is sent for a turn is the whole exchange of the round so
\* far, oldest first, each turn followed by the answer that was recorded for
\* it: also when the worker that recorded it is not the one that goes on.
TranscriptComplete ==
    At("execute") =>
        LET sent == TargetMessages(run.current)
            Said(role) == {m.turn : m \in {x \in Range(sent) : x.role = role}}
            Earlier == {i \in Round(run.round) \ {run.current} : Answered(i)}
        IN  /\ Said("user") = Round(run.round)
            /\ Said("assistant") = Earlier
            /\ \A j, k \in DOMAIN sent :
                  j < k => \/ sent[j].turn < sent[k].turn
                           \/ /\ sent[j].turn = sent[k].turn
                              /\ sent[j].role = "user" /\ sent[k].role = "assistant"

\* The lines that a mutation learns from come from earlier rounds: a round
\* that has succeeded is never mutated further.
PriorLinesFromEarlierRounds ==
    At("mutate") => \A i \in PriorLines : attacks[i].round < run.round

\* The verifier, the listing and the detail page each pick a result of their
\* own (.first() unordered, the latest): for a finding they pick the same, and
\* it is an answer.
FindingsHaveEvidence ==
    \A k \in DOMAIN findings :
        LET i == findings[k].attack
        IN  /\ VerifierResponse(i) = "text"
            /\ ListedResponse(i) = DetailResponse(i)
            /\ VerifierResponse(i) = DetailResponse(i)

\* The report and the analytics agree on a campaign (services/metrics.py: "so
\* the analytics API and the benchmark framework agree"; add_finding: "mirroring
\* what both the report service and the analytics endpoint do"), although one
\* counts findings and the other attacks; and the parts add up to the totals.
ReportAgreesWithMetrics ==
    LET Total(f) == MapThenSumSet(LAMBDA x : f[x], DOMAIN f)
        Column(c) == [s \in DOMAIN Breakdown |-> Breakdown[s][c]]
    IN  /\ Report.rate = Metrics.rate /\ Report.rate <= 100
        /\ Total(Column("successes")) = Metrics.vulnerabilities
        /\ Total(Column("attempts")) = Report.attacks
        /\ Total(Report.severities) = Metrics.vulnerabilities
=============================================================================
