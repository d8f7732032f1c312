---------------------------- MODULE RoutingChecks ----------------------------
(* The routing of tools (ToolRouting) against what it should compute, for    *)
(* every log of at most three decisions and every pair of candidates.        *)
EXTENDS ToolRouting

RoutingRows == [backend: {"CLI", "MCP"}, success: {"open", "yes", "no"}, latency: {0, 300}, recent: BOOLEAN]
RoutingLogs == UNION {[1 .. n -> RoutingRows] : n \in 0 .. 2}
              \cup [1 .. 3 -> [backend: {"CLI"}, success: {"open", "yes", "no"}, latency: {300}, recent: {TRUE}]]

RoutingCandidates == {c \in UNION {[1 .. n -> [backend: Backends, score: 1 .. 3, cost: {50, 100, 200}, rate: {80, 95}]] : n \in 1 .. 2} :
                  \A i, j \in DOMAIN c : i # j => c[i].backend # c[j].backend}

-----------------------------------------------------------------------------

\* Whatever a tool's metadata says it has a backend, and the one it is
\* declared with is among them, if only exec_params says anything at all; a row
\* without makes available_backends fail, whichever columns it has.
ASSUME AlwaysABackend ==
  \A type \in Backends, hints \in SUBSET UNION {Hints[b] : b \in Backends} :
    LET available == AvailableBackends(type, hints) IN
    IF hints \subseteq Columns THEN available = NoBackends
    ELSE \E i \in DOMAIN available : available[i] = type

\* The success rate is the share of all decisions, those not yet finalised
\* included; but a backend that has never succeeded looks as good as one that
\* was never tried (fetch_backend_stats: "avg_success or default").
ASSUME RateIsShare ==
  \A log \in RoutingLogs, b \in Backends :
    IF Succeeded(log, b) = {} THEN SuccessRate(log, b) = DefaultRate
    ELSE SuccessRate(log, b) = (100 * Cardinality(Succeeded(log, b))) \div Cardinality(Samples(log, b))

\* So a success can lower a backend's rate, if it is the first; after that
\* finalising a decision as a success never does.
ASSUME FirstSuccessMayLower ==
  /\ \E log \in RoutingLogs : \E i \in DOMAIN log :
       SuccessRate(Finalize(log, i, "yes", 300), log[i].backend) < SuccessRate(log, log[i].backend)
  /\ \A log \in RoutingLogs, i \in 1 .. 3, b \in Backends :
       Succeeded(log, b) # {} => SuccessRate(Finalize(log, i, "yes", 300), b) >= SuccessRate(log, b)

\* Every decision that is logged weighs on its backend until it is finalised:
\* as long as some succeeded, an open decision lowers the rate or leaves it.
ASSUME OpenDecisionWeighs ==
  \A log \in RoutingLogs, b \in {"CLI", "MCP"} :
    Succeeded(log, b) # {} => SuccessRate(LogDecision(log, b), b) <= SuccessRate(log, b)

\* The predictor is given the oldest five of a backend's ten newest decisions:
\* with six or more, never the newest one (predict_future_metrics).
ASSUME PredictorSeesOldest ==
  \A n \in 0 .. 12 :
    LET log == [i \in 1 .. n |-> [backend |-> "CLI", success |-> "yes", latency |-> i, recent |-> TRUE]]
        seen == PredictorInput(History(log, "CLI"))
    IN /\ n < 5 => seen = <<>>
       /\ \A i \in DOMAIN seen : seen[i].latency <= n - (IF n >= 10 THEN 5 ELSE n - 5)

\* The guardrail: MCP is chosen above the budget only if no CLI candidate is
\* below it; otherwise the choice has the highest score (route_tool_backend_sync).
ASSUME BudgetGuardrail ==
  \A c \in RoutingCandidates :
    LET best == Chosen(c, 100) IN
    /\ c[best].backend = "MCP" /\ c[best].cost > 100 => CheapCli(c, 100) = {}
    /\ c[best].backend # "CLI" => \A i \in DOMAIN c : c[i].score <= c[best].score

\* A second backend is suggested next to an unreliable one that is not clearly
\* better; after the guardrail has overruled the score, next to any unreliable one.
ASSUME ParallelMeansClose ==
  \A c \in RoutingCandidates :
    ParallelSuggested(c, 100, 1) <=>
      /\ Len(c) = 2 /\ c[Chosen(c, 100)].rate < 90
      /\ c[1].score = c[2].score \/ Chosen(c, 100) # Top(c, DOMAIN c)

\* With a forced backend the simulation names a tool that has it, if it is the
\* best scored pair; without, no other pair scores higher (POST /routing/test).
ASSUME SimulationIsBest ==
  \A c, d \in {x \in RoutingCandidates : Len(x) = 1}, force \in Backends \cup {"none"} :
    LET t == BestTool(<<c, d>>, 100, force) IN
    \A u \in 1 .. 2 : <<c, d>>[u][1].score <= <<c, d>>[t][1].score

\* The CLI is the cheapest of a tool's backends, for every size of its texts, if
\* the tool declares no expectation, or one that keeps its output within 80
\* tokens of the response; an expectation can make it the dearest.
RoutingDeclared == UNION {[S -> {0, 200, 900}] : S \in SUBSET {"expected_output_tokens", "expected_response_tokens"}}
ASSUME CliCheapest ==
  \A help \in {0, 100, 1000}, schemas \in {0, 100, 1000}, task \in {0, 50, 500}, d \in RoutingDeclared :
    \A b \in Backends \ {"CLI"} :
      /\ ExpectedTokens("CLI", d) < ExpectedTokens(b, d) + 80 =>
           TokenCost("CLI", help, schemas, task, d) < TokenCost(b, help, schemas, task, d)
      /\ DOMAIN d = {} => ExpectedTokens("CLI", d) < ExpectedTokens(b, d)
      /\ \E dear \in RoutingDeclared :
           TokenCost("CLI", help, 0, task, dear) > TokenCost(b, help, 0, task, dear)
=============================================================================
