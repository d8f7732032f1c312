----------------------------- MODULE ToolRouting -----------------------------
(***************************************************************************)
(* The choice of a tool's backend (app/services/tool_routing.py), the log  *)
(* of decisions it learns from, and the simulation of POST /routing/test   *)
(* (app/api/v1/routing.py).                                                *)
(*                                                                         *)
(* Similarities, weighted scores and the load predictor's factors are real *)
(* numbers the model takes as given: a candidate comes with its composite  *)
(* score.  Rates are in per cent, costs in tokens.                         *)
(***************************************************************************)
EXTENDS Integers, Sequences, FiniteSets

Backends == {"CLI", "MCP", "HTTP"}

DefaultRate == 98          \* _DEFAULT_BACKEND_STATS.success_rate
DefaultLatency == 400      \* _DEFAULT_BACKEND_STATS.latency_ms

LOCAL Most(a, b) == IF a >= b THEN a ELSE b
LOCAL Least(a, b) == IF a <= b THEN a ELSE b

-----------------------------------------------------------------------------
(* available_backends *)

\* What in the execution metadata makes a backend available, next to its type:
\* two columns of the row, and keys of its exec_params.
Columns == {"cli_wrapper", "docker_image"}
Hints == [CLI  |-> Columns \cup {"params.cli_wrapper", "cli_command"},
          MCP  |-> {"mcp", "mcp_endpoint", "mcp_server"},
          HTTP |-> {"openapi_spec", "endpoint_url", "graphql_url"}]

NoBackends == <<"AttributeError">>

\* hints: the columns that are set and the keys of exec_params.  Without any key
\* _exec_params falls back on the row's metadata attribute, which is the ORM's
\* catalogue of tables and has no get; whatever the type, one of the three tests
\* comes to it.
AvailableBackends(type, hints) ==
  IF hints \subseteq Columns THEN NoBackends
  ELSE SelectSeq(<<"CLI", "MCP", "HTTP">>, LAMBDA b : type = b \/ hints \cap Hints[b] # {})

-----------------------------------------------------------------------------
(* Estimates *)

EstimateTokens(length) == IF length = 0 THEN 0 ELSE Most(1, length \div 4)

\* help, schemas: tokens of the CLI's help text and of all schemas together.
ContextOverhead(backend, help, schemas, task) ==
  IF backend = "CLI" THEN Most(10, (help * 15) \div 100) ELSE Most(80, schemas - task)

\* What the backend is expected to answer: declared holds what exec_params says
\* of it, tokens by key.
LOCAL DeclaredOr(declared, key, default) == IF key \in DOMAIN declared THEN declared[key] ELSE default

ExpectedTokens(backend, declared) ==
  CASE backend = "CLI"  -> DeclaredOr(declared, "expected_output_tokens", 120)
    [] backend = "HTTP" -> DeclaredOr(declared, "expected_response_tokens", 350)
    [] OTHER            -> DeclaredOr(declared, "expected_response_tokens", 400)

\* The CLI's context overhead is not part of its cost.
TokenCost(backend, help, schemas, task, declared) ==
  task + ExpectedTokens(backend, declared)
       + (IF backend = "CLI" THEN 0 ELSE ContextOverhead(backend, help, schemas, task))

\* Terms in the task's text, a tag adding one; in tenths.
Preference(backend, cliTerms, mcpTerms, cliTag, mcpTag) ==
  LET cli == cliTerms + (IF cliTag THEN 1 ELSE 0)
      mcp == mcpTerms + (IF mcpTag THEN 1 ELSE 0)
      score == IF backend = "CLI" THEN 2 * cli - mcp ELSE 2 * mcp - cli
  IN Most(-10, Least(10, score))

-----------------------------------------------------------------------------
(* The decision log: a sequence of [backend, success, latency, recent],    *)
(* oldest first.  success is "open" until finalize_routing_decision.       *)

\* log_routing_decision is committed before the tool is called ...
LogDecision(log, backend) == Append(log, [backend |-> backend, success |-> "open", latency |-> 0, recent |-> TRUE])

\* ... finalize_routing_decision in another transaction after it, if the
\* server gets there.
Finalize(log, i, success, latency) ==
  IF i \in DOMAIN log THEN [log EXCEPT ![i].success = success, ![i].latency = latency] ELSE log

Samples(log, backend) == {i \in DOMAIN log : log[i].backend = backend /\ log[i].recent}
Succeeded(log, backend) == {i \in Samples(log, backend) : log[i].success = "yes"}
Timed(log, backend) == {i \in Samples(log, backend) : log[i].success # "open"}

SumLatency(log, S) ==
  LET sum[i \in 0 .. Len(log)] == IF i = 0 THEN 0 ELSE sum[i - 1] + (IF i \in S THEN log[i].latency ELSE 0)
  IN sum[Len(log)]

\* fetch_backend_stats: "or" takes an average of zero for a missing one; here
\* the others are rounded down.
AverageOr(sum, count, default) == IF sum = 0 THEN default ELSE sum \div count

SuccessRate(log, backend) ==
  AverageOr(100 * Cardinality(Succeeded(log, backend)), Cardinality(Samples(log, backend)), DefaultRate)

Latency(log, backend) ==
  AverageOr(SumLatency(log, Timed(log, backend)), Cardinality(Timed(log, backend)), DefaultLatency)

\* The history of a backend for the predictor: its ten newest rows, newest
\* first, of any age.
History(log, backend) ==
  LET mine == SelectSeq(log, LAMBDA d : d.backend = backend)
      n == Len(mine)
  IN [i \in 1 .. Least(10, n) |-> mine[n + 1 - i]]

\* predict_future_metrics looks at history[-5:], the oldest of those.
PredictorInput(history) ==
  IF Len(history) < 5 THEN <<>> ELSE SubSeq(history, Len(history) - 4, Len(history))

-----------------------------------------------------------------------------
(* route_tool_backend_sync.  A candidate is [backend, score, cost, rate].  *)

\* Python's sort is stable: of equal scores the first stays first.
Top(c, S) == CHOOSE i \in S : \A j \in S \ {i} : c[i].score > c[j].score \/ (c[i].score = c[j].score /\ i < j)

CheapCli(c, limit) == {i \in DOMAIN c : c[i].backend = "CLI" /\ c[i].cost < limit}

\* The budget guardrail.
Chosen(c, limit) ==
  LET best == Top(c, DOMAIN c) IN
  IF c[best].backend = "MCP" /\ c[best].cost > limit /\ CheapCli(c, limit) # {}
  THEN CHOOSE i \in CheapCli(c, limit) : TRUE ELSE best

\* The runner-up is the second by score, whichever the guardrail has chosen.
ParallelSuggested(c, limit, confidence) ==
  /\ Len(c) > 1
  /\ LET second == Top(c, DOMAIN c \ {Top(c, DOMAIN c)}) IN
       c[Chosen(c, limit)].score - c[second].score < confidence
  /\ c[Chosen(c, limit)].rate < 90

Decision(c, type, limit) == IF c = <<>> THEN type ELSE c[Chosen(c, limit)].backend

-----------------------------------------------------------------------------
(* call_mcp_tool: the decision cached in an active scope comes first, and  *)
(* is not logged.                                                          *)

Selected(override, decision) == IF override # "none" THEN override ELSE decision
Logged(log, override, decision) == IF override # "none" THEN log ELSE LogDecision(log, decision)

-----------------------------------------------------------------------------
(* POST /routing/test: every tool is routed, the pair with the highest     *)
(* score wins, the first one of equals.  tools is a sequence of candidate  *)
(* sequences; force is a backend, or "none".                               *)

TestChoice(c, limit, force) ==
  IF \E i \in DOMAIN c : c[i].backend = force THEN CHOOSE i \in DOMAIN c : c[i].backend = force
  ELSE Chosen(c, limit)

BestTool(tools, limit, force) ==
  LET routed == {t \in DOMAIN tools : tools[t] # <<>>}
      score(t) == tools[t][TestChoice(tools[t], limit, force)].score
  IN CHOOSE t \in routed : \A u \in routed \ {t} : score(t) > score(u) \/ (score(t) = score(u) /\ t < u)
=============================================================================
