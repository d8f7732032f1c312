------------------------------ MODULE HandOff ------------------------------
(***************************************************************************)
(* Orchestrator and ProtocolGraph (app/messaging/orchestrator.py) and the  *)
(* tool connectors (app/messaging/connectors/): a message is handed off to *)
(* a tool's connector, or translated hop by hop along a lightest path.     *)
(*                                                                         *)
(* A graph is [nodes |-> set, weight |-> edge <<u, v>> -> weight]; weights *)
(* are in hundredths.  A claim is what a verified access token (EAT) says: *)
(* [tools |-> allowed tools, scopes |-> tool -> set of scopes].  Error     *)
(* results are values, as in the code; an exception that leaves the        *)
(* orchestrator is one of Raised, whatever its class in detail.            *)
(***************************************************************************)
EXTENDS SemanticMapper
LOCAL INSTANCE SequencesExt
LOCAL INSTANCE FiniteSetsExt

Raised == {"HandoffAuthorizationError", "HandoffRoutingError", "TranslationError"}

-----------------------------------------------------------------------------
(* ProtocolGraph *)

EmptyGraph == [nodes |-> {}, weight |-> [e \in {} |-> 0]]
AddProtocol(g, p) == [g EXCEPT !.nodes = @ \cup {p}]
AddEdge(g, u, v, w) ==
  [nodes |-> g.nodes \cup {u, v},
   weight |-> [e \in DOMAIN g.weight \cup {<<u, v>>} |-> IF e = <<u, v>> THEN w ELSE g.weight[e]]]

\* protocol_graph: the translator's pairs and the connectors' names
InitialGraph(connectors) ==
  FoldSet(LAMBDA c, g : AddProtocol(g, c), FoldSet(LAMBDA p, g : AddEdge(g, p[1], p[2], 100), EmptyGraph, SupportedPairs),
          connectors)

\* 1.0, 0.1 a second of latency, 5.0 for every 10 % of failures (rate in %)
AgentWeight(agent) == 100 + 10 * agent.latency + 50 * (100 - agent.rate)

\* build_from_registry: every mapping [from, to, weight] and every protocol of
\* every active agent; what the graph has already is kept.
BuildFromRegistry(g, mappings, agents) ==
  LET mapped == FoldSet(LAMBDA m, h : AddEdge(h, m.from, m.to, m.weight), g, mappings)
      OfAgent(a, h) == FoldSet(LAMBDA p, k : AddEdge(k, p, a.endpoint, AgentWeight(a)), AddProtocol(h, a.endpoint), a.protocols)
  IN FoldSet(OfAgent, mapped, {a \in agents : a.active})

\* The simple paths to tgt that begin with p
RECURSIVE Extensions(_, _, _)
Extensions(g, p, tgt) ==
  IF Last(p) = tgt THEN {p}
  ELSE UNION {Extensions(g, Append(p, v), tgt) : v \in {u \in g.nodes \ ToSet(p) : <<Last(p), u>> \in DOMAIN g.weight}}

Paths(g, src, tgt) == Extensions(g, <<src>>, tgt)

Weight(g, p) == FoldLeft(LAMBDA sum, i : sum + g.weight[<<p[i], p[i + 1]>>], 0, [i \in 1 .. Len(p) - 1 |-> i])

\* find_shortest_path: any of the lightest ones; empty for HandoffRoutingError
LightestPaths(g, src, tgt) ==
  IF {src, tgt} \subseteq g.nodes
  THEN {p \in Paths(g, src, tgt) : \A q \in Paths(g, src, tgt) : Weight(g, p) <= Weight(g, q)}
  ELSE {}

-----------------------------------------------------------------------------
(* _verify_eat_authorization; NoClaim for a token that is missing or fails *)
(* its verification.  Scopes of the translator are a target or a pair.     *)

NoClaim == [missing |-> TRUE]
EatAuthorizes(claim, src, tgt) ==
  /\ claim # NoClaim
  /\ \/ /\ "translator" \in claim.tools
        /\ "translator" \in DOMAIN claim.scopes
        /\ claim.scopes["translator"] \cap {<<"*">>, <<tgt>>, <<src, tgt>>} # {}
     \/ tgt \in claim.tools \cup DOMAIN claim.scopes

-----------------------------------------------------------------------------
(* BaseConnector.  A failed call is [status |-> HTTP status or 500, words  *)
(* |-> which of the words below, or of their synonyms, its text contains]. *)

Words == {"timeout", "rate limit", "connection", "unauthorized", "expired", "refresh token"}

\* handle_error
HandleError(e) ==
  LET result(code, type, transient) == [status |-> "error", code |-> code, type |-> type, transient |-> transient] IN
  IF e.status = 429 \/ "rate limit" \in e.words THEN result("TRANSIENT_TOOL_ERROR", "RateLimitError", TRUE)
  ELSE IF e.status \in {502, 503, 504} \/ e.words \cap {"timeout", "connection"} # {}
  THEN result("TRANSIENT_TOOL_ERROR", "NetworkError", TRUE)
  ELSE IF e.status = 401 \/ "unauthorized" \in e.words THEN result("AUTH_FAILURE", "InvalidCredentialsError", FALSE)
  ELSE IF e.words \cap {"expired", "refresh token"} # {} THEN result("AUTH_FAILURE", "ExpiredTokenError", FALSE)
  ELSE IF e.status \in 400 .. 499 THEN result("BAD_TOOL_REQUEST", "Exception", FALSE)
  ELSE result("TOOL_EXECUTION_FAILURE", "Exception", FALSE)

Connectors == {"CLAUDE", "PERPLEXITY", "SLACK", "OPENCLAW", "HYPOTHETICAL"}

FieldOr(task, k, default) == IF <<k>> \in DOMAIN task THEN task[<<k>>] ELSE default
Prompt(task) == FieldOr(task, "content", FieldOr(task, "coord", Leaf("")))

\* Without a key the connectors of remote services answer themselves.
Answered(key, remote) == IF key THEN remote ELSE [ok |-> TRUE]

\* What each connector makes of a reconciled (flat) task: the request, the
\* answer to it, and the result: whether it says that it failed, and the
\* fields of its payload.  key says whether the connector has a key, remote
\* what the service would answer.
Claude(task, key, remote) ==
  [request |-> [prompt |-> Prompt(task)], answer |-> Answered(key, remote),
   failed |-> FALSE, fields |-> {"coord", "content", "usage"}]

Perplexity(task, key, remote) ==
  [request |-> [prompt |-> Prompt(task)], answer |-> Answered(key, remote),
   failed |-> FALSE, fields |-> {"coord", "content", "citations"}]

Slack(task, key, remote) ==
  LET answer == Answered(key, remote) IN
  [request |-> [prompt |-> Prompt(task), channel |-> FieldOr(task, "channel", Leaf("#general"))], answer |-> answer,
   failed |-> "ok" \in DOMAIN answer /\ ~answer.ok, fields |-> {"coord", "ok", "timestamp", "error"}]

\* execute passes three arguments and this call_tool takes one: the call never
\* starts.
OpenClaw(task) ==
  [request |-> [payload |-> task], answer |-> [raised |-> [status |-> 500, words |-> {}]],
   failed |-> FALSE, fields |-> {}]

Hypothetical(task) ==
  [request |-> [action |-> FieldOr(task, "coord", Leaf("execute")), params |-> FieldOr(task, "payload", EmptyDict)],
   answer |-> [ok |-> TRUE], failed |-> FALSE, fields |-> {"coord", "result", "msg"}]

Connector(name, task, key, remote) ==
  CASE name = "CLAUDE" -> Claude(task, key, remote)
    [] name = "PERPLEXITY" -> Perplexity(task, key, remote)
    [] name = "SLACK" -> Slack(task, key, remote)
    [] name = "OPENCLAW" -> OpenClaw(task)
    [] name = "HYPOTHETICAL" -> Hypothetical(task)

\* get_active_token: the user's own token, or the server's; a failure to read
\* the user's is passed over.
HasKeyFor(own, default) == own = "present" \/ default

\* One call, from reconciled task to result
Execute(name, task, key, remote) ==
  LET c == Connector(name, task, key, remote) IN
  IF "raised" \in DOMAIN c.answer THEN HandleError(c.answer.raised)
  ELSE [status |-> IF c.failed THEN "error" ELSE "success", fields |-> c.fields]

\* _execute_workflow over the remote answers of its steps: seen[i] are the
\* fields step i starts with, beside its own.
RECURSIVE Workflow(_, _, _, _, _)
Workflow(name, key, remotes, context, seen) ==
  LET i == Len(seen) + 1 IN
  IF i > Len(remotes) THEN [status |-> "success", history |-> Len(seen), seen |-> seen]
  ELSE LET result == Execute(name, NoFields, key, remotes[i])
           done == Append(seen, context)
       IN IF "code" \in DOMAIN result THEN result
          ELSE IF result.status # "success" THEN [status |-> "error", history |-> Len(seen), seen |-> done]
          ELSE Workflow(name, key, remotes, context \cup result.fields, done)

\* execute: a message that cannot be translated goes on as it is; a message
\* the mapper cannot reconcile, too.
Normalized(n, protocol, task) ==
  LET m == IF protocol = "MCP" THEN n ELSE Translate(<<>>, n, protocol, "MCP", "2", task) IN IF m = Missing THEN n ELSE m

Reconciled(onto, n, name) == DataSiloResolver(onto, n, "MCP", name, NoFields)

-----------------------------------------------------------------------------
(* Orchestrator.handoff and handoff_async *)

\* The hops along a path; the first that fails ends the hand-off.
RECURSIVE Hops(_, _, _)
Hops(m, path, task) ==
  IF Len(path) = 1 THEN m
  ELSE LET next == Translate(<<>>, m, path[1], path[2], "2", task) IN
       IF next = Missing THEN Missing ELSE Hops(next, Tail(path), task)

\* All results it may have.  connector stands for the result of the target's
\* connector.
HandoffResults(g, claim, n, src, tgt, task, connectors, connector) ==
  IF ~EatAuthorizes(claim, src, tgt) THEN {[raised |-> "HandoffAuthorizationError"]}
  ELSE IF src = tgt THEN {[message |-> n]}
  ELSE IF tgt \in connectors THEN {[result |-> connector]}
  ELSE IF LightestPaths(g, src, tgt) = {} THEN {[raised |-> "HandoffRoutingError"]}
  ELSE {LET m == Hops(n, p, task) IN IF m = Missing THEN [raised |-> "TranslationError"] ELSE [message |-> m] :
          p \in LightestPaths(g, src, tgt)}

\* handoff_async: a connector is called at once; text is resolved to a task
\* first, and only then AUTO is given a meaning.
HandoffAsyncResults(g, claim, n, src, tgt, task, connectors, connector) ==
  IF tgt \in connectors
  THEN IF EatAuthorizes(claim, src, tgt) THEN {[result |-> connector]} ELSE {[raised |-> "HandoffAuthorizationError"]}
  ELSE IF src = "NL" /\ task # Missing
  THEN HandoffResults(g, claim, WithMetadata(n, Update(TaskHead(task), task.params)), "NL", IF tgt = "AUTO" THEN "MCP" ELSE tgt,
                      task, connectors, connector)
  ELSE HandoffResults(g, claim, n, src, tgt, task, connectors, connector)
=============================================================================
