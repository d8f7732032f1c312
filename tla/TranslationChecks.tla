-------------------------- MODULE TranslationChecks --------------------------
(* Translation, semantic mapping and hand-off against what they should         *)
(* compute, over small messages, version graphs, ontologies and protocols.     *)
EXTENDS HandOff
LOCAL INSTANCE SequencesExt
LOCAL INSTANCE FiniteSetsExt

-----------------------------------------------------------------------------
(* Versions *)

Versions == {"1", "2", "3", "4"}
NoRules == [rename |-> <<>>, drop |-> <<>>, set |-> <<>>]
Graphs3 == {d \in [1 .. 3 -> [from: {"1", "2", "3"}, to: {"2", "3", "4"}, rules: {NoRules}]] :
              \A i, j \in 1 .. 3 : i # j => <<d[i].from, d[i].to>> # <<d[j].from, d[j].to>>}
DeltaPaths(d, from, to) ==
  {p \in UNION {[1 .. n -> Versions] : n \in 1 .. 4} :
     p[1] = from /\ Last(p) = to /\ \A i \in 1 .. Len(p) - 1 : \E e \in ToSet(d) : e.from = p[i] /\ e.to = p[i + 1]}

\* The deltas applied are a path of them, no other has fewer, and there is one
\* whenever the versions are connected (_find_version_path).
ASSUME DeltaPathShortest ==
  \A d \in Graphs3, from \in {"1", "2"} :
    LET found == FindVersionPath(d, from, "4")
        all == DeltaPaths(d, from, "4")
    IN IF all = {} THEN found = <<>> ELSE found \in all /\ \A p \in all : Len(found) <= Len(p)

Dict(pairs) == FoldLeft(LAMBDA d, p : PutKey(d, p[1], p[2]), EmptyDict, pairs)
Versioned == {Dict(<<<<"a", Leaf("x")>>, <<"version", Leaf("1")>>>>),
              Dict(<<<<"meta", Dict(<<<<"version", Leaf("1")>>, <<"a", Leaf("y")>>>>)>>, <<"a", Leaf("x")>>>>),
              Dict(<<<<"version", Leaf("1")>>, <<"meta", Dict(<<<<"version", Leaf("3")>>>>)>>>>)}
PathsInside == {<<"a">>, <<"b">>, <<"meta", "a">>, <<"version">>, <<"meta">>, <<"protocol_version">>}
DeltaRules == [rename: {<<>>} \cup {<<<<p, q>>>> : p, q \in PathsInside}, drop: {<<>>} \cup {<<p>> : p \in PathsInside},
               set: {<<>>, <<<<<<"b">>, Leaf("z")>>>>}]
OneDelta(r) == <<[from |-> "1", to |-> "2", rules |-> r]>>
TouchesVersion(r) ==
  LET touched == {r.rename[i][j] : i \in DOMAIN r.rename, j \in {1, 2}} \cup ToSet(r.drop)
  IN touched \cap {<<"version">>, <<"meta">>, <<"protocol_version">>} # {}

\* A message that was upgraded carries the expected version where it is looked
\* for, and a second translation leaves it alone: provided the rules leave the
\* fields alone that carry versions.
ASSUME UpgradedIsExpected ==
  \A n \in Versioned, r \in {x \in DeltaRules : ~TouchesVersion(x)} :
    LET m == ApplyVersionDeltas(OneDelta(r), n, "2") IN Version(m) = "2" /\ ApplyVersionDeltas(OneDelta(r), m, "2") = m

\* They need not: a rule that moves a field to where versions are looked for
\* first makes the upgraded message carry another version than the expected
\* one, so it is upgraded again, or refused, the next time.
ASSUME RulesMayHideVersion ==
  \E n \in Versioned, r \in DeltaRules : Version(ApplyVersionDeltas(OneDelta(r), n, "2")) # "2"

\* A renamed field is nowhere lost: what was at the old path is at the new one
\* unless one path runs through the other (_apply_delta_rules).
ASSUME RenameMoves ==
  \A n \in Versioned, p, q \in PathsInside :
    (GetByPath(n, p) # Missing /\ ~IsPrefix(p, q) /\ ~IsPrefix(q, p))
      => LET m == Rename(n, <<p, q>>) IN GetByPath(m, q) = GetByPath(n, p) /\ GetByPath(m, p) = Missing

-----------------------------------------------------------------------------
(* A2A to MCP *)

A2AKeys == {"protocol", "payload", "data", "coord", "data_bundle", "id"}
Messages(keys) == UNION {{Dict([i \in 1 .. n |-> <<ks[i], IF ks[i] = "data" THEN Dict(<<<<"task", Leaf(i)>>>>) ELSE Leaf(i)>>]) :
                           ks \in {k \in [1 .. n -> keys] : \A i, j \in 1 .. n : i # j => k[i] # k[j]}} : n \in 0 .. 3}
Renamed(k) == CASE k = "payload" -> "data_bundle" [] k = "data" -> "coord" [] OTHER -> k

\* Each field but "protocol" arrives, under its new name; two that get the same
\* name are the only ones that can be lost, and then the later one stays
\* (_translate_a2a_to_mcp).
ASSUME FieldsArrive ==
  \A n \in Messages(A2AKeys) :
    LET out == A2AToMcp(n) IN
    /\ DOMAIN out.dict = {Renamed(k) : k \in DOMAIN n.dict \ {"protocol"}}
    /\ \A i \in DOMAIN n.order :
         (n.order[i] # "protocol" /\ \A j \in i + 1 .. Len(n.order) : Renamed(n.order[j]) # Renamed(n.order[i]))
           => out.dict[Renamed(n.order[i])] = IF n.order[i] = "data" THEN n.dict["data"].dict["task"] ELSE n.dict[n.order[i]]

-----------------------------------------------------------------------------
(* Semantic mapping *)

\* The namespaces hold each other's words for mail and user; "slack_id" is a
\* word of A2A without an equivalent.
Onto == LET c == [mail |-> <<"A2A", "mail">>, email |-> <<"MCP", "email">>, user |-> <<"BASE", "user">>,
                  handle |-> <<"A2A", "handle">>, slack |-> <<"A2A", "slack_id">>]
        IN [order |-> <<c.mail, c.email, c.user, c.handle, c.slack>>,
            eq |-> [x \in {c.mail, c.email, c.user, c.handle, c.slack} |->
                      IF x = c.mail THEN <<c.email>> ELSE IF x = c.handle THEN <<c.user>> ELSE IF x = c.user THEN <<c.handle>> ELSE <<>>],
            mentions |-> {<<"slack_id", "SLACK">>, <<"slack_ts", "SLACK">>}]
FieldNames == {"mail", "handle", "slack_id", "slack_ts", "other"}
Payloads == {Dict(<<<<a, Leaf(1)>>, <<"sub", Dict(<<<<b, Leaf(2)>>>>)>>>>) : a, b \in FieldNames}

\* An equivalence is found from both of its ends.
ASSUME EquivalentBothWays ==
  /\ ResolveEquivalent(Onto, "mail", "A2A") = [kind |-> "found", protocol |-> "MCP", name |-> "email"]
  /\ ResolveEquivalent(Onto, "email", "MCP") = [kind |-> "found", protocol |-> "A2A", name |-> "mail"]

\* No value is lost on the way to a protocol unless two fields end up under one
\* name (DataSiloResolver).
ASSUME ValuesKept ==
  \A n \in Payloads, target \in {"MCP", "SLACK"} :
    LET out == DataSiloResolver(Onto, n, "A2A", target, NoFields)
        keys == {TargetKey(Onto, f[1], "A2A", target, NoFields) : f \in ToSet(Flatten(n, <<>>))}
    IN DOMAIN out = keys /\ (Cardinality(keys) = 2 => {out[k] : k \in keys} = {Leaf(1), Leaf(2)})

\* A concept without an equivalent whose name contains the target's loses its
\* path, and one that is not in the ontology becomes the text of the error.
ASSUME ErrorBecomesKey ==
  /\ TargetKey(Onto, <<"sub", "slack_id">>, "A2A", "SLACK", NoFields) = <<"slack_id">>
  /\ TargetKey(Onto, <<"sub", "slack_ts">>, "A2A", "SLACK", NoFields) = <<"the message">>

\* Through the ontology and back a field keeps its name only if the
\* equivalence is declared at both ends: "handle" does, "mail" does not.
NoSimilar == [x \in FieldNames |-> [best |-> "user", score |-> 0]]
ASSUME RoundTrip ==
  /\ FromConcept(Onto, ToConcept(Onto, "handle", "A2A"), "A2A") = "handle"
  /\ FromConcept(Onto, ToConcept(Onto, "mail", "A2A"), "A2A") = "email"
  /\ \A n \in Payloads : {NormalizeToOntology(Onto, n, "A2A", NoSimilar, NoFields)[k] :
       k \in DOMAIN NormalizeToOntology(Onto, n, "A2A", NoSimilar, NoFields)} \subseteq {Leaf(1), Leaf(2)}

\* On the command line no value is dropped: an unknown one goes by position.
ASSUME CliKeepsValues ==
  \A known \in SUBSET {"user", "mail"} :
    LET args == OntologyToCli(<<"user", "other">>, [user |-> 1, other |-> 2], known, [x \in {"other"} |-> "mail"])
    IN {args[i].value : i \in DOMAIN args} = {1, 2} /\ {args[i].name : i \in DOMAIN args} \subseteq known \cup {""}

-----------------------------------------------------------------------------
(* Hand-off *)

Edges == {<<"A2A", "MCP">>, <<"NL", "MCP">>, <<"A2A", "ACP">>, <<"ACP", "MCP">>}
GraphOf(edges, direct) ==
  FoldSet(LAMBDA e, g : AddEdge(g, e[1], e[2], IF e = <<"A2A", "MCP">> THEN direct ELSE 40), EmptyGraph, edges)
FullClaim == [tools |-> {"translator"}, scopes |-> [x \in {"translator"} |-> {<<"*">>}]]
A2AMessage == Dict(<<<<"id", Leaf(1)>>>>)
Results(g, tgt) == HandoffResults(g, FullClaim, A2AMessage, "A2A", tgt, Missing, {}, 0)

\* With the translator's own edges a hand-off to a protocol is the translation.
ASSUME DirectIsTranslation ==
  Results(InitialGraph(Connectors), "MCP") = {[message |-> Translate(<<>>, A2AMessage, "A2A", "MCP", "2", Missing)]}

\* A mapping in the registry that is cheaper than the translator's edge leads
\* the hand-off over a pair nobody can translate: it fails although the direct
\* translation is there; a dearer one does no harm.
ASSUME CheaperDetourFails ==
  \A edges \in SUBSET Edges, direct \in {50, 79, 81, 100} : <<"A2A", "MCP">> \in edges =>
    (Results(GraphOf(edges, direct), "MCP") = {[raised |-> "TranslationError"]}
       <=> ({<<"A2A", "ACP">>, <<"ACP", "MCP">>} \subseteq edges /\ direct > 80))

\* An agent that has gone, or has become slow, keeps the edge it had: the
\* graph only grows, and only the weights of active agents are brought up to
\* date (build_from_registry).
AgentRows == [endpoint: {"agent"}, protocols: {{"MCP"}, {"A2A", "MCP"}}, latency: {0, 9}, rate: {50, 100}, active: BOOLEAN]
ASSUME GraphOnlyGrows ==
  \A a, b \in AgentRows :
    LET before == BuildFromRegistry(InitialGraph({}), {}, {a})
        after == BuildFromRegistry(before, {}, {b})
    IN /\ DOMAIN before.weight \subseteq DOMAIN after.weight
       /\ ~b.active => after = before
       /\ b.active => \A p \in b.protocols : after.weight[<<p, "agent">>] = AgentWeight(b)

\* Nothing is handed off without a token that names the target, or the
\* translator with a scope that does; every other outcome of a hand-off is
\* one of the documented exceptions.
Claims == {NoClaim} \cup [tools: SUBSET {"translator", "MCP"}, scopes: [{"translator"} -> SUBSET {<<"*">>, <<"MCP">>, <<"NL", "MCP">>}]]
ASSUME OnlyWithClaim ==
  \A claim \in Claims, tgt \in {"MCP", "A2A"} : \A r \in HandoffResults(InitialGraph({}), claim, A2AMessage, "A2A", tgt, Missing, {}, 0) :
    /\ ("message" \in DOMAIN r) => claim # NoClaim /\ ("translator" \in claim.tools \/ tgt \in claim.tools)
    /\ ("raised" \in DOMAIN r) => r.raised \in Raised

\* AUTO means MCP only for a text the resolver understands.
NlTask == [intent |-> "search", tag |-> "web", params |-> Dict(<<<<"q", Leaf("x")>>>>)]
AutoClaim == [tools |-> {"AUTO"}, scopes |-> [x \in {"translator"} |-> {<<"*">>}]]
ASSUME AutoNeedsTask ==
  LET command == Dict(<<<<"command", Leaf("x")>>>>)
      results(claim, task) == HandoffAsyncResults(InitialGraph({}), claim, command, "NL", "AUTO", task, {}, 0)
  IN /\ results(FullClaim, NlTask) = {[message |-> Update(TaskHead(NlTask), NlTask.params)]}
     /\ results(FullClaim, Missing) = {[raised |-> "HandoffRoutingError"]}

-----------------------------------------------------------------------------
(* Connectors *)

Failures == [status: {400, 401, 404, 429, 500, 503}, words: SUBSET Words]

\* What is retried is what the error says may go away, and an error that asks
\* for new credentials is never retried (handle_error).
ASSUME TransientOrAuth ==
  \A e \in Failures :
    /\ HandleError(e).transient <=> HandleError(e).code = "TRANSIENT_TOOL_ERROR"
    /\ e.status \in {429, 503} => HandleError(e).transient
    /\ (e.status = 401 /\ e.words \subseteq {"unauthorized", "expired", "refresh token"}) => HandleError(e).code = "AUTH_FAILURE"

\* So a 401 whose text says "expired" counts as invalid, not as expired: the
\* user is not asked to refresh.
ASSUME ExpiredHidden == HandleError([status |-> 401, words |-> {"expired"}]).type = "InvalidCredentialsError"

\* OpenClaw never answers; without a key the others succeed whatever happens.
Remotes == {[ok |-> b] : b \in BOOLEAN} \cup {[raised |-> [status |-> s, words |-> {}]] : s \in {404, 503}}
ASSUME CallOutcomes ==
  /\ \A key \in BOOLEAN, r \in Remotes : Execute("OPENCLAW", NoFields, key, r).status = "error"
  /\ \A c \in Connectors \ {"OPENCLAW"}, r \in Remotes : Execute(c, NoFields, FALSE, r).status = "success"
  /\ \A c \in {"CLAUDE", "PERPLEXITY"}, r \in {x \in Remotes : "ok" \in DOMAIN x} : Execute(c, NoFields, TRUE, r).status = "success"

\* A nested payload is flattened before the request is made, so the
\* Hypothetical connector never finds one.
ASSUME NestedPayloadLost ==
  LET task == Reconciled(Onto, Dict(<<<<"payload", Dict(<<<<"x", Leaf(1)>>>>)>>, <<"coord", Leaf("run")>>>>), "HYPOTHETICAL")
  IN Hypothetical(task).request = [action |-> Leaf("run"), params |-> EmptyDict]

\* In a workflow each step sees what all steps before it have put out; it ends
\* at the first that fails.  A refusal reports the steps done, an exception
\* reports none of them (_execute_workflow).
ASSUME WorkflowContext ==
  \A remotes \in UNION {[1 .. n -> Remotes] : n \in 0 .. 3}, c \in {"CLAUDE", "PERPLEXITY", "SLACK"} :
    LET r == Workflow(c, TRUE, remotes, {"id"}, <<>>) IN
    /\ "seen" \in DOMAIN r => \A i \in 2 .. Len(r.seen) :
         r.seen[i - 1] \subseteq r.seen[i] /\ Connector(c, NoFields, TRUE, [ok |-> TRUE]).fields \subseteq r.seen[i]
    /\ r.status = "success" <=> \A i \in DOMAIN remotes : Execute(c, NoFields, TRUE, remotes[i]).status = "success"
    /\ "history" \in DOMAIN r <=> \A i \in DOMAIN remotes :
         "raised" \in DOMAIN remotes[i] => \E j \in 1 .. i - 1 : Execute(c, NoFields, TRUE, remotes[j]).status = "error"
=============================================================================
