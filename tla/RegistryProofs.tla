--------------------------- MODULE RegistryProofs ---------------------------
(***************************************************************************)
(* What the registry computes with a tool call, for every ontology, token, *)
(* tool, catalogue and log: the theorems state for all inputs what         *)
(* RegistryChecks and RoutingChecks evaluate on small ones.                *)
(***************************************************************************)
EXTENDS Registry, FiniteSetTheorems, TLAPS

-----------------------------------------------------------------------------
(* Authorization *)

\* Answers of enforce are told apart by their only field.
LEMMA EnforceAnswers ==
  ASSUME NEW onto, NEW claim, NEW tool, NEW action, NEW args, NEW failClosed
  PROVE  LET out == Enforce(onto, claim, tool, action, args, failClosed)
             denied == DeniedArgs(onto, tool, args, AllowedConcepts(onto, claim.scopes, action))
         IN \/ out \in {Refused, NoGet}
            \/ out = [args |-> args]
            \/ NormalizeAction(action) = "read" /\ out = [args |-> args \ denied]
BY DEF Enforce

\* Neither a refusal nor an exception hands arguments on.
LEMMA NoArguments == "args" \notin DOMAIN Refused /\ "args" \notin DOMAIN NoGet
BY DEF Refused, NoGet

\* SemanticAuthorizationService.enforce hands on no argument it was not given,
\* keeps those that are always safe, and drops some only from reading actions.
THEOREM EnforceDropsOnly ==
  ASSUME NEW onto, NEW claim, NEW tool, NEW action, NEW args, NEW failClosed,
         NEW out, out = Enforce(onto, claim, tool, action, args, failClosed), "args" \in DOMAIN out
  PROVE  /\ out.args \subseteq args /\ args \cap SafeArgKeys \subseteq out.args
         /\ out.args # args => NormalizeAction(action) = "read"
<1>1. PICK denied : denied = DeniedArgs(onto, tool, args, AllowedConcepts(onto, claim.scopes, action))
  OBVIOUS
<1>2. denied \subseteq args \ SafeArgKeys
  BY <1>1 DEF DeniedArgs
<1>3. out = [args |-> args] \/ (NormalizeAction(action) = "read" /\ out = [args |-> args \ denied])
  BY <1>1, EnforceAnswers, NoArguments
<1> QED BY <1>2, <1>3

\* The claims of an EAT.
Eat(tools, limited, scopes, permissions) ==
  [tools |-> tools, limited |-> limited, scopes |-> scopes, permissions |-> permissions]

\* verify_engram_token: what an EAT lets pass once it is narrowed to an active
\* scope, the EAT itself lets pass, with the same arguments; and its list of
\* tools and its permissions only shrink.
THEOREM NarrowingNeverWidens ==
  ASSUME NEW onto, NEW tools, NEW limited \in BOOLEAN, NEW scopes, NEW permissions,
         NEW found, NEW active, NEW tool, NEW action, NEW args, NEW failClosed,
         NEW token, token = Eat(tools, limited, scopes, permissions),
         NEW narrow, narrow = Narrowed(token, found, active),
         NEW out, out = Enforce(onto, narrow, tool, action, args, failClosed)
  PROVE  /\ "args" \in DOMAIN out => out = Enforce(onto, token, tool, action, args, failClosed)
         /\ limited => narrow.limited /\ narrow.tools \subseteq tools
         /\ \A t \in DOMAIN narrow.permissions : t \in DOMAIN permissions /\ narrow.permissions[t] = permissions[t]
<1>1. CASE ~found
  BY <1>1 DEF Narrowed, Eat
<1>2. CASE found
  <2>1. /\ narrow.scopes = scopes /\ narrow.limited = TRUE
        /\ narrow.tools = IF limited THEN tools \cap active ELSE {}
        /\ narrow.permissions = [t \in DOMAIN permissions \cap active |-> permissions[t]]
        /\ token.scopes = scopes /\ token.limited = limited /\ token.tools = tools
    BY <1>2 DEF Narrowed, Eat
  <2>2. "args" \in DOMAIN out => out = Enforce(onto, token, tool, action, args, failClosed)
    <3>1. CASE {tool.name, tool.id} \cap narrow.tools = {}
      BY <2>1, <3>1, NoArguments DEF Enforce
    <3>2. CASE {tool.name, tool.id} \cap narrow.tools # {}
      <4>1. limited /\ {tool.name, tool.id} \cap tools # {}
        BY <2>1, <3>2
      <4> QED BY <2>1, <3>2, <4>1 DEF Enforce
    <3> QED BY <3>1, <3>2
  <2> QED BY <2>1, <2>2
<1> QED BY <1>1, <1>2

-----------------------------------------------------------------------------
(* The catalogue *)

Catalogue(entries, cached, status, slug) ==
  [entries |-> entries, cached |-> cached, status |-> status, slug |-> slug]

LEMMA CatalogueFields ==
  ASSUME NEW entries, NEW cached, NEW status, NEW slug
  PROVE  /\ Catalogue(entries, cached, status, slug).entries = entries
         /\ Catalogue(entries, cached, status, slug).status = status
         /\ Catalogue(entries, cached, status, slug).slug = slug
BY DEF Catalogue

\* promote_submission: of two promotions in a race, of one submission or of two
\* for one slug, only the first takes effect, whatever both had read before;
\* the other's submission keeps its status, and no other entry changes.
THEOREM PromotionTakesEffectOnce ==
  ASSUME NEW entries, NEW cached, NEW status, NEW slug, NEW i \in DOMAIN status, NEW j \in DOMAIN status,
         slug[i] = slug[j], NEW e, NEW f,
         NEW cat, cat = Catalogue(entries, cached, status, slug),
         NEW first, first = Promote(cat, cat, i, e), first # cat
  PROVE  /\ Promote(cat, first, j, f) = first
         /\ Promote(first, first, j, f) = first
         /\ j # i => first.status[j] = status[j]
         /\ \A s \in DOMAIN entries : first.entries[s] = entries[s]
<1>1. PICK entry : entry = [e EXCEPT !.source = "community"]
  OBVIOUS
<1>2. slug[i] \notin DOMAIN entries
  BY DEF Promote, Catalogue
<1>3. first = [PutEntry(cat, slug[i], entry) EXCEPT !.status[i] = "approved"]
  BY <1>1 DEF Promote, Catalogue
<1>4. /\ first.slug = slug /\ first.status = [status EXCEPT ![i] = "approved"]
      /\ DOMAIN first.entries = DOMAIN entries \cup {slug[i]}
      /\ \A s \in DOMAIN entries : first.entries[s] = entries[s]
  <2>1. PICK more : more = [s \in DOMAIN entries \cup {slug[i]} |-> IF s = slug[i] THEN entry ELSE entries[s]]
    OBVIOUS
  <2>2. PutEntry(cat, slug[i], entry) = Catalogue(more, cached, status, slug)
    BY <2>1 DEF PutEntry, Catalogue
  <2>3. first = Catalogue(more, cached, [status EXCEPT ![i] = "approved"], slug)
    BY <1>3, <2>2 DEF Catalogue
  <2>4. first.slug = slug /\ first.status = [status EXCEPT ![i] = "approved"] /\ first.entries = more
    BY <2>3, CatalogueFields
  <2> QED BY <1>2, <2>1, <2>4
<1>5. first.slug[j] \in DOMAIN first.entries
  BY <1>4
<1> QED BY <1>2, <1>4, <1>5 DEF Promote

-----------------------------------------------------------------------------
(* Routing *)

\* The CLI is the cheapest of a tool's backends for texts of any size, as long as
\* what it is expected to print, by default or by the tool's exec_params, is less
\* than 80 tokens above the response expected of the other: the others are
\* charged at least 80 tokens of context overhead, and the CLI none of its own
\* (_estimate_token_cost).
THEOREM CliIsCheapest ==
  ASSUME NEW help \in Nat, NEW schemas \in Nat, NEW task \in Nat, NEW b \in Backends \ {"CLI"}, NEW declared,
         ExpectedTokens("CLI", declared) \in Nat, ExpectedTokens(b, declared) \in Nat,
         ExpectedTokens("CLI", declared) < ExpectedTokens(b, declared) + 80
  PROVE  TokenCost("CLI", help, schemas, task, declared) < TokenCost(b, help, schemas, task, declared)
BY DEF TokenCost, ContextOverhead, Backends

\* A decision of the log.
LoggedRows == [backend: Backends, success: {"open", "yes", "no"}, latency: Nat, recent: BOOLEAN]

LEMMA SamplesFinite ==
  ASSUME NEW log \in Seq(LoggedRows), NEW b
  PROVE  /\ DOMAIN log = 1 .. Len(log) /\ Len(log) \in Nat
         /\ Succeeded(log, b) \subseteq Samples(log, b) /\ IsFiniteSet(Samples(log, b)) /\ IsFiniteSet(Succeeded(log, b))
         /\ Cardinality(Samples(log, b)) \in Nat /\ Cardinality(Succeeded(log, b)) \in Nat
         /\ Cardinality(Succeeded(log, b)) <= Cardinality(Samples(log, b))
         /\ Cardinality(Succeeded(log, b)) = 0 <=> Succeeded(log, b) = {}
<1>1. DOMAIN log = 1 .. Len(log) /\ Len(log) \in Nat
  OBVIOUS
<1>2. IsFiniteSet(1 .. Len(log)) /\ Samples(log, b) \subseteq 1 .. Len(log) /\ Succeeded(log, b) \subseteq Samples(log, b)
  <2>1. IsFiniteSet(1 .. Len(log))
    BY <1>1, FS_Interval
  <2>2. Samples(log, b) \subseteq 1 .. Len(log)
    BY <1>1 DEF Samples
  <2>3. Succeeded(log, b) \subseteq Samples(log, b)
    BY DEF Succeeded
  <2> QED
    BY <2>1, <2>2, <2>3
<1>3. IsFiniteSet(Samples(log, b)) /\ IsFiniteSet(Succeeded(log, b))
  BY <1>2, FS_Subset
<1> QED BY <1>1, <1>2, <1>3, FS_Subset, FS_CardinalityType, FS_EmptySet

\* Rounded down, a share of more is no more, and a larger share no less.
LEMMA ShareOfMore ==
  ASSUME NEW a \in Nat, NEW n \in Nat \ {0} PROVE a \div (n + 1) <= a \div n
<1>1. PICK q, r : q = a \div (n + 1) /\ r = a \div n
  OBVIOUS
<1>2. q \in Nat /\ r \in Nat /\ q * (n + 1) <= a /\ a < r * n + n
  BY <1>1
<1>3. q * n <= q * (n + 1)
  BY <1>2
<1>4. q * n < (r + 1) * n
  BY <1>2, <1>3
<1>5. q < r + 1
  BY <1>2, <1>4
<1> QED BY <1>1, <1>2, <1>5

LEMMA LargerShare ==
  ASSUME NEW a \in Nat, NEW c \in Nat, a <= c, NEW n \in Nat \ {0} PROVE a \div n <= c \div n
<1>1. PICK q, r : q = a \div n /\ r = c \div n
  OBVIOUS
<1>2. q \in Nat /\ r \in Nat /\ q * n <= a /\ c < r * n + n
  BY <1>1
<1>3. q * n < (r + 1) * n
  BY <1>2
<1>4. q < r + 1
  BY <1>2, <1>3
<1> QED BY <1>1, <1>2, <1>4

LEMMA WholeShare == ASSUME NEW s \in Nat, NEW n \in Nat \ {0}, s <= n PROVE (100 * s) \div n \in 0 .. 100
<1>1. (100 * s) \div n <= (100 * n) \div n
  BY LargerShare
<1>2. (100 * n) \div n = 100
  OBVIOUS
<1>3. (100 * s) \div n \in Nat
  OBVIOUS
<1> QED BY <1>1, <1>2, <1>3

LEMMA RateOf ==
  ASSUME NEW log, NEW b, NEW s \in Nat, NEW n, s = Cardinality(Succeeded(log, b)), n = Cardinality(Samples(log, b))
  PROVE  /\ s = 0 => SuccessRate(log, b) = DefaultRate
         /\ s # 0 => SuccessRate(log, b) = (100 * s) \div n
<1>1. SuccessRate(log, b) = AverageOr(100 * s, n, DefaultRate)
  BY DEF SuccessRate
<1>2. s = 0 <=> 100 * s = 0
  OBVIOUS
<1> QED BY <1>1, <1>2, Zenon DEF AverageOr

\* fetch_backend_stats: the success rate is a share, for a log of any length; a
\* backend that has never succeeded has the rate of one that was never tried.
THEOREM RatesAreShares ==
  ASSUME NEW log \in Seq(LoggedRows), NEW b
  PROVE  /\ SuccessRate(log, b) \in 0 .. 100
         /\ Succeeded(log, b) = {} => SuccessRate(log, b) = DefaultRate
<1>1. PICK s, n : s = Cardinality(Succeeded(log, b)) /\ n = Cardinality(Samples(log, b))
  OBVIOUS
<1>2. s \in Nat /\ n \in Nat /\ s <= n /\ (s = 0 <=> Succeeded(log, b) = {})
  BY <1>1, SamplesFinite
<1>3. s = 0 => SuccessRate(log, b) = DefaultRate
  BY <1>1, RateOf
<1>4. s # 0 => SuccessRate(log, b) \in 0 .. 100
  <2>1. s # 0 => SuccessRate(log, b) = (100 * s) \div n
    BY <1>1, <1>2, RateOf
  <2>2. ASSUME s # 0 PROVE (100 * s) \div n \in 0 .. 100
    <3>1. n \in Nat \ {0}
      BY <1>2, <2>2
    <3> QED BY <1>2, <3>1, WholeShare
  <2> QED BY <2>1, <2>2
<1> QED BY <1>2, <1>3, <1>4 DEF DefaultRate

\* log_routing_decision: a decision that is not yet finalised weighs on its
\* backend, as long as some of the backend's succeeded.
THEOREM OpenDecisionsWeigh ==
  ASSUME NEW log \in Seq(LoggedRows), NEW b \in Backends, Succeeded(log, b) # {}
  PROVE  SuccessRate(LogDecision(log, b), b) <= SuccessRate(log, b)
<1>1. PICK longer : longer = LogDecision(log, b)
  OBVIOUS
<1>2. /\ longer \in Seq(LoggedRows) /\ Len(longer) = Len(log) + 1 /\ \A i \in 1 .. Len(log) : longer[i] = log[i]
      /\ longer[Len(log) + 1] = [backend |-> b, success |-> "open", latency |-> 0, recent |-> TRUE]
  BY <1>1 DEF LogDecision, LoggedRows
<1>3. /\ DOMAIN log = 1 .. Len(log) /\ Len(log) \in Nat /\ DOMAIN longer = 1 .. Len(log) + 1
  BY <1>2
<1>4. Samples(longer, b) = Samples(log, b) \cup {Len(log) + 1} /\ Len(log) + 1 \notin Samples(log, b)
  BY <1>2, <1>3 DEF Samples
<1>5. Succeeded(longer, b) = Succeeded(log, b)
  BY <1>2, <1>3, <1>4 DEF Succeeded, Samples
<1>6. Cardinality(Samples(longer, b)) = Cardinality(Samples(log, b)) + 1
  BY <1>4, SamplesFinite, FS_AddElement
<1>7. PICK s, n : s = Cardinality(Succeeded(log, b)) /\ n = Cardinality(Samples(log, b))
  OBVIOUS
<1>8. s \in Nat \ {0} /\ n \in Nat \ {0}
  BY <1>7, SamplesFinite
<1>9. SuccessRate(longer, b) = (100 * s) \div (n + 1) /\ SuccessRate(log, b) = (100 * s) \div n
  BY <1>2, <1>1, <1>5, <1>6, <1>7, <1>8, RateOf
<1>10. 100 * s \in Nat
  BY <1>8
<1> QED BY <1>1, <1>8, <1>9, <1>10, ShareOfMore

\* finalize_routing_decision: once a backend has succeeded, finalising a
\* decision as a success never lowers its rate (the first success may, see
\* FirstSuccessMayLower in RoutingChecks).
THEOREM SuccessNeverLowers ==
  ASSUME NEW log \in Seq(LoggedRows), NEW b, NEW i, NEW latency, Succeeded(log, b) # {}
  PROVE  SuccessRate(Finalize(log, i, "yes", latency), b) >= SuccessRate(log, b)
<1>1. PICK new : new = Finalize(log, i, "yes", latency)
  OBVIOUS
<1>2. /\ DOMAIN new = DOMAIN log
      /\ \A j \in DOMAIN log : new[j].backend = log[j].backend /\ new[j].recent = log[j].recent
      /\ \A j \in DOMAIN log : log[j].success = "yes" => new[j].success = "yes"
  <2>0. \A j \in DOMAIN log : log[j] \in LoggedRows
    OBVIOUS
  <2>1. CASE i \notin DOMAIN log
    BY <1>1, <2>1 DEF Finalize
  <2>2. CASE i \in DOMAIN log
    <3>1. new = [log EXCEPT ![i] = [log[i] EXCEPT !.success = "yes", !.latency = latency]]
      BY <1>1, <2>2 DEF Finalize
    <3>2. \A j \in DOMAIN log \ {i} : new[j] = log[j]
      BY <3>1
    <3>3. new[i].backend = log[i].backend /\ new[i].recent = log[i].recent /\ new[i].success = "yes"
      BY <2>0, <2>2, <3>1 DEF LoggedRows
    <3> QED BY <3>1, <3>2, <3>3
  <2> QED BY <2>1, <2>2
<1>3. Samples(new, b) = Samples(log, b) /\ Succeeded(log, b) \subseteq Succeeded(new, b)
  BY <1>2 DEF Samples, Succeeded
<1>4. /\ Succeeded(new, b) \subseteq Samples(log, b) /\ IsFiniteSet(Samples(log, b)) /\ IsFiniteSet(Succeeded(new, b))
  BY <1>3, SamplesFinite, FS_Subset DEF Succeeded
<1>5. PICK s, t, n : /\ s = Cardinality(Succeeded(log, b)) /\ t = Cardinality(Succeeded(new, b))
                     /\ n = Cardinality(Samples(log, b))
  OBVIOUS
<1>6. s \in Nat \ {0} /\ t \in Nat /\ n \in Nat \ {0} /\ s <= t
  BY <1>3, <1>4, <1>5, SamplesFinite, FS_Subset, FS_CardinalityType
<1>7. SuccessRate(new, b) = (100 * t) \div n /\ SuccessRate(log, b) = (100 * s) \div n
  BY <1>3, <1>5, <1>6, RateOf
<1>8. 100 * s \in Nat /\ 100 * t \in Nat /\ 100 * s <= 100 * t
  BY <1>6
<1>9. (100 * s) \div n <= (100 * t) \div n
  BY <1>6, <1>8, LargerShare
<1>10. (100 * s) \div n \in Int /\ (100 * t) \div n \in Int
  BY <1>6, <1>8
<1> QED BY <1>1, <1>7, <1>9, <1>10

\* mcp.call_tool: a call leaves the log as it was, or adds to it one decision
\* that it has finalised, as a success only if the answer is a result; what an
\* active scope has decided leaves no trace.
THEOREM CallsFinaliseTheirDecision ==
  ASSUME NEW log \in Seq(LoggedRows), NEW active, NEW tool, NEW loaded, NEW decision \in Backends, NEW run,
         NEW out, out = CallTool(log, active, tool, loaded, decision, run)
  PROVE  \/ out.log = log
         \/ /\ Override(active, tool) = "none"
            /\ Len(out.log) = Len(log) + 1 /\ \A i \in 1 .. Len(log) : out.log[i] = log[i]
            /\ out.log[Len(log) + 1].success = IF out.answer = "result" THEN "yes" ELSE "no"
<1>1. PICK answer : answer = run[Selected(Override(active, tool), decision)]
  OBVIOUS
<1>2. PICK logged : logged = Logged(log, Override(active, tool), decision)
  OBVIOUS
<1>3. \/ out.log = log
      \/ /\ logged # log /\ out.answer = answer
         /\ out.log = Finalize(logged, Len(logged), IF answer = "result" THEN "yes" ELSE "no", 0)
  BY <1>1, <1>2 DEF CallTool
<1>4. ASSUME logged # log
      PROVE  Override(active, tool) = "none" /\ logged = LogDecision(log, decision)
  BY <1>2, <1>4 DEF Logged
<1>5. ASSUME logged = LogDecision(log, decision), NEW success
      PROVE  /\ Len(Finalize(logged, Len(logged), success, 0)) = Len(log) + 1
             /\ \A i \in 1 .. Len(log) : Finalize(logged, Len(logged), success, 0)[i] = log[i]
             /\ Finalize(logged, Len(logged), success, 0)[Len(log) + 1].success = success
  <2>1. /\ logged \in Seq(LoggedRows) /\ Len(logged) = Len(log) + 1 /\ \A i \in 1 .. Len(log) : logged[i] = log[i]
        /\ logged[Len(log) + 1] = [backend |-> decision, success |-> "open", latency |-> 0, recent |-> TRUE]
        /\ Len(log) \in Nat
    BY <1>5 DEF LogDecision, LoggedRows
  <2>2. Len(logged) \in DOMAIN logged /\ DOMAIN logged = 1 .. Len(log) + 1
    BY <2>1
  <2>3. PICK new : new = Finalize(logged, Len(logged), success, 0)
    OBVIOUS
  <2>4. new = [logged EXCEPT ![Len(log) + 1] = [logged[Len(log) + 1] EXCEPT !.success = success, !.latency = 0]]
    BY <2>1, <2>2, <2>3 DEF Finalize
  <2>5. new[Len(log) + 1].success = success /\ \A i \in 1 .. Len(log) : new[i] = log[i]
    BY <2>1, <2>2, <2>4
  <2>6. Len(new) = Len(log) + 1
    BY <2>1, <2>2, <2>4
  <2> QED BY <2>3, <2>5, <2>6
<1> QED BY <1>3, <1>4, <1>5
=============================================================================
