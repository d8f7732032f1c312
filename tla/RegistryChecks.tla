--------------------------- MODULE RegistryChecks ---------------------------
(***************************************************************************)
(* What Registry and SemanticAuth compute, over small specifications,      *)
(* catalogues, ontologies and tokens.                                      *)
(***************************************************************************)
EXTENDS Registry

LOCAL Op(m, d, ps) == [method |-> m, dict |-> d, params |-> ps]
LOCAL Ops == {Op("get", TRUE, {}), Op("get", TRUE, {"since"}), Op("post", TRUE, {"x"}), Op("parameters", FALSE, {}), Op("x-note", TRUE, {})}
LOCAL Item(p, e, ms) == [path |-> p, eventful |-> e, methods |-> ms]
LOCAL MethodLists == {<<a>> : a \in Ops} \cup {<<a, b>> : a, b \in Ops}
LOCAL Specs == {[title |-> "api", base |-> b, webhooks |-> w, paths |-> <<Item("p", e, ms), Item("q", FALSE, <<Op("get", TRUE, {})>>)>>] :
                  b \in {"none", "url"}, e \in BOOLEAN, ms \in MethodLists,
                  w \in {<<>>, <<Item("hook", FALSE, <<Op("post", TRUE, {})>>)>>, <<Item("hook", FALSE, <<Op("post", FALSE, {})>>)>>}}

LOCAL Nothing == [s \in {} |-> 0]
LOCAL EmptyCatalog == [entries |-> Nothing, cached |-> {}, status |-> Nothing, slug |-> Nothing]

\* A polled path is one of the tool's actions, and what the catalogue makes of
\* a specification contains what the registry makes of it; the catalogue
\* refuses parameters that are stated for a whole path, the registry does not.
ASSUME IngestionAgrees ==
  \A s \in Specs :
    LET tool == IngestOpenApi(s)
        cat == IngestCatalog(EmptyCatalog, s)
    IN /\ tool # Refusal =>
            /\ \A i \in DOMAIN tool.polls : <<"get", tool.polls[i].path>> \in ToSet(tool.actions)
            /\ "HTTP" \in ToSet(AvailableBackends(tool.type, tool.hints))
       /\ cat # EmptyCatalog => ToSet(Actions(s)) \subseteq ToSet(cat.entries["api"].actions)
       /\ cat = EmptyCatalog <=> \E i \in DOMAIN Operations(s.paths) : ~Operations(s.paths)[i].op.dict

\* A manual tool has the action its own specification would give it, if its
\* method is one of HTTP's; unlike an ingested one it is never polled.
LOCAL Manuals == {[name |-> "t", base |-> "url", path |-> "p", method |-> m, params |-> ps] : m \in {"get", "post", "fetch"}, ps \in {{}, {"since"}}}
ASSUME ManualAgrees ==
  /\ \A d \in Manuals : d.method \in HttpMethods => CreateManualTool(d).actions = Actions(SyntheticSpec(d))
  /\ \E d \in Manuals : CreateManualTool(d).polls # Polls(SyntheticSpec(d))

\* Whatever way a tool came in, there is a backend to call it with.
ASSUME EveryToolCallable ==
  \A t \in {IngestGraphql("u"), IngestUrl("u"), CreateManualTool(CHOOSE d \in Manuals : TRUE)}
             \cup {ExtractFromDocs(w) : w \in SUBSET {"curl", "git"}}
             \cup {WarmTool([name |-> "n", cli |-> c, actions |-> <<>>]) : c \in BOOLEAN}
             \cup {IngestCliHelp("c", [exits0 |-> TRUE, flags |-> f]) : f \in SUBSET {"--watch", "--json"}} :
    AvailableBackends(t.type, t.hints) = <<t.type>>

-----------------------------------------------------------------------------

LOCAL Entry(c) == [category |-> c, source |-> "seed", cli |-> FALSE, name |-> "n", actions |-> <<>>]
LOCAL Line(s, c, b) == [slug |-> s, entry |-> Entry(c), broken |-> b]
LOCAL Lines == {Line(s, c, b) : s \in {"a", "b"}, c \in {"x", "y"}, b \in BOOLEAN}
LOCAL Files == {<<>>} \cup {<<l>> : l \in Lines} \cup {<<l, m>> : l, m \in Lines}
LOCAL Catalogs == {EmptyCatalog, Seed(EmptyCatalog, <<Line("a", "x", FALSE)>>),
                   Submit(Submit(EmptyCatalog, 1, "a"), 2, "a"),
                   Promote(Submit(EmptyCatalog, 1, "a"), Submit(EmptyCatalog, 1, "a"), 1, Entry("x"))}

\* Seeding is idempotent, and does not turn a community entry into a seed's.
ASSUME SeedIdempotent ==
  \A cat \in Catalogs, f \in Files :
    LET once == Seed(cat, f) IN
    /\ Seed(once, f) = once
    /\ DOMAIN cat.entries \subseteq DOMAIN once.entries
    /\ \A s \in DOMAIN cat.entries : once.entries[s].source = cat.entries[s].source

\* Of two promotions in a race, of one submission or of two for one slug, only
\* one takes effect; the other submission stays pending for good.
ASSUME PromotedOnce ==
  LET cat == Submit(Submit(EmptyCatalog, 1, "a"), 2, "a") IN
  \A i, j \in {1, 2} :
    LET first == Promote(cat, cat, i, Entry("x")) IN
    /\ Promote(cat, first, j, Entry("y")) = first
    /\ Promote(first, first, j, Entry("y")) = first
    /\ first.status[3 - i] = "pending"

-----------------------------------------------------------------------------

LOCAL Onto == [sub |-> [doc |-> {"doc", "page"}, page |-> {"page"}, user |-> {"user"}],
               eq |-> [doc |-> {}, page |-> {"sheet"}, user |-> {}]]
LOCAL Scope(a, c) == [action |-> a, concept |-> c]
LOCAL Scopes == {Scope("read", "doc"), Scope("get", "page"), Scope("*", "user"), Scope("run", "tool-invocation"), Scope("", "doc")}
LOCAL NamedTool(required, meta) ==
  [name |-> "t", id |-> "id1", required |-> required, needs |-> {Scope("read", "page")}, params |-> [who |-> "user"], meta |-> meta]
LOCAL NamedTools == {NamedTool(r, m) : r \in SUBSET {Scope("query", "doc"), Scope("delete", "user")}, m \in {"none", "dict", "row"}}
LOCAL Claims == [tools : {{}, {"t"}, {"id1"}}, limited : BOOLEAN, scopes : SUBSET Scopes]
LOCAL Args == SUBSET {"limit", "doc", "who", "other"}

\* Enforcement hands on no argument it was not given, keeps those that are
\* always safe, and drops some only from reading actions; an EAT narrowed to a
\* scope lets pass nothing the EAT itself does not.
ASSUME EnforceNarrows ==
  \A c \in Claims, tool \in NamedTools, action \in {"read", "search", "delete"}, closed \in BOOLEAN :
    \A args \in {{}, {"limit", "doc", "who", "other"}, {"doc", "limit"}} :
      LET out == Enforce(Onto, c, tool, action, args, closed)
          token == [tools |-> c.tools, limited |-> c.limited, scopes |-> c.scopes, permissions |-> [x \in {} |-> {}]]
          narrow == Enforce(Onto, Narrowed(token, TRUE, {"t"}), tool, action, args, closed)
      IN /\ "args" \in DOMAIN out =>
              /\ out.args \subseteq args /\ args \cap SafeArgKeys \subseteq out.args
              /\ out.args # args => NormalizeAction(action) = "read"
         /\ "args" \in DOMAIN narrow => narrow = out
         /\ tool.meta = "row" => out \in {Refused, NoGet}

\* A profile that is replaced grants what it says and nothing it said before.
ASSUME ProfileReplaced ==
  \A old, new \in [{"t"} -> SUBSET {"r", "w"}], scope \in {"r", "w"} :
    LET token == [eat |-> FALSE, subject |-> TRUE, permissions |-> Nothing]
    IN PermissionAnswer(token, UpdatePermissions([permissions |-> old], new), "t", scope) = "ok" <=> scope \in new["t"]

-----------------------------------------------------------------------------

LOCAL Decisions == {Nothing} \cup [{"t"} -> Backends]
LOCAL Actives == [found : BOOLEAN, tools : SUBSET {"t", "id1", "u"}, decisions : Decisions]
LOCAL Answers == {"result", "-32001", "-32000", "raised"}
LOCAL Log == <<[backend |-> "CLI", success |-> "open", latency |-> 0, recent |-> TRUE]>>

\* No call leaves a decision of its own open, and what it logs as a success is
\* a result; a scope's decision is taken without a trace in the log.  A tool
\* the active scope lists can be called in it.
ASSUME CallsAreFinalised ==
  \A active \in Actives, meta \in {"none", "dict"}, d \in Backends, a \in Answers :
    LET tool == NamedTool({}, meta)
        out == CallTool(Log, active, tool, TRUE, d, [b \in Backends |-> a])
        subject == [uuid |-> TRUE, id |-> 1]
    IN /\ \A i \in 2 .. Len(out.log) : out.log[i].success = IF out.answer = "result" THEN "yes" ELSE "no"
       /\ Override(active, tool) # "none" => out.log = Log
       /\ (McpListTools(<<[name |-> "t", id |-> "id1", user |-> 1]>>, subject, active, "", {}) # <<>> /\ active.found)
            => out.answer # "-32003"

\* A command that fails by its exit code is a success for the routing log.
ASSUME ExitCodeIgnored ==
  \A tool \in NamedTools, args \in Args :
    LET claim == [tools |-> {}, limited |-> FALSE, scopes |-> Scopes] IN
    RunExecution("CLI", Onto, claim, tool, "run", args, TRUE, "exit 1") = RunExecution("CLI", Onto, claim, tool, "run", args, TRUE, "exit 0")

\* A tool that was warmed up has no user: users with an id do not see it.
ASSUME WarmToolsUnseen ==
  \A u \in {1, 2} : Visible(<<[name |-> "n", id |-> "i", user |-> 0]>>, [uuid |-> TRUE, id |-> u]) = <<>>

\* A template whose name has a colon is listed under a name it cannot be
\* fetched by.
ASSUME ColonNames ==
  LET t == CreateNamed([k \in {} |-> <<>>], 1, <<"team", "daily">>, <<"s1">>) IN
  /\ GetNamed(t, 1, <<"team", "daily">>) = <<"s1">>
  /\ \A e \in ListNamed(t, 1) : GetNamed(t, 1, <<e.name>>) = <<"404">>

\* Validation answers for exactly the names the user has a tool of.
ASSUME ValidatedNames ==
  LET tools == <<[name |-> "a", id |-> 1, user |-> 1, meta |-> "row"], [name |-> "a", id |-> 2, user |-> 1, meta |-> "none"],
                 [name |-> "b", id |-> 3, user |-> 2, meta |-> "row"]>>
      out == ValidateScope(tools, [uuid |-> TRUE, id |-> 1], {"a", "b"}, {"a"}, [n \in {"a", "b"} |-> "HTTP"])
  IN DOMAIN out = {"a"} /\ out["a"] = [id |-> 1, drift |-> TRUE, backend |-> "HTTP"]
=============================================================================
