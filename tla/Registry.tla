------------------------------ MODULE Registry ------------------------------
(***************************************************************************)
(* The tool registry: how tools get in (app/services/registry_service.py), *)
(* how they are listed and called (app/api/v1/registry.py), the catalogue  *)
(* of popular applications (app/services/catalog_service.py) and the       *)
(* statistics of app/api/v1/routing.py.                                    *)
(*                                                                         *)
(* A registered tool is [name, user, type, actions, hints, base, polls,    *)
(* webhooks]; hints are the execution metadata ToolRouting looks at, polls *)
(* and webhooks what the event listener makes sources of (Events).         *)
(* Missing stands for an ingestion that is refused: nothing is stored.     *)
(***************************************************************************)
EXTENDS ToolRouting, SemanticAuth, SequencesExt

Refusal == [refusal |-> TRUE]

Tool(name, type, actions, hints, polls, webhooks) ==
  [name |-> name, type |-> type, actions |-> actions, hints |-> hints, polls |-> polls, webhooks |-> webhooks]

-----------------------------------------------------------------------------
(* ingest_openapi.  A specification is [title, base |-> url or "none",     *)
(* paths, webhooks], both sequences of [path, eventful |-> whether the     *)
(* path names events, methods |-> sequence of [method, dict |-> whether    *)
(* its details are a dict, params]].                                       *)

HttpMethods == {"get", "post", "put", "delete", "patch", "options", "head", "trace"}

Operations(items) == FlattenSeq([i \in DOMAIN items |-> [j \in DOMAIN items[i].methods |->
                       [item |-> items[i], op |-> items[i].methods[j]]]])

Actions(spec) ==
  LET ops == SelectSeq(Operations(spec.paths), LAMBDA o : o.op.method \in HttpMethods /\ o.op.dict)
  IN [i \in DOMAIN ops |-> <<ops[i].op.method, ops[i].item.path>>]

PollParams == {"since", "cursor", "updated_after", "updated_at", "timestamp", "page_token", "offset"}

\* Without a base URL a source has a path and no URL.
Polls(spec) ==
  LET hits == SelectSeq(Operations(spec.paths), LAMBDA o :
                /\ o.op.dict /\ o.op.method = "get"
                /\ o.item.eventful \/ o.op.params \cap PollParams # {})
  IN [i \in DOMAIN hits |-> [path |-> hits[i].item.path, url |-> spec.base # "none"]]

Webhooks(spec) == LET ops == Operations(spec.webhooks) IN [i \in DOMAIN ops |-> <<ops[i].op.method, ops[i].item.path>>]

\* Of webhooks every key counts as a method; one without details fails.
IngestOpenApi(spec) ==
  IF \E i \in DOMAIN Operations(spec.webhooks) : ~Operations(spec.webhooks)[i].op.dict THEN Refusal
  ELSE Tool(spec.title, "HTTP", Actions(spec), {"openapi_spec"}, Polls(spec), Webhooks(spec))

-----------------------------------------------------------------------------
(* The other ways in *)

IngestGraphql(url) == Tool(url, "HTTP", <<<<"query">>>>, {"graphql_url"}, <<>>, <<>>)
IngestUrl(url) == Tool(url, "HTTP", <<<<"call">>>>, {"endpoint_url"}, <<>>, <<>>)

\* create_manual_tool: one path with one method, made into a specification.
SyntheticSpec(data) ==
  [title |-> data.name, base |-> data.base, webhooks |-> <<>>,
   paths |-> <<[path |-> data.path, eventful |-> FALSE,
                methods |-> <<[method |-> data.method, dict |-> TRUE, params |-> data.params]>>]>>]

CreateManualTool(data) ==
  Tool(data.name, "HTTP", <<<<data.method, data.path>>>>, {"openapi_spec"}, <<>>, <<>>)

\* ingest_cli_help.  The words of a help text are only ever looked for with a
\* pattern that asks for backslashes: just the flags tell a watching command.
WatchFlags == {"--watch", "--tail", "--follow", "--stream", "--poll", "--on-change", "--interval"}
CliWatch(help) == IF WatchFlags \cap help.flags = {} THEN <<>> ELSE <<WatchFlags \cap help.flags>>

IngestCliHelp(command, help) ==
  IF ~help.exits0 THEN Refusal
  ELSE Tool(command, "CLI", <<<<command>>>>, {"cli_wrapper", "cli_command"}, CliWatch(help), <<>>)

\* extract_from_docs, extract_tool_schema: three kinds of text
DocsName(words) ==
  IF words \cap {"curl", "GET"} # {} THEN "Extracted HTTP Tool" ELSE IF "git" \in words THEN "Git Tool" ELSE "Generic Doc Tool"

ExtractFromDocs(words) ==
  LET name == DocsName(words)
      actions == CASE name = "Extracted HTTP Tool" -> <<<<"request">>>> [] name = "Git Tool" -> <<<<"commit">>, <<"push">>>> [] OTHER -> <<<<"execute">>>>
  IN Tool(name, "MCP", actions, {"extracted_from"}, <<>>, <<>>)

-----------------------------------------------------------------------------
(* The catalogue: [entries |-> slug -> entry, cached |-> slugs, status |->  *)
(* submission -> "pending" or "approved", slug |-> submission -> slug].     *)
(* An entry is [category, source, cli, name, actions].                      *)

PutEntry(cat, slug, entry) ==
  [cat EXCEPT !.entries = [s \in DOMAIN @ \cup {slug} |-> IF s = slug THEN entry ELSE @[s]]]

\* seed_catalog_from_yaml: the file's entries replace the old ones but for
\* where they came from; one that is broken rolls all of them back.
SeedOne(cat, e) ==
  PutEntry(cat, e.slug, IF e.slug \in DOMAIN cat.entries THEN [e.entry EXCEPT !.source = cat.entries[e.slug].source] ELSE e.entry)
Seed(cat, file) == IF \E i \in DOMAIN file : file[i].broken THEN cat ELSE FoldLeft(SeedOne, cat, file)

Entries(cat, category) == {s \in DOMAIN cat.entries : category = "any" \/ cat.entries[s].category = category}

\* submit_entry
Submit(cat, id, slug) ==
  [cat EXCEPT !.status = [i \in DOMAIN @ \cup {id} |-> IF i = id THEN "pending" ELSE @[i]],
              !.slug = [i \in DOMAIN @ \cup {id} |-> IF i = id THEN slug ELSE @[i]]]

\* promote_submission: the status was checked on what was read before; what
\* the commit meets is now.  Slugs are unique.
Promote(read, now, id, entry) ==
  IF id \notin DOMAIN read.status \/ read.status[id] # "pending" THEN now
  ELSE IF now.slug[id] \in DOMAIN now.entries THEN now
  ELSE [PutEntry(now, now.slug[id], [entry EXCEPT !.source = "community"]) EXCEPT !.status[id] = "approved"]

\* ingest_from_openapi takes every key of a path for a method; one without
\* details fails, and so does a title that is taken.
IngestCatalog(cat, spec) ==
  LET ops == Operations(spec.paths) IN
  IF (\E i \in DOMAIN ops : ~ops[i].op.dict) \/ spec.title \in DOMAIN cat.entries THEN cat
  ELSE PutEntry(cat, spec.title, [category |-> "general", source |-> "openapi", cli |-> FALSE, name |-> spec.title,
                                  actions |-> [i \in DOMAIN ops |-> <<ops[i].op.method, ops[i].item.path>>]])

\* warm_up_registry: a new tool every time, with no user.
WarmTool(entry) ==
  Tool(entry.name, IF entry.cli THEN "CLI" ELSE "MCP", entry.actions,
       {"catalog_slug"} \cup (IF entry.cli THEN {"cli_wrapper"} ELSE {}), <<>>, <<>>)
WarmUp(cat, slug) == IF slug \in DOMAIN cat.entries THEN [cat EXCEPT !.cached = @ \cup {slug}] ELSE cat

-----------------------------------------------------------------------------
(* Named scopes and flows: Redis keys "user:name".  A name is a sequence   *)
(* of parts that colons separate.                                          *)

\* The list shows what follows the last colon.
ListNamed(templates, user) == {[name |-> Last(k[2]), steps |-> templates[k]] : k \in {j \in DOMAIN templates : j[1] = user}}
GetNamed(templates, user, name) == IF <<user, name>> \in DOMAIN templates THEN templates[<<user, name>>] ELSE <<"404">>
CreateNamed(templates, user, name, steps) ==
  [k \in DOMAIN templates \cup {<<user, name>>} |-> IF k = <<user, name>> THEN steps ELSE templates[k]]

-----------------------------------------------------------------------------
(* Discovery and validation.  tools is a sequence of [name, id, user]; the *)
(* subject of a token that is no UUID filters nothing.                     *)

Visible(tools, subject) == SelectSeq(tools, LAMBDA t : ~subject.uuid \/ t.user = subject.id)

\* mcp.list_tools: those of the active scope, by name; without one those that
\* are close to the task, if there is a task.
McpListTools(tools, subject, active, task, close) ==
  SelectSeq(Visible(tools, subject), LAMBDA t : IF active.found THEN t.name \in active.tools ELSE task = "" \/ t.name \in close)

\* POST /scope/validate: of each name the first tool; a name nobody has is
\* left out of the answer.
ValidateScope(tools, subject, names, drifted, best) ==
  LET own == Visible(tools, subject)
      found == {n \in names : \E i \in DOMAIN own : own[i].name = n}
      pick(n) == own[CHOOSE i \in DOMAIN own : own[i].name = n /\ \A j \in DOMAIN own : own[j].name = n => i <= j]
  IN [n \in found |-> [id |-> pick(n).id, drift |-> n \in drifted, backend |-> IF pick(n).meta = "none" THEN "CLI" ELSE best[n]]]

-----------------------------------------------------------------------------
(* mcp.call_tool *)

\* run_cli_execution, run_http_execution.  verified is the claim of the token,
\* or Refused; ran is what the subprocess did: its exit code does not matter.
RunExecution(backend, onto, verified, tool, action, args, failClosed, ran) ==
  LET allowed == IF verified = Refused THEN Refused ELSE Enforce(onto, verified, tool, action, args, failClosed) IN
  CASE allowed = Refused -> "-32001"
    [] allowed = NoGet -> "raised"
    [] OTHER -> IF backend = "CLI" /\ ran = "exception" THEN "-32000" ELSE "result"

\* The answer and the decision log.  A tool whose metadata the session would
\* have to load now (loaded is FALSE) raises: the session is asynchronous.
\* run: what running each backend would answer.
Override(active, tool) == IF active.found /\ tool.name \in DOMAIN active.decisions THEN active.decisions[tool.name] ELSE "none"

CallTool(log, active, tool, loaded, decision, run) ==
  LET backend == Selected(Override(active, tool), decision)
      logged == Logged(log, Override(active, tool), decision)
      violates == active.found /\ {tool.name, tool.id} \cap active.tools = {}
      answer == run[backend]
  IN IF ~loaded THEN [answer |-> "raised", log |-> log]
     ELSE IF tool.meta = "none" THEN [answer |-> "-32603", log |-> log]
     ELSE IF violates THEN [answer |-> "-32003", log |-> log]
     ELSE [answer |-> answer,
           log |-> IF logged = log THEN log ELSE Finalize(logged, Len(logged), IF answer = "result" THEN "yes" ELSE "no", 0)]

-----------------------------------------------------------------------------
(* GET /routing/list: open decisions count as failures here, too. *)

ToolStats(log, backend) ==
  LET mine == {i \in DOMAIN log : log[i].backend = backend}
  IN [samples |-> Cardinality(mine),
      rate |-> IF mine = {} THEN 0 ELSE (100 * Cardinality({i \in mine : log[i].success = "yes"})) \div Cardinality(mine)]
=============================================================================
