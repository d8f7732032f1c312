# A TLA+ model of the Engram translator middleware

This directory specifies and verifies the core of the repository: the SQL task
queue and its workers, the agents' mailboxes, the reliability middleware in
front of every routed call, the multi-agent runs, the workflow scheduler, the
event stream, the tokens and sessions with the SDK that uses them, the registry
and routing of tools, and the translation of messages.
The modules are translated from the Python source; `PROJECT.json` gives, for
every definition, the lines it stands for.

## The system

Engram is a FastAPI service (`app/`) with an SDK (`engram_sdk/`), a bridge to a
shared "swarm memory" (`bridge/`) and a reliability wrapper (`reliability/`).
A server process runs the HTTP API and, in the same event loop, a `TaskWorker`,
a `WorkflowScheduler` and an `EventListener` (`app/main.py`, `lifespan`).
Several such processes may share one database (`UVICORN_WORKERS`, replicas).

| Component | State it keeps | Operations | Talks to | What is hard |
|---|---|---|---|---|
| Task queue and worker (`app/services/queue.py`, `task_worker.py`, `app/api/v1/tasks.py`) | the `tasks` table: status, attempts, lease | enqueue, lease, process, retry, dead-letter, complete | worker → `routeTo` or `execute_task`; worker → `agent_messages` | leases that run out under a live worker, workers that die, write-backs by primary key |
| Agent mailbox (`app/api/v1/endpoints.py` 595–748, `queue.py` 48–85) | the `agent_messages` table | poll, ack, respond | agents over HTTP; respond also completes the task row | several processes of one agent, late and repeated requests, in-place JSON updates |
| Multi-agent orchestrator (`app/messaging/multi_agent_orchestrator.py`) | a run's results, status and results of its task row | plan, check permissions, hand off, retry, settle | connectors, swarm memory, shared database session | partial failure, retries, commits in the middle of a run |
| Reliability middleware (`reliability/middleware.py`) | per-process failure counts and times | breaker check, key check, retry, count | `bridge/router.py`, swarm memory | interleaved coroutines between check and update, restarts |
| Swarm memory (`bridge/memory.py`) | facts in SQLite and in a Prolog reasoner | write, check, query, reload | middleware, orchestrator | two stores, restart, missing reasoner |
| Hand-off (`app/messaging/orchestrator.py`, connectors, `intent_resolver.py`) | protocol graph, connector registry | authorize, execute a connector, translate hop by hop | connectors, translator | errors returned as values |
| Workflow scheduler (`app/services/workflow_scheduler.py`, `workflow_runner.py`, `app/api/v1/workflows.py`) | `workflows`, `workflow_schedules` | tick, run, create, update, delete, set and delete a schedule | creates task rows | several schedulers, crash between two commits, user changes during a tick |
| Event listener (`event_listener.py`, `event_stream.py`, `conflict_resolver.py`) | Redis stream and group, `entity_states` | publish, read, resolve, fan out, acknowledge | creates task rows and messages | acknowledgement, reordering, partial fan-out |
| Identity (`app/api/v1/auth.py`, `app/core/security.py`, `session.py`, `eat_identity.py`, `credentials.py`) | sessions, revocations and refresh tokens in Redis | login, logout, issue, refresh, revoke, verify | every endpoint | Redis missing, two calls for one step |
| Registry and routing of tools (`registry.py`, `registry_service.py`, `discovery.py`, `tool_routing.py`, `catalog_service.py`) | agent and tool tables, routing statistics | register, heartbeat, discover, choose a tool | hand-off, evolution | stale availability |
| Translation and mapping (`translator.py`, `semantic/`, `mapping_failures.py`, `evolution.py`, `reconciliation/`) | mapping tables, failure log, tool versions | translate, log a failure, propose and apply a change | hand-off | mostly data transformation |
| SDK (`engram_sdk/`) | control plane, scopes, cached tokens | register, validate a scope, call, retry after a refresh | the HTTP API | token refresh during a call |
| Federation, CLI, metrics, tracing, configuration | — | — | — | not part of the core |

## Modules

State machines, one per component:

- `JobLifecycle` — what a lease-based queue promises: at most `MaxTries` tries,
  one worker at a time, at most one message a try, settled jobs stay settled.
- `TaskQueue` — the `tasks` table, the workers and the responses that touch a
  row; `MCTaskQueue` gives it constants. `Abstract` maps it to `JobLifecycle`.
- `Mailbox` / `MCMailbox` — the `agent_messages` table and the poll, ack and
  respond endpoints as used by several processes of one agent.
- `MultiAgentRun` — one call of `execute_task`.
- `Credentials` — the credential a user has stored for a provider: save, delete,
  and the refresh a connector starts when the access token is about to expire.
- `MappingRepair` — how a protocol mapping learns the fields translations fail
  on: suggestions of the model, corrections, and the repair loop.
- `OrchestratorParts` — the three above side by side; `MCMultiAgentRun` gives
  constants.
- `Reliability` — the middleware of one server process.
- `WorkflowScheduler` — workflows and schedules, the schedulers' ticks, and the
  users' requests in between.
- `Events` / `MCEvents` — sources, the Redis stream with its consumer group, the
  listeners, the conflict resolver and the fan-out. It extends `Discovery`.
- `Identity` — access tokens, sessions, EATs and refresh tokens with the Redis
  keys behind them; `SdkTransport` extends it with one request of the SDK and its
  renewals, `ControlPlane` with `drive()`; `MCControlPlane` gives constants.

Operators, for code that computes from its arguments:

- `Discovery` — a round of pings, the agents' success rate, the collaborators.
- `ToolRouting` — available backends, the log of decisions and its statistics, the
  choice of a backend, the simulation endpoint.
- `Registry` — ingestion of tools, the catalogue, listing, scope validation and
  calling of tools. `SemanticAuth` — semantic scopes, the narrowing of an EAT,
  permission profiles.
- `Translator` — version upgrades by delta rules, A2A and NL to MCP.
  `SemanticMapper` — names of fields through the ontology. `HandOff` — the
  protocol graph, authorization, both hand-off functions and the connectors.
- `SwarmMemory` — facts written, reloaded and checked: what SQLite and the reasoner
  each make of a value.
- `RoutingChecks`, `RegistryChecks`, `TranslationChecks`, `MemoryChecks` — what these
  operators should compute, stated as assumptions without constants.

Theorems: `TaskQueueProofs`, `ReliabilityProofs`, `MailboxProofs`,
`OrchestratorProofs` (about `OrchestratorParts` and the three modules in it),
`EventsProofs`, `WorkflowSchedulerProofs`, `ControlPlaneProofs` (about
`Identity`, `SdkTransport` and `ControlPlane`) and `RegistryProofs` (about
`Registry`, `SemanticAuth` and `ToolRouting`).

### How the state corresponds to the code

*TaskQueue.* `tasks[t]` is a row: `status`, `attempts`, and `left`, the time
until `leased_until` (`Expired` for a time in the past, `NoLease` for NULL).
`completed` is "`completed_at` is set". `worker[w]` is what the worker's
SQLAlchemy session has loaded of the row it works on. A lease is three steps:
`LeaseSelect` (SELECT ... FOR UPDATE SKIP LOCKED), `LeaseCommit`, and `Refresh`,
the `session.refresh` after the commit, which is a transaction of its own. The
row lock lies between the first two (`Locked`) when the database has row locks:
`RowLocks` is TRUE on PostgreSQL, FALSE on SQLite. Every write of another session
waits for that lock. A worker held up between commit and refresh loads what the
row has become, for instance the attempts of the next worker's lease; the history
field `late` remembers that. `execute_task` refreshes the row as well, after it has
committed RUNNING (`started`) and after each step (`StepRefresh`). `Deliver`,
`Retry` and `DeadLetter` are the write-back of `_process_task`: they set columns by
primary key, whoever has the row by then, but only the columns that differ from
what the session has loaded (`StatusSet`, `LeaseCleared`). `lease_owner` is written
by the code and compared nowhere, so it is left out. `Die` is a crash, a
cancellation by `TaskWorker.stop`, or a commit that fails: in each case the session
is rolled back and the row is left alone.

*Mailbox.* As `TaskQueue`, for messages: a poll is a select, a commit and a
refresh, and the endpoint answers from what the refresh has loaded. A poll that was
late (`late`) answers with the lease of another consumer, and fails when the
message was acknowledged meanwhile. A response is two steps, what it reads and what
it commits, so that the other sessions come in between. Of the task row it keeps
whether `completed_at` is set and which response `results["agent_responses"]`
holds.

*MultiAgentRun.* `stored` is the row's results column, `results` the local
variable. The ORM does not write a JSON column that was changed in place, so only
the first step's commit and the final assignment reach the database.

*Reliability.* `count` and `age` are the module globals of one process. `facts` is
what the middleware has in the reasoner, pairs of a predicate and a key, `saved`
the keys in SQLite. A key is recorded with the protocol 'INTERNAL', which the
semantic mapper does not know: the predicate becomes the end of its error message,
and `Known`, which asks for `idempotency_key`, never finds it. A `Restart` loads any
subset of what is saved, because the loading stops at the first fact the reasoner
cannot read. A call is one step up to its first `await` and one for what it does
when the wrapped function answers. `half` and `probe` are history for the
properties.

*WorkflowScheduler.* `schedule[s]` is a row of `workflow_schedules`, with
`next_run_at` as the time `left` until it. `loop[p]` is the tick of one
scheduler: what it selected (`batch`, with the intervals as selected), how long
ago it took `now` (`lag`), and the workflow its session still holds (`known`),
because a SELECT does not refresh an object that the session has already loaded.
Each commit of `_tick` and of `create_task_from_workflow` is a step. A row that
is gone makes the commit fail, which ends the tick (`Abort`). `owed` and `late`
are history variables: `owed` is the row's interval less the time since the tick
that ran it took its `now`.

*Credentials.* `rows` is `provider_credentials` for one user and provider. A
refresh token is its place in the order the provider issued them; `accepted` is
the provider's side. `SaveRead` and `SaveWrite`, and the request to the provider
and its commit, are separate steps, because other requests come in between. A
provider may rotate, and an answer may be lost (`AnswerLost`, remembered in
`forfeited`): then the token is gone and no code could have kept it.

*MappingRepair.* One pair of protocols; a row is the set of fields it maps.
`Written` is a commit of the whole column over what was read, `InPlace` one that
the ORM leaves out because the dictionary was changed in place. `work[s]` is the
request a server is serving, with what it read. `healed` and `overwritten` are
history variables. The `version` of a mapping is compared nowhere and left out.

*Events.* `stream`, `oldest` and `cursor` are the Redis stream and the group's
last-delivered-id; a trimmed entry keeps its place. `listener[s]` is one
`_consume_loop`: the rest of its batch, and how far `_handle_event` has come with
the first event of it. `rows` is `entity_states`: a payload is the set of events
it comes from, `at` the stamp in `updated_at`. Stamps are the numbers of events,
in the order they were made, which need not be the order they are published in.
An acknowledgement has no step: the code creates a coroutine that nobody awaits.
`settled`, `ended`, `aimed` and `disturbed` are history variables.

*Identity, SdkTransport, ControlPlane.* Each Redis key is its remaining life. A
holder is one client program of the user; one of them is the SDK, whose nested
calls (`request` → `ensure_eat` → `generate_eat` → `login`) are flattened into
`call.at`, with the retries that are spent. `drive` is where `ControlPlane.drive`
is, with the tools of its scope; `cache` is what the scope cache holds for each set
of tools. The next step is `next_step` or what the step's handler returns
(`Follows`), perhaps one that was taken before. A step without tools asks the
registry for those known under its name (`AskForTools`, `Named`).

*Operators.* Records stand for rows and tokens, sequences for lists whose order
the code depends on, sets for the others. What the code scores with real numbers
(similarity, predicted load, model confidence) is an input.

### How the modules fit together

`TaskQueue` treats `routeTo` as one step with two outcomes (`Reliability` and
`HandOff` show what is behind them) and `execute_task` as `RunStart` and one of
its ends (`MultiAgentRun`). The messages that `TaskQueue` counts are arrivals of
`Mailbox`; the others are the messages of `Events`. The responses of `Mailbox` are
`RespondRead` and `RespondCommit` of `TaskQueue`. `AttemptsDistinct` is what makes
the keys of `Reliability` differ between two executions of one row, unless a worker
was late; that the keys are not found when they are asked for is a matter of
`Reliability` and `SwarmMemory`. The tasks that
`WorkflowScheduler` creates are rows enqueued in `TaskQueue`, with a multi-agent
target. `Events` takes the active agents from `Discovery`.

`ControlPlane` composes with the server: every request of the SDK is answered by
`Identity` in its state of that moment, while tokens expire, Redis goes and comes
back, and other programs of the user log in and out.

`OrchestratorParts` puts a run side by side with what its hand-offs draw on, the
stored credential and the mapping of two protocols. The three share no variable.
In `MCMultiAgentRun` a behaviour moves only one of them (`moving`): nothing is
lost, since no step of one enables or disables a step of another, and the states
add up. `PartsSpec`, which a theorem is about, has all interleavings.

## What the model checking shows

| Run | Module | Question | Answer |
|---|---|---|---|
| `queue` | `MCTaskQueue` | Workers outlive their leases, are held up before a refresh, die at any await, and answer late. Are rows still handed out at most `max_attempts` times, with distinct attempt numbers and one message an execution, and does the status of a row agree with its messages? | yes, with row locks; the attempt numbers except for late workers |
| `queue_prompt` | `MCTaskQueue` | If no worker outlives its lease, has a row one worker, also while a plan runs past the lease, is the queue the abstract job queue, and does every accepted translation task settle? | yes; `Abstract!Spec` is the refinement |
| `reliability` | `Reliability` | Can interleaved calls push the failure count without bound, does an open breaker let somebody in again? | bounded by threshold + callers; yes |
| `multi_agent` | `MCMultiAgentRun` | Are steps done in order and never again once they succeeded, does the row keep every result? Do overlapping refreshes, saves and deletions keep a refresh token that works? Is what the repair loop marks as applied mapped? | yes; yes, unless an answer is lost; yes, unless overwritten from an older reading |
| `mailbox` | `MCMailbox` | Two processes of one agent poll, ack and respond, late and repeatedly. Are deliveries bounded, has a message one running lease, is an ack final, does every response leave a trace, does every message end? | yes; the lease except for polls that were late |
| `events` | `MCEvents` | Two servers publish, read, fail, stop and crash. Is an event handled at most once, does the fan-out agree with its ending, does an entity keep its newest state, is the stream worked off? | yes; the entity only while nothing comes late or overlaps |
| `sdk` | `MCControlPlane` | Tokens expire and Redis fails during the SDK's requests. Does a step that is entered reach the model, is a request refused only for a reason, does a refresh token work once, is a usable session listed? | yes, except for overlapping refreshes and a logout cut in half |
| `scheduler` | `WorkflowScheduler` | Users change schedules in the middle of a tick, the scheduler dies between two commits. Do the ticks that run a schedule take their time an interval apart, does a stopped schedule stop, is a due one served? | yes, with one scheduler |

Four runs show a disagreement between the code and what the repository says:

- `lease_exclusive` — a worker that outlives its lease writes the row back by
  primary key, clears the lease of the worker that has it by then, and a third
  lease is granted next to the second one
  (`task_worker.py:161`; `docs/07-configuration.md:195`).
- `half_open` — after the cooldown the breaker's count is reset, so all callers
  get in, not "a single probe request" (`middleware.py:79`;
  `docs/18-reliability-middleware.md:33`).
- `responses_stored` — the second response to a task is appended to a JSON column
  in place, which the ORM does not notice: it is answered as stored and is not
  (`endpoints.py:725`).
- `answered_readmitted` — a call under an idempotency key that was answered is
  executed again: the key is written under a predicate made from an error message
  of the semantic mapper and looked up under `idempotency_key`
  (`middleware.py:143`, `memory.py:124`, `mapper.py:75`;
  `docs/18-reliability-middleware.md:117`). The expiry of keys that the same
  document describes (lines 120 and 224) is not in the code.

The properties about the queue are stated without the first of these faults
assumed away: `queue` lets workers overrun (`MayOverrun = TRUE`), and its
invariants are what remains true. The inductive invariants of the proofs hold in
the instances of these runs, too.

### What the operators are compared with

TLC evaluates the assumptions of `RoutingChecks` in `sdk`, of `TranslationChecks`,
`RegistryChecks` and `MemoryChecks` in `multi_agent`, and of `MCEvents` in
`events`, over all inputs of the small sets they name. Some compare with a
reference definition: the deltas applied are a shortest path of versions
(`DeltaPathShortest`), the budget guardrail and the simulation choose the best
candidate (`BudgetGuardrail`, `SimulationIsBest`), a full score is full coverage
(`ScoreIsCoverage`), a path of one edge is a translation (`DirectIsTranslation`).
Others say what is never lost or gained: `FieldsArrive`, `ValuesKept`,
`RenameMoves`, `EnforceNarrows`, `SeedIdempotent`, `PromotedOnce`,
`OnlyWithClaim`, `FactsSurvive`. `KeyFoundByName` says under which predicate a
fact is filed: its own name, the one the ontology takes for equal, or part of an
error message. And some record behaviour a caller might not expect, for instance:

- the first success of a backend may lower its rate, because a rate of 0 is taken
  for an unknown one (`FirstSuccessMayLower`; `tool_routing.py:585`), and the
  predictor sees the oldest five of ten decisions (`PredictorSeesOldest`);
- a cheaper path over mappings in the database makes a hand-off fail that the
  translator alone could do (`CheaperDetourFails`; `orchestrator.py:124`);
- a delta rule may move a field to where versions are looked for first, after
  which the message is upgraded again or refused (`RulesMayHideVersion`);
- the text of an error of the ontology may become the name of a field
  (`ErrorBecomesKey`), and a nested payload is flattened (`NestedPayloadLost`);
- a restart of the memory turns a text that is a number into the number
  (`TextBecomesNumber`), and a text whose JSON the reasoner cannot read keeps all
  later facts from being loaded (`OneFactHidesLater`; `memory.py:112`);
- a tool whose row has no `exec_params` makes `available_backends` raise
  (`AlwaysABackend`; `tool_routing.py:266`), and a command line is the cheapest
  backend only as long as the tool declares no large answer for it (`CliCheapest`);
- the exit code of a command is ignored (`ExitCodeIgnored`), and tools that the
  catalogue warms up belong to nobody (`WarmToolsUnseen`).

Some things the models show are neither properties nor disagreements with a text:
`routeTo` returns errors as values, and the worker completes the task with the
error as its message (`task_worker.py:137`, as
`tests/test_services_task_worker.py:56` wants); a refresh that fails hands out the
expired token (which
`tests/test_token_lifecycle.py` wants); two saves at once leave two rows of one
credential, of which a deletion removes one; a second suggestion in one failed
translation, and a correction of a mapping that has equivalents, are marked as
applied and not written; one failure whose source protocol is unknown keeps the
repair loop from ever committing; `POST /events/sync` stores the source and then
fails; `POST /auth/tokens/revoke-eat` always answers 400; a tick of the scheduler
overwrites a date the user has set meanwhile, and two requests may create two
schedules of a workflow. `docs/13-bidirectional-sync.md:18` speaks of exactly-once
processing of events; what holds is `AtMostOnce`.

### Bounds

- Rows and messages: three in `queue` (two that are translated, one multi-agent)
  and in `mailbox` (two of one task, one from the listener). Rows interact only
  through the workers that move from one to the next, which two or three show.
- Workers, consumers, callers, servers, processes: two, three where a third one is
  needed to violate (`half_open`); the violated exclusivity needs two workers and
  three leases (`Attempts = 3`).
- `Attempts`, `MaxTries`, `Threshold` = 2: a first try, a last one and the limit
  are different cases. Plans have up to four steps, one agent twice, `MaxRetries =
  3` as in the code.
- `Lease = 1`, `Cooldown = 1` or `2`, `Horizon = Intervals = 2`, `AccessLife`,
  `EatLife` and `RefreshLife` = 2: a time is kept as what is left of it and stops
  counting when it has passed (`owed` of a schedule at `-Horizon`), so that no
  clock has to be bounded. Two ticks tell "before", "in the middle" and "after"
  apart.
- `multi_agent`: two callers, two credential rows (`MaxRows`) and four refresh
  tokens (`MaxIssued`), so that rotation and a save can both happen twice; two
  servers, three fields, one of an unknown protocol, two mapping rows
  (`MaxMappings`); `MCBands` leaves out mirror images of the confidences.
- `events`: three events of one entity, one of them merged, one aimed at an agent,
  one of an unregistered tool; two agents; batches of two and a stream of two
  entries (`MaxLen`), so that trimming and a rest of a batch occur; each server is
  started once (`MaxStarts`), which has a crash without a restart of the same
  server, but the other one may start after it.
- `sdk`: a workflow of two steps; the first has two tools and may come again, the
  second needs its output and has tools only in the registry; or two other
  programs that share one refresh token and two processes that serve it
  (`MCCasts`: the SDK alone, or the two others; all of them together have too many
  states, and are left to the theorems).
- `scheduler`: one workflow, two schedule rows (which two concurrent requests may
  create for the same workflow), one death (`MaxCrashes`). `LateRunsBounded` also
  holds with two schedulers; `RunsSpaced` does not, and the deployment guide asks
  for one replica.

Deadlock is checked in the runs of the queue, the mailbox, the middleware and the
scheduler. In `multi_agent` a run ends and identifiers run out, in `events` the
events do, and in `sdk` a cast without the SDK may have nothing left to do.

### Fairness

- `TaskQueue`, `Mailbox`, `Reliability`: the clock goes on (`WF(Tick)`).
- A live worker goes on with its row (`WF` of what it does next, the refresh of a
  lease included: the event loop runs every coroutine that is ready). The
  refreshes between the steps of a plan (`StepRefresh`) are not obliged to come.
  `SF(LeaseCommit)` because a death disables the step and the worker is restarted:
  it says that not every worker dies in every lease it takes. Deaths themselves
  are never fair and never bounded in `TaskQueue`, since each one costs an
  attempt.
- `Mailbox`: a consumer goes on polling, a poll that has its lease ends
  (`WF(Refresh)`), and the consumer either answers or goes away; it is not obliged
  to answer.
- `Reliability`: every call that was let in is answered at some time
  (`WF(Answer)`): the wrapped function has a timeout or fails. Callers are not
  obliged to call, so `BreakerRecovers` says that the breaker lets the next caller
  in, not that one comes.
- `MultiAgentRun`: the coroutine goes on (in `MCSpec`, `WF` of the run's steps).
- `Events`: a listener that has something to read or an event in hand goes on
  (`WF(ReadBatch)`, `WF(Handle)`). Nothing makes a server start or a source emit,
  and an exception is never obliged to come; `StreamIsWorkedOff` allows for a time
  at which no listener is left.
- `ControlPlane`: the client goes on (`WF(ClientStep)`): a request is answered or
  times out, the model and the tool handlers return. A drive need not end, since
  the steps may go round; `StepsReachModel` says that it does not get stuck within
  one. Time and Redis are obliged to nothing, and may act between any two steps,
  also for ever.
- `WorkflowScheduler`: a scheduler goes on with its tick and starts the next.
  Users and clock are obliged to nothing; `DueServed` makes an exception for ticks
  that last as long as an interval, after which a schedule is due again the moment
  it was moved on.

## What is proved

The theorems hold for all values of the constants that satisfy the named
assumptions of the modules (`QueueAssumption`, `ReliabilityAssumption`,
`MailboxAssumption`, `RunAssumption`, `BoundAssumption`, `MappingAssumption`,
`EventsAssumption` with `DiscoveryAssumption`, `SchedulerAssumption`,
`IdentityAssumption`, `SdkAssumption`, `ControlPlaneAssumption`): any number of
rows, workers, callers, plans, events, schedules, programs and servers, any
limits and lifetimes. Sets whose members are counted (workers, schedulers,
server processes) are finite. Where a theorem has a hypothesis of its own, it is
in the table: "row locks" is `RowLocks` (PostgreSQL), "kept leases" is
`~MayOverrun`, no processing outlasts its lease. Every invariant and action
property that a passing run checks is stated by one of these theorems; what is
left to the runs alone is liveness.

| Theorem | Module | Says | Argument |
|---|---|---|---|
| `TypeCorrect`, and `RunTypeCorrect`, `CredentialsTypeCorrect`, `MappingTypeCorrect`, `PartsTypeCorrect` in `OrchestratorProofs` | all but `RegistryProofs` | the module's type invariant | by action |
| `ExecutionsAreBounded`, `AttemptsAreDistinct` | `TaskQueueProofs` | with row locks: no row is handed out more than `max_attempts` times; two executions of a row differ in their attempt number, unless one has loaded the other's in a late refresh | from `LeaseInv` (`LeasesSafe`), see below |
| `OneMessageEach` | `TaskQueueProofs` | an execution leaves at most one message | messages and executions are counted together; finite sets of holders |
| `CompletedRowHasMessage`, `DeadLettersExhausted` | `TaskQueueProofs` | the status of a row agrees with its messages (the second with row locks) | by action; the second from `LeaseInv` |
| `LeasesAreExclusive`, `PlansRunAlone` | `TaskQueueProofs` | with row locks and kept leases: a row has one worker while its lease runs, and while its plan does, however long that takes | from `PromptInv` (`PromptlyServed`) |
| `JobsAreImplemented` | `TaskQueueProofs` | with row locks and kept leases: the queue implements `JobLifecycle` | refinement, see below |
| `OvershootIsBounded` | `ReliabilityProofs` | the breaker never counts past threshold + callers | inductive, see below |
| `DeliveriesAreBounded`, `LeasesAreExclusive`, `ResponsesLeaveTrace`, `AckedIsFinal` | `MailboxProofs` | with row locks: deliveries at most `max_attempts`, one running lease a message (polls that were late set apart), an accepted response leaves an ack and a response, an acked message is not handed out again | `MailInv` |
| `StepsAreInOrder`, `CompletedHasRunPlan`, `SettledHasResults`, `NoStepIsRepeated` | `OrchestratorProofs` | steps in order and once, a completed row has run its plan, a settled row has the results | `RunInv` |
| `GrantIsKept` | `OrchestratorProofs` | a stored refresh token works, or its successor is on its way, or an answer was lost | `GrantInv` |
| `HealedStaysMapped` | `OrchestratorProofs` | what the repair loop has marked is mapped, or was overwritten from an older reading | `RepairInv` |
| `SettledAtMostOnce`, `FanOutIsWhole` | `EventsProofs` | no event is settled twice; a handled event has reached all it was aimed at, and no event reaches others | `EventInv` |
| `NewestIsKept` | `EventsProofs` | an entity that nothing came late for or overlapped on has one row, with the newest of its events, counted right | `NewestInv` |
| `LateRunsAreBounded` | `WorkflowSchedulerProofs` | a schedule that was disabled or deleted gets at most one more run from each scheduler | `LateInv` |
| `RunsAreSpaced` | `WorkflowSchedulerProofs` | with one scheduler: the ticks that run a schedule have taken their `now` at least its interval apart, unless a user sets a date | action property, from `SpacedInv` |
| `SessionsAreListed` | `ControlPlaneProofs` | a session that can be used is listed, unless a logout failed halfway | `ListInv` |
| `RefreshIsUsedOnce` | `ControlPlaneProofs` | a refresh token is found by no request once one has bought an EAT with it | action property, from `RefreshInv` |
| `RefusalsAreJustified` | `ControlPlaneProofs` | the SDK's request is refused only after an outage of Redis or an EAT's whole life, next to any other programs | `CallInv` |
| `EnforceDropsOnly`, `NarrowingNeverWidens` | `RegistryProofs` | semantic authorization hands on no argument it was not given; an EAT narrowed to a scope lets nothing pass that it did not before | by cases on what the operators answer |
| `PromotionTakesEffectOnce` | `RegistryProofs` | of two promotions in a race only the first takes effect | the first one's entry stops the second |
| `CliIsCheapest`, `RatesAreShares`, `OpenDecisionsWeigh`, `SuccessNeverLowers`, `CallsFinaliseTheirDecision` | `RegistryProofs` | how estimates and the log of decisions turn into choices and rates, for logs of any length; the command line is estimated cheaper than another backend unless the answer it declares exceeds the other's by 80 tokens | cardinalities of samples and successes |

`ExecutionsBounded` alone is not inductive: a commit adds one to the row's
attempts, as it was *selected*. `LeaseInv` therefore says that a selection is
still fresh when it is committed (the row's status and attempts are unchanged,
since the row lock is held), that two workers never hold the same selection, that
every execution in progress has an attempt number the row has reached, and that no
two that were in time have the same: a refresh in time loads the number of the
commit before it, and a late one is set apart by `late`. Row locks are needed for
exactly that: the theorems assume `RowLocks`. Most actions do not touch what
`LeaseInv` speaks of; `Quiet` says this once, and only `LeaseSelect` and
`LeaseCommit` are left. `MailInv` is the same idea for messages
(`SelectionsFresh`), with three more parts: a lease that still runs is the one the
row shows (`LeasesShown`), also between commit and refresh (`CommitsCounted`), which
makes leases exclusive and an ack final, and what a response has read of the task
row is still there when it commits (`SeenStands`), which is why a response leaves a
trace.

With kept leases more is true, and `PromptInv` says what: the lease a worker
counts down is the one its row shows and no refresh is late (`RowInStep`), so a row has
one worker
(`OneWorkerPerRow`); and a message settles its row, so that no response finds an
open one (`MessagesSettleRows`). The refinement needs all three. A step moves at
most one row, and `OneJobMoves` reduces it to the phase and the counts of that
row's job: a lease is a try, the write-back that leaves a message settles the job,
a death or an expired last lease loses it, everything else is a stutter.

`OvershootBounded` bounds the count of a destination together with the calls
already let in. A failed call moves one from the second to the first; a call is
let in only below the threshold; a reset sets the count to 0. The lemmas on
`Room` count callers by cardinality.

`RunInv` says where the loop is (`InLoop`): the steps before the current one are
those that succeeded, no later one was handed off, and the number of attempts
counts its hand-offs. `ResultsAreLast` then says that the local results are those
of each agent's last successful step, and `Settled` that a settled row has them;
only the last assignment makes that true, since the commits in between leave
results out.

`GrantKept` needs that refresh tokens are used once: no two rows hold the same
one (`TokensDistinct`), a caller sends the one of its row or one no row has any
more (`TokensIssued`), and one that came with an answer is nowhere else
(`AnswersUnshared`). So a rotation takes from no other row.

`HealedIsMapped` is not inductive because the loop marks failures it has handled
long before. `RepairInv` adds that what a loop has handled is learned
(`HandledIsLearned`), and the lemma `WrittenLearns` says that no commit makes
mapped or overwritten fields fewer.

`EventInv` follows one event: it has one place, in a source, in the stream or in
the future (`StampedOnce`); it is in one batch, and there only after the cursor
has passed it (`DeliveredOnce`); only the first event of a batch can have been
settled (`SettledOnce`); and what it was aimed at is what it has reached and what
is still to do (`AimedAndReached`).

`NewestInv` is about entities that are not `disturbed`: what was settled for such
an entity is in one row, stamped with the newest and with a version that counts
them (`Orderly`). A resolver that has read the row and not yet committed is the
hard case: any other commit in between, and any older event, disturbs the entity
in that same step, so in an undisturbed one it overwrites what it has read
(`SeenRows`: the row it read is still there).

`LateRunsBounded` counts what has happened; `LateInv` counts along what may still
come, the schedulers that have the row in their batch and have not created its
task. A late run moves a scheduler from the second to the first, enabling the row
resets the first, and a new selection takes only rows that are enabled.
`RunsSpaced` needs that no more is owed than is left to the row's date
(`owed <= left`), because claiming sets both and the clock moves both, and that a
row that waits in the batch owed nothing at the time its tick took. The runs
themselves may follow each other more closely, when the tick of the first was
slow. With two schedulers the second part is false: both may wait with the same
row.

`UsableSessionListed` is inductive only together with a bound: no access token
lives longer than the list of sessions, since the list is renewed whenever a token
is issued and only a token can make a session usable (`ListInv`). `RefreshInv`
adds to `RefreshedOnce` that a key that still lives has bought nothing, and that
what was bought and what may still be, by requests under way, are no more than
the processes, which is also the type of the counter. `CallInv` follows one
request of the SDK while Redis is up and no EAT's life has gone by: what was
renewed is no older than the call, so the request that is resent carries an EAT
that is good.

Proving found three places where a model was wrong and no run showed it; they are
corrected. Two cases of the mapping to `JobLifecycle` overlapped, where TLC takes
the first and the prover none. A logout that fails because Redis goes away was not
an outage in the history of the SDK's call; in the instance the two never happen
in one behaviour, and without it `RefusedOnlyWhenKilled` is false. And the rate of a
backend was rounded before it was compared with zero, which the code does not do:
one success in more than a hundred decisions is not an unknown rate.

## What is only model-checked

- Liveness (`TasksSettle`, `BreakerRecovers`, `RunSettles`, `MessagesSettle`,
  `StreamIsWorkedOff`, `StepsReachModel`, `DueServed`): liveness under fairness is
  beyond the prover.
- `LeaseExclusive`, `PlanRunsAlone` and the refinement do not hold when a worker
  outlives its lease (`lease_exclusive`), and neither do the lease invariants
  without row locks.
- The operators of `Translator`, `SemanticMapper`, `HandOff` and `SwarmMemory`,
  and what `ToolRouting` and `Registry` compute by folding over their data
  (`SeedIdempotent`, the choice of the best candidate): they are recursive or
  folds, and the prover has no induction over data. TLC evaluates them on all
  inputs of small sets.

## What is not modelled

- Federation: each call builds a client, forwards the payload and returns the
  answer. CLI, metrics, tracing, configuration, logging: wiring and observation.
- Tool evolution, the training of the mapping model, the embedding of names and
  the synthesis of rules: their decisions are numerical scores or generated text,
  which the other modules take as inputs.
- The query of the swarm memory for the latest of several facts: it is answered by
  a library of logic programming, whose rules the code sets up once and whose
  semantics is not in the repository.
- The parsing of a task's text into a plan, the contents of prompts, sign-up and
  passwords, and endpoints that only read rows.
- The SDK's task and tool executors (`engram_sdk/tasks.py`, `execution.py`): loops
  that call the poll and respond endpoints, which `Mailbox` models for any client;
  and `ControlPlane.run`, a loop like `drive()` in which the model's output, checked
  for the required fields, is the step's.
- In `Translator`, that a delta rule's `set` stores its value by reference, so that
  two messages may share it.
- The order of due schedules by `next_run_at`: any may come next, which allows more
  than the code does. Tasks and messages are taken oldest first, as in the code.

Some of the hazards listed in `PROJECT.json` no property covers, because the code
does what they fear: the dead letter of a multi-agent row that cannot be committed,
a response to an execution that is over, rows left RUNNING by an authorization
error, events that come late or overlap, two requests with one refresh token at
once, two schedulers, and a mapping overwritten from an older reading. The models
contain these behaviours; the properties set them apart, and their comments say
where.
