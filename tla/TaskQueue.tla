----------------------------- MODULE TaskQueue -----------------------------
(***************************************************************************)
(* The SQL task queue of the middleware and the TaskWorkers that drain it. *)
(*                                                                         *)
(* A row of the tasks table is leased by a worker (app/services/queue.py), *)
(* processed in the worker's own database session and written back when    *)
(* the processing ends (app/services/task_worker.py).  The write-back is   *)
(* an UPDATE by primary key: it asks neither who holds the lease nor       *)
(* whether the row has moved on, so a worker that outlives its lease can   *)
(* still overwrite the row, and it writes only the columns that differ     *)
(* from what the session has loaded.  After the commit of a lease, and of  *)
(* each change that execute_task makes, the session loads the row again    *)
(* (session.refresh), in a transaction of its own.  Workers die (a crash,  *)
(* or the cancellation in TaskWorker.stop) at any await and leave the row  *)
(* as it last was.                                                         *)
(*                                                                         *)
(* Time is kept as the time left on a lease (leased_until - now), which a  *)
(* Tick takes one unit off; Expired stands for every leased_until in the   *)
(* past, NoLease for NULL.  Nothing in the code compares lease_owner, so   *)
(* the column is not kept.                                                 *)
(***************************************************************************)
EXTENDS Integers, FiniteSets

CONSTANTS
  NumTasks,     \* rows that may be created; a row's id is its creation order
  MultiAgent,   \* the rows whose target_protocol is "MULTI_AGENT"
  Addressed,    \* the rows whose target_agent_id is not NULL
  Workers,      \* the TaskWorker loops, of any number of server processes
  MaxAttempts,  \* the max_attempts column of each row
  Lease,        \* TASK_LEASE_SECONDS, in ticks
  RowLocks,     \* TRUE on PostgreSQL; SQLite ignores FOR UPDATE SKIP LOCKED
  MayOverrun    \* may processing outlast the lease?

Tasks == 1 .. NumTasks

ASSUME QueueAssumption ==
  /\ NumTasks \in Nat
  /\ MultiAgent \subseteq Tasks
  /\ Addressed \subseteq Tasks
  /\ Tasks \ MultiAgent \subseteq Addressed
  /\ MaxAttempts \in [Tasks -> Nat]
  /\ Lease \in Nat
  /\ RowLocks \in BOOLEAN
  /\ MayOverrun \in BOOLEAN
  /\ IsFiniteSet(Workers)

VARIABLES
  tasks,    \* the tasks table
  msgs,     \* what the workers have put into agent_messages, by outcome
  worker,   \* the local state of each worker: its session's copy of the row
  replies,  \* the rows that a respond request in progress has read as open
  execs     \* history: how often each row has been handed to a worker

vars == <<tasks, msgs, worker, replies, execs>>

-----------------------------------------------------------------------------
(* Rows and workers *)

Expired == -1
NoLease == -2

RowStatus == {"absent", "PENDING", "LEASED", "RUNNING", "COMPLETED", "DEAD_LETTER"}

Row == [status: RowStatus, attempts: Nat, left: NoLease .. Lease, completed: BOOLEAN]

AbsentRow == [status |-> "absent", attempts |-> 0, left |-> NoLease, completed |-> FALSE]

MessageCounts == [ok: Nat, error: Nat, dead: Nat]

NoMessages == [ok |-> 0, error |-> 0, dead |-> 0]

\* "selected": between the SELECT and the COMMIT of lease_task; "committed":
\* before its refresh; "leased": in _process_task; "routedOk" and "routedError":
\* routeTo has returned a message or an error dictionary; "started": inside
\* execute_task, RUNNING is committed and not yet refreshed; "running": after that.
WorkerPC == {"idle", "selected", "committed", "leased", "routedOk", "routedError", "started", "running"}

\* attempts, status and leased (leased_until is not NULL) are what the worker's
\* session has loaded of the row, left is the lease that was granted; late is
\* history: a refresh has loaded the attempts of somebody else's lease.
WorkerState ==
  [pc: WorkerPC, task: 0 .. NumTasks, left: NoLease .. Lease,
   attempts: Nat, status: RowStatus, leased: BOOLEAN, late: BOOLEAN]

Idle ==
  [pc |-> "idle", task |-> 0, left |-> NoLease,
   attempts |-> 0, status |-> "absent", leased |-> FALSE, late |-> FALSE]

Busy(w, t) == worker[w].pc # "idle" /\ worker[w].task = t

\* The worker has committed a lease and has not yet written the row back.
Holding(w, t) == Busy(w, t) /\ worker[w].pc # "selected"

\* (mutant) FOR UPDATE forgotten.
NotLocked(t) == FALSE

\* The row lock that SELECT ... FOR UPDATE keeps until the lease is committed.
Locked(t) == RowLocks /\ \E w \in Workers : worker[w].pc = "selected" /\ worker[w].task = t

\* What the row shows after an UPDATE by w that sets the status, or clears the
\* lease: a column that already is what the session has loaded is not written.
StatusSet(w, status) == IF worker[w].status = status THEN tasks[worker[w].task].status ELSE status

LeaseCleared(w) == IF worker[w].leased THEN NoLease ELSE tasks[worker[w].task].left

TypeOK ==
  /\ tasks \in [Tasks -> Row]
  /\ msgs \in [Tasks -> MessageCounts]
  /\ worker \in [Workers -> WorkerState]
  /\ \A w \in Workers : worker[w].pc # "idle" => worker[w].task \in Tasks
  /\ replies \subseteq Tasks
  /\ execs \in [Tasks -> Nat]

Init ==
  /\ tasks = [t \in Tasks |-> AbsentRow]
  /\ msgs = [t \in Tasks |-> NoMessages]
  /\ worker = [w \in Workers |-> Idle]
  /\ replies = {}
  /\ execs = [t \in Tasks |-> 0]

-----------------------------------------------------------------------------
(* Producers: POST /queue/enqueue, POST /tasks/submit, create_task_from_workflow *)

Enqueue(t) ==
  /\ tasks[t].status = "absent"
  /\ \A u \in 1 .. t - 1 : tasks[u].status # "absent"
  /\ tasks' = [tasks EXCEPT ![t].status = "PENDING"]
  /\ UNCHANGED <<msgs, worker, execs, replies>>

-----------------------------------------------------------------------------
(* lease_task *)

\* (mutant) A running row counts as an expired lease.
ReadyOrRunning(t) ==
  /\ \/ tasks[t].status = "PENDING"
     \/ tasks[t].status \in {"LEASED", "RUNNING"} /\ tasks[t].left = Expired
  /\ tasks[t].attempts < MaxAttempts[t]

\* (mutant) leased_until is not compared with the clock.
ReadyOrLeased(t) ==
  tasks[t].status \in {"PENDING", "LEASED"} /\ tasks[t].attempts < MaxAttempts[t]

\* (mutant) Expired leases are not picked up again.
ReadyPending(t) ==
  tasks[t].status = "PENDING" /\ tasks[t].attempts < MaxAttempts[t]

Ready(t) ==
  /\ \/ tasks[t].status = "PENDING"
     \/ tasks[t].status = "LEASED" /\ tasks[t].left = Expired
  /\ tasks[t].attempts < MaxAttempts[t]

\* What the session of a worker loads of a row.
Loaded(t, pc, left, late) ==
  [pc |-> pc, task |-> t, left |-> left, attempts |-> tasks[t].attempts,
   status |-> tasks[t].status, leased |-> tasks[t].left # NoLease, late |-> late]

\* (mutant) Every attempt is leased for longer than the one before.
LeaseSelectLonger(w) ==
  /\ worker[w].pc = "idle"
  /\ \E t \in Tasks :
       /\ Ready(t) /\ ~Locked(t)
       /\ \A u \in 1 .. t - 1 : ~(Ready(u) /\ ~Locked(u))
       /\ worker' = [worker EXCEPT ![w] = Loaded(t, "selected", Lease * (tasks[t].attempts + 1), FALSE)]
  /\ UNCHANGED <<tasks, msgs, execs, replies>>

\* The SELECT: the oldest ready row that no other transaction has locked.  The
\* clock is read just before it, so the new lease already runs.
LeaseSelect(w) ==
  /\ worker[w].pc = "idle"
  /\ \E t \in Tasks :
       /\ Ready(t) /\ ~Locked(t)
       /\ \A u \in 1 .. t - 1 : ~(Ready(u) /\ ~Locked(u))
       /\ worker' = [worker EXCEPT ![w] = Loaded(t, "selected", Lease, FALSE)]
  /\ UNCHANGED <<tasks, msgs, execs, replies>>

\* (mutant) The attempt is not counted.
LeaseCommitUncounted(w) ==
  /\ worker[w].pc = "selected"
  /\ tasks' = [tasks EXCEPT ![worker[w].task].status = "LEASED", ![worker[w].task].left = worker[w].left]
  /\ worker' = [worker EXCEPT ![w].pc = "committed", ![w].status = "LEASED", ![w].leased = TRUE]
  /\ execs' = [execs EXCEPT ![worker[w].task] = @ + 1]
  /\ UNCHANGED <<msgs, replies>>

\* The UPDATE and COMMIT, with the attempts computed from the row as selected.
LeaseCommit(w) ==
  /\ worker[w].pc = "selected"
  /\ LET t == worker[w].task
         n == worker[w].attempts + 1
     IN /\ tasks' = [tasks EXCEPT ![t].status = StatusSet(w, "LEASED"),
                                  ![t].attempts = n,
                                  ![t].left = worker[w].left]
        /\ worker' = [worker EXCEPT ![w].pc = "committed", ![w].attempts = n,
                                    ![w].status = "LEASED", ![w].leased = TRUE]
        /\ execs' = [execs EXCEPT ![t] = @ + 1]
  /\ UNCHANGED <<msgs, replies>>

\* session.refresh, on a connection that holds no lock any more: the session
\* now has whatever the row has become since.
Reload(w, pc) ==
  LET t == worker[w].task
  IN /\ worker' = [worker EXCEPT ![w] =
          Loaded(t, pc, @.left, @.late \/ tasks[t].attempts # @.attempts)]
     /\ UNCHANGED <<tasks, msgs, execs, replies>>

\* The refresh that ends lease_task, and the one after RUNNING is committed.
Refresh(w) ==
  \/ worker[w].pc = "committed" /\ Reload(w, "leased")
  \/ worker[w].pc = "started" /\ Reload(w, "running")

-----------------------------------------------------------------------------
(* TaskWorker._process_task *)

\* routeTo, behind the reliability middleware, returns a routed message or an
\* error dictionary; it does not raise for a failed route.
Route(w) ==
  /\ worker[w].pc = "leased"
  /\ worker[w].task \notin MultiAgent
  /\ \E result \in {"routedOk", "routedError"} :
       worker' = [worker EXCEPT ![w].pc = result]
  /\ UNCHANGED <<tasks, msgs, execs, replies>>

\* (mutant) The message is committed on its own, before the row.
DeliverMessageFirst(w) ==
  /\ worker[w].pc \in {"routedOk", "routedError"}
  /\ msgs' = [msgs EXCEPT ![worker[w].task].ok = @ + 1]
  /\ worker' = [worker EXCEPT ![w].pc = "leased"]
  /\ UNCHANGED <<tasks, execs, replies>>

\* (mutant) The row is committed on its own, before the message.
DeliverRowFirst(w) ==
  /\ worker[w].pc \in {"routedOk", "routedError"}
  /\ tasks' = [tasks EXCEPT ![worker[w].task].status = "COMPLETED", ![worker[w].task].completed = TRUE]
  /\ worker' = [worker EXCEPT ![w] = Idle]
  /\ UNCHANGED <<msgs, execs, replies>>

\* The AgentMessage and the row are committed in one transaction.
Deliver(w) ==
  /\ worker[w].pc \in {"routedOk", "routedError"}
  /\ LET t == worker[w].task
     IN /\ ~Locked(t)
        /\ msgs' = IF worker[w].pc = "routedOk" THEN [msgs EXCEPT ![t].ok = @ + 1]
                                                ELSE [msgs EXCEPT ![t].error = @ + 1]
        /\ tasks' = [tasks EXCEPT ![t].status = StatusSet(w, "COMPLETED"),
                                  ![t].completed = TRUE,
                                  ![t].left = LeaseCleared(w)]
  /\ worker' = [worker EXCEPT ![w] = Idle]
  /\ UNCHANGED <<execs, replies>>

\* Before the routing answers, or inside execute_task (its EAT does not verify,
\* or a step of a plan that the client gave has no agent).
MayRaise(w) == worker[w].pc \in {"leased", "running"}

\* The exception path below the limit: the row goes back to PENDING.
Retry(w) ==
  /\ MayRaise(w)
  /\ worker[w].attempts < MaxAttempts[worker[w].task]
  /\ ~Locked(worker[w].task)
  /\ tasks' = [tasks EXCEPT ![worker[w].task].status = StatusSet(w, "PENDING"),
                            ![worker[w].task].left = LeaseCleared(w)]
  /\ worker' = [worker EXCEPT ![w] = Idle]
  /\ UNCHANGED <<msgs, execs, replies>>

\* (mutant) One attempt too early.
DeadLetterEarly(w) ==
  /\ worker[w].pc = "leased"
  /\ worker[w].attempts >= MaxAttempts[worker[w].task] - 1
  /\ tasks' = [tasks EXCEPT ![worker[w].task].status = "DEAD_LETTER", ![worker[w].task].left = NoLease]
  /\ msgs' = [msgs EXCEPT ![worker[w].task].dead = @ + 1]
  /\ worker' = [worker EXCEPT ![w] = Idle]
  /\ UNCHANGED <<execs, replies>>

\* The exception path at the limit.  The dead letter copies target_agent_id
\* into agent_messages.agent_id, which is NOT NULL: for a row without a target
\* agent the commit fails and the row is left as it was.
DeadLetter(w) ==
  /\ MayRaise(w)
  /\ worker[w].attempts >= MaxAttempts[worker[w].task]
  /\ LET t == worker[w].task
     IN IF t \in Addressed
        THEN /\ ~Locked(t)
             /\ tasks' = [tasks EXCEPT ![t].status = StatusSet(w, "DEAD_LETTER"),
                                       ![t].left = LeaseCleared(w)]
             /\ msgs' = [msgs EXCEPT ![t].dead = @ + 1]
        ELSE UNCHANGED <<tasks, msgs>>
  /\ worker' = [worker EXCEPT ![w] = Idle]
  /\ UNCHANGED <<execs, replies>>

-----------------------------------------------------------------------------
(* MultiAgentOrchestrator.execute_task, as far as the row sees it; module  *)
(* MultiAgentRun has the steps.                                            *)

RunStart(w) ==
  /\ worker[w].pc = "leased"
  /\ worker[w].task \in MultiAgent
  /\ ~Locked(worker[w].task)
  /\ tasks' = [tasks EXCEPT ![worker[w].task].status = StatusSet(w, "RUNNING")]
  /\ worker' = [worker EXCEPT ![w].pc = "started", ![w].status = "RUNNING"]
  /\ UNCHANGED <<msgs, execs, replies>>

\* A step of the plan has been committed, and the row is refreshed again.
StepRefresh(w) == worker[w].pc = "running" /\ Reload(w, "running")

RunComplete(w) ==
  /\ worker[w].pc = "running"
  /\ ~Locked(worker[w].task)
  /\ tasks' = [tasks EXCEPT ![worker[w].task].status = StatusSet(w, "COMPLETED"),
                            ![worker[w].task].completed = TRUE]
  /\ worker' = [worker EXCEPT ![w] = Idle]
  /\ UNCHANGED <<msgs, execs, replies>>

\* No plan, a permanent error, or a step that failed three times.
RunDeadLetter(w) ==
  /\ worker[w].pc = "running"
  /\ ~Locked(worker[w].task)
  /\ tasks' = [tasks EXCEPT ![worker[w].task].status = StatusSet(w, "DEAD_LETTER")]
  /\ worker' = [worker EXCEPT ![w] = Idle]
  /\ UNCHANGED <<msgs, execs, replies>>

\* An expired provider token or invalid credentials: execute_task returns an
\* error dictionary without touching the row, and the worker drops it.
RunAuthError(w) ==
  /\ worker[w].pc = "running"
  /\ worker' = [worker EXCEPT ![w] = Idle]
  /\ UNCHANGED <<tasks, msgs, execs, replies>>

-----------------------------------------------------------------------------
(* The environment *)

\* (mutant) A response completes a dead-lettered row.
RespondToDeadLetter(t) ==
  /\ msgs[t] # NoMessages
  /\ ~tasks[t].completed
  /\ replies' = replies \cup {t}
  /\ UNCHANGED <<tasks, msgs, worker, execs>>

\* POST /agents/messages/{id}/respond, the part that touches the task row
\* (module Mailbox has the messages): the row is read without a lock, and
\* completed later if it read as open.  The endpoint takes the id of any
\* message, a dead letter's too.
RespondRead(t) ==
  /\ msgs[t] # NoMessages
  /\ ~tasks[t].completed
  /\ tasks[t].status # "DEAD_LETTER"
  /\ replies' = replies \cup {t}
  /\ UNCHANGED <<tasks, msgs, worker, execs>>

RespondCommit(t) ==
  /\ t \in replies
  /\ ~Locked(t)
  /\ tasks' = [tasks EXCEPT ![t].status = "COMPLETED", ![t].completed = TRUE]
  /\ replies' = replies \ {t}
  /\ UNCHANGED <<msgs, worker, execs>>

\* A crash of the process, or TaskWorker.stop: CancelledError is not an
\* Exception, so no handler writes the row.  An open transaction rolls back.
\* A commit that fails leaves the same behind: the exception path would commit
\* in a session that has to be rolled back first.
Die(w) ==
  /\ worker[w].pc # "idle"
  /\ worker' = [worker EXCEPT ![w] = Idle]
  /\ UNCHANGED <<tasks, msgs, execs, replies>>

Elapse(left) == IF left \in {NoLease, Expired} THEN left ELSE left - 1

UsesLease(w) == worker[w].pc \in {"selected", "committed", "leased", "routedOk", "routedError"}

Tick ==
  /\ MayOverrun \/ \A w \in Workers : UsesLease(w) => worker[w].left > 0
  /\ tasks' = [t \in Tasks |-> [tasks[t] EXCEPT !.left = Elapse(@)]]
  /\ worker' = [w \in Workers |-> [worker[w] EXCEPT !.left = Elapse(@)]]
  /\ UNCHANGED <<msgs, execs, replies>>

-----------------------------------------------------------------------------

Finish(w) == Deliver(w) \/ Retry(w) \/ DeadLetter(w)

Run(w) == RunStart(w) \/ RunComplete(w) \/ RunDeadLetter(w) \/ RunAuthError(w)

Next ==
  \/ \E t \in Tasks : Enqueue(t) \/ RespondRead(t) \/ RespondCommit(t)
  \/ \E w \in Workers :
       \/ LeaseSelect(w) \/ LeaseCommit(w) \/ Refresh(w) \/ Route(w) \/ Finish(w)
       \/ Run(w) \/ StepRefresh(w) \/ Die(w)
  \/ Tick

Spec == Init /\ [][Next]_vars

\* A worker that is alive keeps polling, every await of its code returns, a plan
\* has only so many steps and time passes.  Deaths may go on for ever, but no
\* worker dies in each and every lease transaction it opens.  Nothing is assumed
\* of producers and agents.
Fairness ==
  /\ WF_vars(Tick)
  /\ \A w \in Workers :
       /\ WF_vars(LeaseSelect(w) \/ Refresh(w) \/ Route(w) \/ Finish(w) \/ Run(w))
       /\ SF_vars(LeaseCommit(w))

FairSpec == Spec /\ Fairness

-----------------------------------------------------------------------------
(* Properties under row locks, whatever outlives its lease or dies *)

Sent(t) == msgs[t].ok + msgs[t].error + msgs[t].dead

Holders(t) == {w \in Workers : Holding(w, t)}

\* A row is handed to workers at most max_attempts times, counting the workers
\* that died with it: lease_task filters on attempts, and only the row lock
\* keeps two workers from leasing on the strength of the same count.
ExecutionsBounded == \A t \in Tasks : execs[t] <= MaxAttempts[t]

\* Two workers that hold the same row hold it under different attempt numbers,
\* which they pass to routeTo as retry_count, a part of the idempotency key.
\* The exception is a worker that was late: between the commit of its lease and
\* the refresh (or, in execute_task, between two refreshes) the row was leased
\* again, and it goes on under the number of that lease, as its holder does.
AttemptsDistinct ==
  \A t \in Tasks : \A v, w \in Holders(t) :
    ~worker[v].late /\ ~worker[w].late /\ v # w => worker[v].attempts # worker[w].attempts

\* Each execution of a row puts at most one message into agent_messages: those
\* sent and those still to come never outnumber the leases.
OneMessagePerExecution ==
  \A t \in Tasks : Sent(t) + Cardinality(Holders(t)) <= execs[t]

\* A translation task that reads COMPLETED has a message for its agent: the two
\* are committed together, and a respond that completes a row needs a message.
CompletedHasMessage ==
  \A t \in Tasks \ MultiAgent : tasks[t].completed => Sent(t) > 0

\* A translation task is dead-lettered only when its attempts are used up, and
\* then the dead letter is there, also when a late worker wrote the row last.
DeadLetterExhausted ==
  \A t \in Tasks \ MultiAgent : tasks[t].status = "DEAD_LETTER" =>
    tasks[t].attempts = MaxAttempts[t] /\ msgs[t].dead > 0

-----------------------------------------------------------------------------
(* Why they hold: the inductive invariant of TaskQueueProofs, for RowLocks.  *)

\* Leases are counted in the row, and the count never passes the limit.
LeasesCounted ==
  \A t \in Tasks : execs[t] = tasks[t].attempts /\ tasks[t].attempts <= MaxAttempts[t]

\* What a lease transaction has read is still so when it commits.
SelectionFresh ==
  \A w \in Workers : worker[w].pc = "selected" =>
    LET t == worker[w].task
    IN /\ worker[w].attempts = tasks[t].attempts
       /\ worker[w].status = tasks[t].status
       /\ tasks[t].attempts < MaxAttempts[t]
       /\ tasks[t].status \in {"PENDING", "LEASED"}

\* Two lease transactions never have the same row.
SelectionExclusive ==
  \A v, w \in Workers :
    worker[v].pc = "selected" /\ worker[w].pc = "selected" /\ worker[v].task = worker[w].task => v = w

\* A worker holds its row under an attempt number the row has reached.
HeldCounted ==
  \A w \in Workers : worker[w].pc \notin {"idle", "selected"} =>
    worker[w].attempts <= tasks[worker[w].task].attempts

\* A translation row is routed, a multi-agent row is run; and a reply is in
\* progress only for a row that has a message.
RowKinds ==
  /\ \A w \in Workers : worker[w].pc \in {"started", "running"} => worker[w].task \in MultiAgent
  /\ \A t \in replies : msgs[t] # NoMessages

LeaseInv == LeasesCounted /\ SelectionFresh /\ SelectionExclusive /\ HeldCounted /\ AttemptsDistinct

-----------------------------------------------------------------------------
(* Properties that need leases to be kept (MayOverrun = FALSE) *)

\* TASK_LEASE_SECONDS: while a worker's lease runs, no other worker has one.
LeaseExclusive ==
  \A t \in Tasks : \A v, w \in Holders(t) :
    worker[v].left # Expired /\ worker[w].left # Expired => v = w

\* While a worker runs a plan nobody else holds its row, however long past the
\* lease the plan goes on: the row is RUNNING, which lease_task does not look
\* for, and no worker is late that could write it back to PENDING.
PlanRunsAlone ==
  \A t \in Tasks : \A v, w \in Holders(t) :
    worker[v].pc \in {"started", "running"} => v = w

\* (For TaskQueueProofs.)  A worker in time and its row agree: the lease runs
\* on both, and nobody has written the row in between.
RowInStep(w) ==
  LET row == tasks[worker[w].task]
  IN /\ UsesLease(w) => worker[w].left # Expired
     /\ worker[w].pc = "selected" =>
          row.status = "PENDING" \/ (row.status = "LEASED" /\ row.left = Expired)
     /\ worker[w].pc \in {"committed", "leased", "routedOk", "routedError"} =>
          /\ row.status = "LEASED" /\ row.left = worker[w].left /\ row.attempts = worker[w].attempts
          /\ worker[w].status = "LEASED"
     /\ worker[w].pc \in {"started", "running"} =>
          /\ row.status = "RUNNING" /\ row.attempts = worker[w].attempts
          /\ worker[w].status = "RUNNING"

OneWorkerPerRow ==
  \A v, w \in Workers :
    worker[v].pc # "idle" /\ worker[w].pc # "idle" /\ worker[v].task = worker[w].task => v = w

\* A message settles its row, so there is never an open row to respond to.
MessagesSettleRows ==
  /\ replies = {}
  /\ \A t \in Tasks : msgs[t] # NoMessages => tasks[t].status \in {"COMPLETED", "DEAD_LETTER"}
  /\ \A t \in Tasks : tasks[t].status = "COMPLETED" => tasks[t].completed

PromptInv == (\A w \in Workers : RowInStep(w)) /\ OneWorkerPerRow /\ MessagesSettleRows

\* Nobody will ever lease the row again: its attempts are used up, and the
\* worker that used the last one, if there was one, is gone.
Abandoned(t) ==
  /\ tasks[t].attempts = MaxAttempts[t]
  /\ \/ tasks[t].status = "PENDING"
     \/ tasks[t].status = "LEASED" /\ tasks[t].left = Expired

JobPhase(t) ==
  CASE tasks[t].status = "absent" -> "none"
    [] tasks[t].status = "COMPLETED" -> "done"
    [] tasks[t].status = "DEAD_LETTER" -> "failed"
    [] Abandoned(t) /\ tasks[t].status = "LEASED" -> "lost"
    [] tasks[t].status = "PENDING" -> "waiting"
    [] tasks[t].status = "LEASED" /\ tasks[t].left = Expired /\ ~Abandoned(t) -> "waiting"
    [] OTHER -> "working"

Abstract ==
  INSTANCE JobLifecycle WITH
    Jobs <- Tasks, MaxTries <- MaxAttempts,
    phase <- [t \in Tasks |-> JobPhase(t)],
    tries <- [t \in Tasks |-> tasks[t].attempts],
    sent <- [t \in Tasks |-> Sent(t)]

\* Every row is a job: one worker at a time, at most max_attempts tries, at most
\* one message, and settled rows stay settled.
JobsImplemented == Abstract!JobSpec

\* Every translation task that was accepted ends: completed, dead-lettered, or
\* abandoned with its attempts used up.
TasksSettle ==
  \A t \in Tasks \ MultiAgent :
    (tasks[t].status # "absent") ~> (tasks[t].status \in {"COMPLETED", "DEAD_LETTER"} \/ Abandoned(t))
=============================================================================
