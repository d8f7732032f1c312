------------------------- MODULE WorkflowScheduler -------------------------
(***************************************************************************)
(* Workflows, their schedules and the schedulers that turn a due schedule  *)
(* into a task row (app/services/workflow_scheduler.py,                    *)
(* workflow_runner.py), while users change both through the API            *)
(* (app/api/v1/workflows.py).                                              *)
(*                                                                         *)
(* A tick of a scheduler selects the due schedules without locking them,   *)
(* takes the time once, and then handles one schedule after the other, in  *)
(* several commits each.  Its writes go by primary key: a date that a user *)
(* sets in between is overwritten, and a row that is gone makes the commit *)
(* fail, which ends the tick.                                              *)
(*                                                                         *)
(* A date is kept as the time left until it, 0 when it has come; a         *)
(* scheduler keeps how long ago it took the time.  last_run_at, which      *)
(* nothing reads, and the texts of a workflow are left out.  So are the    *)
(* workflows without an EAT: a schedule is put only on a workflow that has *)
(* one, and no operation takes it away.                                    *)
(***************************************************************************)
EXTENDS Integers, FiniteSets, Functions

CONSTANTS
  Workflows,   \* workflows that may be created
  NumRows,     \* schedule rows that may be created
  Schedulers,  \* the WorkflowSchedulers, one in each server process
  Requests,    \* POSTs of a schedule that may be in progress at one time
  Batch,       \* WORKFLOW_SCHEDULER_BATCH_SIZE
  Intervals,   \* the intervals users ask for, in clock ticks
  Horizon,     \* the longest time kept track of
  MaxCrashes   \* bound on the deaths of schedulers

Rows == 1 .. NumRows

ASSUME SchedulerAssumption ==
  /\ NumRows \in Nat
  /\ Horizon \in Nat \ {0}
  /\ Intervals \subseteq 1 .. Horizon
  /\ MaxCrashes \in Nat
  /\ Batch \in Nat \ {0}
  /\ IsFiniteSet(Schedulers)

VARIABLES
  workflow,  \* the workflows table
  schedule,  \* the workflow_schedules table
  request,   \* what each POST of a schedule in progress has read
  loop,      \* the tick of each scheduler
  crashes,   \* how many schedulers have died
  owed,      \* history: what is missing of the row's interval since the tick that ran it last took the time
  late       \* history: tasks created for the row since it was disabled or deleted

vars == <<workflow, schedule, request, loop, crashes, owed, late>>

-----------------------------------------------------------------------------

Live(w) == workflow[w] \in {"active", "inactive"}

ScheduleRow ==
  [life: {"unborn", "live", "deleted"}, workflow: Workflows, enabled: BOOLEAN,
   interval: Intervals, left: 0 .. Horizon]

\* "batch": between two schedules of the tick; "claimed": row's new date is
\* committed, its task is not; "created": its task is committed.  batch maps
\* the schedules still to be handled to their intervals as selected; known
\* holds the workflow read last, which the session does not read anew.
Loop ==
  [pc: {"idle", "batch", "claimed", "created"},
   batch: UNION {[S -> Intervals] : S \in SUBSET Rows},
   row: 0 .. NumRows,
   known: {<<>>} \cup (Workflows \X {"active", "inactive"}),
   lag: 0 .. Horizon]

Sleeping == [pc |-> "idle", batch |-> <<>>, row |-> 0, known |-> <<>>, lag |-> 0]

NoRequest == <<>>

\* The row has not been run, or a user has set its date since.
NothingOwed == -Horizon

\* A POST between its last read and its commit: the workflow, and the row found
\* for it or 0.
Posting == Workflows \X (0 .. NumRows)

TypeOK ==
  /\ workflow \in [Workflows -> {"unborn", "active", "inactive", "deleted"}]
  /\ schedule \in [Rows -> ScheduleRow]
  /\ request \in [Requests -> Posting \cup {NoRequest}]
  /\ loop \in [Schedulers -> Loop]
  /\ crashes \in 0 .. MaxCrashes
  /\ owed \in [Rows -> -Horizon .. Horizon]
  /\ late \in [Rows -> Nat]

Init ==
  /\ workflow = [w \in Workflows |-> "unborn"]
  /\ \E w \in Workflows, i \in Intervals :
       schedule = [s \in Rows |-> [life |-> "unborn", workflow |-> w, enabled |-> FALSE, interval |-> i, left |-> 0]]
  /\ request = [r \in Requests |-> NoRequest]
  /\ loop = [p \in Schedulers |-> Sleeping]
  /\ crashes = 0
  /\ owed = [s \in Rows |-> NothingOwed]
  /\ late = [s \in Rows |-> 0]

-----------------------------------------------------------------------------
(* The users: /api/v1/workflows.  A run on request (POST .../run) creates a  *)
(* task and changes nothing that is modelled here.                           *)

CreateWorkflow(w) ==
  /\ workflow[w] = "unborn"
  /\ \E flag \in {"active", "inactive"} : workflow' = [workflow EXCEPT ![w] = flag]
  /\ UNCHANGED <<schedule, request, loop, crashes, owed, late>>

\* is_active is set or cleared.
UpdateWorkflow(w) ==
  /\ Live(w)
  /\ workflow' = [workflow EXCEPT ![w] = IF @ = "active" THEN "inactive" ELSE "active"]
  /\ UNCHANGED <<schedule, request, loop, crashes, owed, late>>

\* Its schedules are not deleted along with it.  (PostgreSQL refuses as long as
\* there are any; SQLite, as it is configured here, does not.)
DeleteWorkflow(w) ==
  /\ Live(w)
  /\ workflow' = [workflow EXCEPT ![w] = "deleted"]
  /\ UNCHANGED <<schedule, request, loop, crashes, owed, late>>

SchedulesOf(w) == {s \in Rows : schedule[s].life = "live" /\ schedule[s].workflow = w}

\* upsert_workflow_schedule up to its last read: the workflow must be there, and
\* the first schedule found is the one that will be changed.
PostRead(r, w) ==
  /\ request[r] = NoRequest
  /\ Live(w)
  /\ \E row \in IF SchedulesOf(w) = {} THEN {0} ELSE SchedulesOf(w) :
       request' = [request EXCEPT ![r] = <<w, row>>]
  /\ UNCHANGED <<workflow, schedule, loop, crashes, owed, late>>

\* The row that a POST writes: the one it has read, or the next new one.
Written(found, s) ==
  IF found # 0
  THEN s = found /\ schedule[s].life = "live"
  ELSE schedule[s].life = "unborn" /\ \A u \in 1 .. s - 1 : schedule[u].life # "unborn"

\* Its commit.  The date is a start_at that has come, or an interval from now
\* (a start_at between the two comes due in the same way, only sooner).  Of the
\* row's columns only those are written that differ from what was read: the row
\* then keeps what someone else wrote there meanwhile, which is among the values
\* that this POST might have brought.
PostCommit(r) ==
  /\ request[r] # NoRequest
  /\ \E s \in Rows, enabled \in BOOLEAN, interval \in Intervals :
     \E left \in {0} \cup Intervals :
       /\ Written(request[r][2], s)
       /\ schedule' = [schedule EXCEPT ![s] =
            [life |-> "live", workflow |-> request[r][1], enabled |-> enabled,
             interval |-> interval, left |-> left]]
       /\ owed' = [owed EXCEPT ![s] = NothingOwed]
       /\ late' = [late EXCEPT ![s] = IF enabled THEN 0 ELSE @]
  /\ request' = [request EXCEPT ![r] = NoRequest]
  /\ UNCHANGED <<workflow, loop, crashes>>

\* The commit fails, for instance because the row is gone; or the request is cut
\* off.
PostFail(r) ==
  /\ request[r] # NoRequest
  /\ request' = [request EXCEPT ![r] = NoRequest]
  /\ UNCHANGED <<workflow, schedule, loop, crashes, owed, late>>

DeleteSchedule(s) ==
  /\ schedule[s].life = "live"
  /\ schedule' = [schedule EXCEPT ![s].life = "deleted", ![s].enabled = FALSE, ![s].left = 0]
  /\ owed' = [owed EXCEPT ![s] = NothingOwed]
  /\ UNCHANGED <<workflow, request, loop, crashes, late>>

-----------------------------------------------------------------------------
(* WorkflowScheduler._tick *)

\* (mutant) Disabled schedules are not left out.
DueOrDisabled(s) == schedule[s].life = "live" /\ schedule[s].left = 0

Due(s) == schedule[s].life = "live" /\ schedule[s].enabled /\ schedule[s].left = 0

\* Up to Batch due schedules; the time is taken before they are read.
Select(p) ==
  /\ loop[p].pc = "idle"
  /\ \E S \in SUBSET {s \in Rows : Due(s)} :
       /\ S # {} /\ Cardinality(S) <= Batch
       /\ Cardinality(S) < Batch => \A s \in Rows : Due(s) => s \in S
       /\ loop' = [loop EXCEPT ![p].pc = "batch", ![p].batch = [s \in S |-> schedule[s].interval]]
  /\ UNCHANGED <<workflow, schedule, request, crashes, owed, late>>

\* The next schedule of the batch is taken up: the row is not read again, and it
\* is there to be written or the commit will fail.
Visits(p, s) == loop[p].pc = "batch" /\ s \in DOMAIN loop[p].batch /\ schedule[s].life = "live"

\* is_active as the tick sees it.
Flag(p, w) ==
  IF loop[p].known # <<>> /\ loop[p].known[1] = w THEN loop[p].known[2] ELSE workflow[w]

\* The schedule is dealt with; known is the workflow that the session then holds.
Proceed(p, s, known) ==
  LET left == DOMAIN loop[p].batch \ {s}
      next == [pc |-> "batch", batch |-> Restrict(loop[p].batch, left), row |-> 0,
               known |-> known, lag |-> loop[p].lag]
  IN loop' = [loop EXCEPT ![p] = IF left = {} THEN Sleeping ELSE next]

\* now + interval, where now is lag ago.
Later(interval, lag) == IF lag < interval THEN interval - lag ELSE 0

NextDate(p, s) == Later(loop[p].batch[s], loop[p].lag)

\* The workflow is missing.
Disable(p, s) ==
  /\ Visits(p, s)
  /\ ~Live(schedule[s].workflow)
  /\ schedule' = [schedule EXCEPT ![s].enabled = FALSE]
  /\ Proceed(p, s, <<>>)
  /\ UNCHANGED <<workflow, request, crashes, owed, late>>

\* (mutant) The schedule of an inactive workflow is passed over.
PassOver(p, s) ==
  /\ Visits(p, s)
  /\ LET w == schedule[s].workflow
     IN Live(w) /\ Flag(p, w) = "inactive" /\ Proceed(p, s, <<w, "inactive">>)
  /\ UNCHANGED <<workflow, schedule, request, crashes, owed, late>>

\* The workflow is inactive.
Postpone(p, s) ==
  /\ Visits(p, s)
  /\ LET w == schedule[s].workflow
     IN Live(w) /\ Flag(p, w) = "inactive" /\ Proceed(p, s, <<w, "inactive">>)
  /\ schedule' = [schedule EXCEPT ![s].left = NextDate(p, s)]
  /\ UNCHANGED <<workflow, request, crashes, owed, late>>

\* (mutant) The next date is not committed before the task is created.
ClaimUndated(p, s) ==
  /\ Visits(p, s)
  /\ Live(schedule[s].workflow) /\ Flag(p, schedule[s].workflow) = "active"
  /\ loop' = [loop EXCEPT ![p].pc = "claimed", ![p].row = s]
  /\ owed' = [owed EXCEPT ![s] = loop[p].batch[s] - loop[p].lag]
  /\ UNCHANGED <<workflow, schedule, request, crashes, late>>

\* The next date is committed: the run is now this scheduler's to enqueue.
Claim(p, s) ==
  /\ Visits(p, s)
  /\ Live(schedule[s].workflow) /\ Flag(p, schedule[s].workflow) = "active"
  /\ schedule' = [schedule EXCEPT ![s].left = NextDate(p, s)]
  /\ loop' = [loop EXCEPT ![p].pc = "claimed", ![p].row = s]
  /\ owed' = [owed EXCEPT ![s] = loop[p].batch[s] - loop[p].lag]
  /\ UNCHANGED <<workflow, request, crashes, late>>

\* create_task_from_workflow, its first commit: the task row, whatever became of
\* the schedule or the workflow since they were read.
CreateTask(p) ==
  /\ loop[p].pc = "claimed"
  /\ loop' = [loop EXCEPT ![p].pc = "created"]
  /\ late' = [late EXCEPT ![loop[p].row] = IF schedule[loop[p].row].enabled THEN 0 ELSE @ + 1]
  /\ UNCHANGED <<workflow, schedule, request, crashes, owed>>

\* No plan can be made of the command: the exception is logged, the run is lost.
NoPlan(p) ==
  /\ loop[p].pc = "claimed"
  /\ Proceed(p, loop[p].row, <<schedule[loop[p].row].workflow, "active">>)
  /\ UNCHANGED <<workflow, schedule, request, crashes, owed, late>>

\* Its second commit, of the workflow's last_run_at, after which the workflow is
\* read again.
StampWorkflow(p) ==
  /\ loop[p].pc = "created"
  /\ LET w == schedule[loop[p].row].workflow
     IN Live(w) /\ Proceed(p, loop[p].row, <<w, workflow[w]>>)
  /\ UNCHANGED <<workflow, schedule, request, crashes, owed, late>>

\* A commit finds its row gone.  The tick ends there, also where the exception
\* is caught: the session has to be rolled back before it can be used again.
Abort(p) ==
  /\ \/ loop[p].pc = "batch" /\ \E s \in DOMAIN loop[p].batch : schedule[s].life # "live"
     \/ loop[p].pc = "created" /\ ~Live(schedule[loop[p].row].workflow)
  /\ loop' = [loop EXCEPT ![p] = Sleeping]
  /\ UNCHANGED <<workflow, schedule, request, crashes, owed, late>>

\* A crash, WorkflowScheduler.stop, or a commit that fails for another reason.
Die(p) ==
  /\ loop[p].pc # "idle"
  /\ crashes < MaxCrashes
  /\ crashes' = crashes + 1
  /\ loop' = [loop EXCEPT ![p] = Sleeping]
  /\ UNCHANGED <<workflow, schedule, request, owed, late>>

-----------------------------------------------------------------------------

Older(n) == IF n < Horizon THEN n + 1 ELSE Horizon

\* (mutant) The date of a row that stays due goes on being counted down.
SoonerUnfloored(n) == n - 1

Sooner(n) == IF n > 0 THEN n - 1 ELSE 0

Paid(n) == IF n > -Horizon THEN n - 1 ELSE n

Tick ==
  /\ schedule' = [s \in Rows |-> [schedule[s] EXCEPT !.left = Sooner(@)]]
  /\ loop' = [p \in Schedulers |-> IF loop[p].pc = "idle" THEN loop[p] ELSE [loop[p] EXCEPT !.lag = Older(@)]]
  /\ owed' = [s \in Rows |-> Paid(owed[s])]
  /\ UNCHANGED <<workflow, request, crashes, late>>

User ==
  \/ \E w \in Workflows : CreateWorkflow(w) \/ UpdateWorkflow(w) \/ DeleteWorkflow(w)
  \/ \E r \in Requests, w \in Workflows : PostRead(r, w)
  \/ \E r \in Requests : PostCommit(r) \/ PostFail(r)
  \/ \E s \in Rows : DeleteSchedule(s)

Work(p) ==
  \/ Select(p)
  \/ \E s \in Rows : Disable(p, s) \/ Postpone(p, s) \/ Claim(p, s)
  \/ CreateTask(p) \/ NoPlan(p) \/ StampWorkflow(p) \/ Abort(p)

Next == User \/ Tick \/ \E p \in Schedulers : Work(p) \/ Die(p)

Spec == Init /\ [][Next]_vars

\* A scheduler that is alive goes on with its tick and starts the next one.
\* Neither the users nor the clock are obliged to anything.
FairSpec == Spec /\ \A p \in Schedulers : WF_vars(Work(p))

-----------------------------------------------------------------------------
(* Properties *)

\* After a user has disabled or deleted a schedule, each scheduler starts at
\* most one more run of it, the one it had selected before, also when the
\* change comes in the middle of its tick, and although the tick writes the row
\* afterwards.
LateRunsBounded == \A s \in Rows : late[s] <= Cardinality(Schedulers)

\* With one scheduler, the times from which two ticks that run the same schedule
\* count (their "now") are at least its interval apart, unless a user sets a date
\* in between: the new date is committed before the task is created, so not even
\* a crash brings the old one back.  (Two runs may follow each other sooner than
\* that, when the tick of the first was slow.)
RunsSpaced ==
  [][\A p \in Schedulers, s \in Rows :
       Visits(p, s) /\ loop'[p].pc = "claimed" /\ loop'[p].row = s => owed[s] + loop[p].lag <= 0]_vars

\* A due schedule does not stay due, whatever users do meanwhile and whichever
\* other rows of the batch fail: it is run, put off, disabled or deleted, unless
\* a tick takes as long as an interval.
DueServed ==
  \A s \in Rows : Due(s) ~> (~Due(s) \/ \E p \in Schedulers, i \in Intervals : loop[p].lag >= i)
=============================================================================
