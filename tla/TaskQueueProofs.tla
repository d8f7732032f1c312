-------------------------- MODULE TaskQueueProofs --------------------------
(***************************************************************************)
(* Proofs about TaskQueue, for any number of rows and workers, any lease,  *)
(* any attempt limits and any mix of row kinds: types, the lease invariant *)
(* with what follows from it, the messages an execution leaves, and, as    *)
(* long as no worker outlives its lease, exclusive leases and the          *)
(* refinement of JobLifecycle.                                             *)
(***************************************************************************)
EXTENDS TaskQueue, FiniteSetTheorems, TLAPS

-----------------------------------------------------------------------------
(* What an update of one field does to a record *)

\* A row stays a row when one of its fields is given a value of its type.
LEMMA RowUpdate ==
  /\ \A r \in Row, s \in RowStatus : [r EXCEPT !.status = s] \in Row
  /\ \A r \in Row, n \in Nat : [r EXCEPT !.attempts = n] \in Row
  /\ \A r \in Row, l \in NoLease .. Lease : [r EXCEPT !.left = l] \in Row
  /\ \A r \in Row, b \in BOOLEAN : [r EXCEPT !.completed = b] \in Row
BY DEF Row

\* The same for the state of a worker.
LEMMA WorkerUpdate ==
  /\ \A r \in WorkerState, p \in WorkerPC : [r EXCEPT !.pc = p] \in WorkerState
  /\ \A r \in WorkerState, n \in Nat : [r EXCEPT !.attempts = n] \in WorkerState
  /\ \A r \in WorkerState, l \in NoLease .. Lease : [r EXCEPT !.left = l] \in WorkerState
  /\ \A r \in WorkerState, s \in RowStatus : [r EXCEPT !.status = s] \in WorkerState
  /\ \A r \in WorkerState, b \in BOOLEAN : [r EXCEPT !.leased = b] \in WorkerState
BY DEF WorkerState

\* The same for the message counts, which only ever grow by one.
LEMMA CountUpdate ==
  \A r \in MessageCounts :
    /\ [r EXCEPT !.ok = @ + 1] \in MessageCounts
    /\ [r EXCEPT !.error = @ + 1] \in MessageCounts
    /\ [r EXCEPT !.dead = @ + 1] \in MessageCounts
BY DEF MessageCounts

\* The time left on a lease stays between NoLease and Lease as it elapses.
LEMMA LeaseLeft ==
  /\ NoLease \in NoLease .. Lease /\ Lease \in NoLease .. Lease
  /\ \A l \in NoLease .. Lease : Elapse(l) \in NoLease .. Lease
BY QueueAssumption DEF Expired, NoLease, Elapse

LEMMA IdleState == Idle \in WorkerState /\ Idle.pc = "idle"
BY QueueAssumption, LeaseLeft DEF Idle, WorkerState, WorkerPC, RowStatus

-----------------------------------------------------------------------------
(* Type correctness *)

LEMMA InitTypeOK == Init => TypeOK
<1> SUFFICES ASSUME Init PROVE TypeOK
  OBVIOUS
<1>1. AbsentRow \in Row /\ NoMessages \in MessageCounts
  BY LeaseLeft DEF AbsentRow, Row, RowStatus, NoMessages, MessageCounts
<1> QED
  BY <1>1, IdleState DEF Init, TypeOK

\* The types of the parts that an action of a worker touches.
LEMMA PartTypes ==
  ASSUME TypeOK, NEW w \in Workers
  PROVE  /\ tasks \in [Tasks -> Row] /\ msgs \in [Tasks -> MessageCounts]
         /\ worker \in [Workers -> WorkerState] /\ worker[w] \in WorkerState
         /\ worker[w].attempts \in Nat /\ worker[w].attempts + 1 \in Nat
         /\ worker[w].left \in NoLease .. Lease
         /\ worker[w].pc # "idle" => worker[w].task \in Tasks
         /\ execs \in [Tasks -> Nat]
BY DEF TypeOK, WorkerState

\* An UPDATE leaves a status that it sets, or the one there was, and a lease
\* that is cleared, or the one there was.
LEMMA Updated ==
  ASSUME TypeOK, NEW w \in Workers, worker[w].pc # "idle"
  PROVE  /\ \A s \in RowStatus : StatusSet(w, s) \in RowStatus
         /\ LeaseCleared(w) \in NoLease .. Lease
BY LeaseLeft DEF TypeOK, Row, StatusSet, LeaseCleared

\* What a session loads of a row is typed as a worker's state is.
LEMMA LoadedTyped ==
  ASSUME TypeOK, NEW t \in Tasks, NEW pc \in WorkerPC, NEW left \in NoLease .. Lease, NEW late \in BOOLEAN
  PROVE  Loaded(t, pc, left, late) \in WorkerState
<1>1. t \in 0 .. NumTasks /\ tasks[t] \in Row
  BY QueueAssumption DEF Tasks, TypeOK
<1> QED
  BY <1>1 DEF Loaded, WorkerState, Row

\* A refresh changes nothing but what the worker's session has loaded.
LEMMA Reloads ==
  ASSUME TypeOK, NEW w \in Workers, worker[w].pc # "idle", NEW pc \in WorkerPC, Reload(w, pc)
  PROVE  LET t == worker[w].task
         IN /\ UNCHANGED <<tasks, msgs, execs, replies>>
            /\ worker'[w] \in WorkerState
            /\ worker'[w].pc = pc /\ worker'[w].task = t /\ worker'[w].left = worker[w].left
            /\ worker'[w].attempts = tasks[t].attempts /\ worker'[w].status = tasks[t].status
            /\ ~worker'[w].late => ~worker[w].late /\ tasks[t].attempts = worker[w].attempts
            /\ worker' = [worker EXCEPT ![w] = worker'[w]]
<1> DEFINE t == worker[w].task
           late == worker[w].late \/ tasks[t].attempts # worker[w].attempts
<1>1. t \in Tasks /\ worker \in [Workers -> WorkerState] /\ worker[w].late \in BOOLEAN
      /\ worker[w].left \in NoLease .. Lease
  BY DEF TypeOK, WorkerState
<1>2. UNCHANGED <<tasks, msgs, execs, replies>> /\ worker' = [worker EXCEPT ![w] = Loaded(t, pc, worker[w].left, late)]
  BY DEF Reload
<1>3. Loaded(t, pc, worker[w].left, late) \in WorkerState
  BY <1>1, LoadedTyped
<1>4. worker'[w] = Loaded(t, pc, worker[w].left, late)
  BY <1>1, <1>2
<1>5. /\ worker'[w].pc = pc /\ worker'[w].task = t /\ worker'[w].left = worker[w].left
      /\ worker'[w].attempts = tasks[t].attempts /\ worker'[w].status = tasks[t].status
      /\ worker'[w].late = late
  BY <1>4 DEF Loaded
<1>6. worker' = [worker EXCEPT ![w] = worker'[w]]
  BY <1>2, <1>4
<1> QED
  BY <1>2, <1>3, <1>4, <1>5, <1>6

\* The state of a worker whose lease is committed is typed.
LEMMA CommittedTyped ==
  ASSUME TypeOK, NEW w \in Workers
  PROVE  [worker[w] EXCEPT !.pc = "committed", !.attempts = worker[w].attempts + 1,
                           !.status = "LEASED", !.leased = TRUE] \in WorkerState
<1>1. worker[w] \in WorkerState /\ worker[w].attempts + 1 \in Nat
  BY PartTypes
<1>2. "committed" \in WorkerPC /\ "LEASED" \in RowStatus
  BY DEF WorkerPC, RowStatus
<1> QED
  BY <1>1, <1>2 DEF WorkerState

LEMMA StepTypeOK == ASSUME TypeOK, [Next]_vars PROVE TypeOK'
<1> USE RowUpdate, WorkerUpdate, CountUpdate, LeaseLeft, IdleState, Updated
<1>1. ASSUME NEW t \in Tasks, Enqueue(t) PROVE TypeOK'
  BY <1>1 DEF Enqueue, TypeOK, RowStatus
<1>2. ASSUME NEW t \in Tasks, RespondRead(t) PROVE TypeOK'
  BY <1>2 DEF RespondRead, TypeOK
<1>3. ASSUME NEW t \in Tasks, RespondCommit(t) PROVE TypeOK'
  BY <1>3 DEF RespondCommit, TypeOK, RowStatus
<1>4. ASSUME NEW w \in Workers, LeaseSelect(w) PROVE TypeOK'
  <2>1. PICK t \in Tasks : worker' = [worker EXCEPT ![w] = Loaded(t, "selected", Lease, FALSE)]
    BY <1>4 DEF LeaseSelect
  <2>2. Loaded(t, "selected", Lease, FALSE) \in WorkerState
    BY LoadedTyped DEF WorkerPC
  <2>3. Loaded(t, "selected", Lease, FALSE).task \in Tasks
    BY DEF Loaded
  <2> QED
    BY <1>4, <2>1, <2>2, <2>3 DEF LeaseSelect, TypeOK
<1>5. ASSUME NEW w \in Workers, LeaseCommit(w) PROVE TypeOK'
  <2>1. tasks' \in [Tasks -> Row]
    BY <1>5, PartTypes DEF LeaseCommit, RowStatus
  <2>0. worker' = [worker EXCEPT ![w] = [worker[w] EXCEPT !.pc = "committed", !.attempts = worker[w].attempts + 1,
                                                          !.status = "LEASED", !.leased = TRUE]]
    BY <1>5 DEF LeaseCommit
  <2>2. worker' \in [Workers -> WorkerState]
    BY <2>0, CommittedTyped DEF TypeOK
  <2>3. \A v \in Workers : worker'[v].pc # "idle" => worker'[v].task \in Tasks
    <3>1. \A v \in Workers : worker'[v].task = worker[v].task
      BY <2>0, PartTypes DEF WorkerState
    <3>2. \A v \in Workers : v # w => worker'[v] = worker[v]
      BY <2>0, PartTypes
    <3>3. worker[w].pc # "idle"
      BY <1>5 DEF LeaseCommit
    <3> QED
      BY <3>1, <3>2, <3>3 DEF TypeOK
  <2>4. execs' \in [Tasks -> Nat]
    BY <1>5 DEF LeaseCommit, TypeOK
  <2> QED
    BY <1>5, <2>1, <2>2, <2>3, <2>4 DEF LeaseCommit, TypeOK
<1>6. ASSUME NEW w \in Workers, Route(w) PROVE TypeOK'
  <2>1. PICK p \in {"routedOk", "routedError"} : worker' = [worker EXCEPT ![w].pc = p]
    BY <1>6 DEF Route
  <2>2. worker' \in [Workers -> WorkerState]
    BY <2>1, PartTypes DEF WorkerPC
  <2>3. \A v \in Workers : worker'[v].pc # "idle" => worker'[v].task \in Tasks
    BY <1>6, <2>1 DEF Route, TypeOK, WorkerState
  <2> QED
    BY <1>6, <2>2, <2>3 DEF Route, TypeOK
<1>7. ASSUME NEW w \in Workers, Deliver(w) PROVE TypeOK'
  <2>1. tasks' \in [Tasks -> Row]
    BY <1>7, PartTypes DEF Deliver, RowStatus
  <2>2. msgs' \in [Tasks -> MessageCounts]
    BY <1>7, PartTypes DEF Deliver
  <2> QED
    BY <1>7, <2>1, <2>2 DEF Deliver, TypeOK
<1>8. ASSUME NEW w \in Workers, Retry(w) PROVE TypeOK'
  <2>1. tasks' \in [Tasks -> Row]
    BY <1>8, PartTypes DEF Retry, MayRaise, RowStatus
  <2> QED
    BY <1>8, <2>1 DEF Retry, TypeOK
<1>9. ASSUME NEW w \in Workers, DeadLetter(w) PROVE TypeOK'
  <2>1. worker[w].task \in Tasks /\ worker[w].pc # "idle"
    BY <1>9, PartTypes DEF DeadLetter, MayRaise
  <2>2. CASE worker[w].task \in Addressed
    <3>1. tasks' = [tasks EXCEPT ![worker[w].task].status = StatusSet(w, "DEAD_LETTER"), ![worker[w].task].left = LeaseCleared(w)]
      BY <1>9, <2>2 DEF DeadLetter
    <3>2. msgs' = [msgs EXCEPT ![worker[w].task].dead = @ + 1]
      BY <1>9, <2>2 DEF DeadLetter
    <3>3. tasks' \in [Tasks -> Row]
      BY <2>1, <3>1, PartTypes DEF RowStatus
    <3>4. msgs' \in [Tasks -> MessageCounts]
      BY <2>1, <3>2, PartTypes
    <3> QED
      BY <1>9, <3>3, <3>4 DEF DeadLetter, TypeOK
  <2>3. CASE worker[w].task \notin Addressed
    BY <1>9, <2>3 DEF DeadLetter, TypeOK
  <2> QED
    BY <2>2, <2>3
<1>10. ASSUME NEW w \in Workers, RunStart(w) PROVE TypeOK'
  <2>1. tasks' \in [Tasks -> Row] /\ worker' \in [Workers -> WorkerState]
    BY <1>10, PartTypes DEF RunStart, RowStatus, WorkerPC
  <2>2. \A v \in Workers : worker'[v].pc # "idle" => worker'[v].task \in Tasks
    BY <1>10 DEF RunStart, TypeOK, WorkerState
  <2> QED
    BY <1>10, <2>1, <2>2 DEF RunStart, TypeOK
<1>11. ASSUME NEW w \in Workers, RunComplete(w) \/ RunDeadLetter(w) \/ RunAuthError(w) PROVE TypeOK'
  <2>1. CASE RunComplete(w)
    <3>1. tasks' \in [Tasks -> Row]
      BY <2>1, PartTypes DEF RunComplete, RowStatus
    <3> QED
      BY <2>1, <3>1 DEF RunComplete, TypeOK
  <2>2. CASE RunDeadLetter(w)
    <3>1. tasks' \in [Tasks -> Row]
      BY <2>2, PartTypes DEF RunDeadLetter, RowStatus
    <3> QED
      BY <2>2, <3>1 DEF RunDeadLetter, TypeOK
  <2>3. CASE RunAuthError(w)
    BY <2>3 DEF RunAuthError, TypeOK
  <2> QED
    BY <1>11, <2>1, <2>2, <2>3
<1>12. ASSUME NEW w \in Workers, Die(w) PROVE TypeOK'
  BY <1>12 DEF Die, TypeOK
<1>13. ASSUME Tick PROVE TypeOK'
  <2>1. tasks' \in [Tasks -> Row]
    <3>1. \A t \in Tasks : tasks[t] \in Row /\ tasks[t].left \in NoLease .. Lease
      BY DEF TypeOK, Row
    <3> QED
      BY <1>13, <3>1 DEF Tick
  <2>2. worker' \in [Workers -> WorkerState]
    BY <1>13, PartTypes DEF Tick
  <2>3. \A v \in Workers : worker'[v].pc # "idle" => worker'[v].task \in Tasks
    BY <1>13 DEF Tick, TypeOK, WorkerState
  <2> QED
    BY <1>13, <2>1, <2>2, <2>3 DEF Tick, TypeOK
<1>14. ASSUME UNCHANGED vars PROVE TypeOK'
  BY <1>14 DEF vars, TypeOK
<1>15. ASSUME NEW w \in Workers, Refresh(w) \/ StepRefresh(w) PROVE TypeOK'
  <2>1. PICK pc \in WorkerPC : worker[w].pc # "idle" /\ Reload(w, pc)
    BY <1>15 DEF Refresh, StepRefresh, WorkerPC
  <2> QED
    BY <2>1, Reloads DEF TypeOK
<1> QED
  BY <1>1, <1>2, <1>3, <1>4, <1>5, <1>6, <1>7, <1>8, <1>9, <1>10, <1>11, <1>12, <1>13, <1>14, <1>15
  DEF Next, Finish, Run

\* Every reachable state of the queue is well typed.
THEOREM TypeCorrect == Spec => []TypeOK
<1>1. Init => TypeOK
  BY InitTypeOK
<1>2. TypeOK /\ [Next]_vars => TypeOK'
  BY StepTypeOK
<1> QED
  BY <1>1, <1>2, PTL DEF Spec

-----------------------------------------------------------------------------
(* The lease protocol under row locks *)

\* A step that leases nothing: no attempt is counted, a row that changes its
\* status is neither locked nor becomes LEASED, and workers move on, let go or
\* refresh, and know that they were late if that changes their number.
Quiet ==
  /\ \A t \in Tasks : tasks'[t].attempts = tasks[t].attempts
  /\ \A t \in Tasks : tasks'[t].status # tasks[t].status => ~Locked(t) \/ tasks[t].status = "absent"
  /\ \A t \in Tasks : tasks'[t].status = "LEASED" => tasks[t].status = "LEASED"
  /\ execs' = execs
  /\ \A w \in Workers : worker'[w].pc # "idle" =>
       /\ worker[w].pc # "idle"
       /\ worker'[w].task = worker[w].task
       /\ worker'[w].attempts \in {worker[w].attempts, tasks[worker[w].task].attempts}
       /\ ~worker'[w].late => ~worker[w].late /\ worker'[w].attempts = worker[w].attempts
       /\ worker'[w].pc = "selected" <=> worker[w].pc = "selected"
       /\ worker'[w].pc = "selected" =>
            worker'[w].attempts = worker[w].attempts /\ worker'[w].status = worker[w].status

\* Every step but the two of lease_task is quiet.
LEMMA StepQuiet ==
  ASSUME TypeOK, [Next]_vars,
         ~\E w \in Workers : LeaseSelect(w) \/ LeaseCommit(w)
  PROVE  Quiet
<1>0. /\ tasks \in [Tasks -> Row] /\ worker \in [Workers -> WorkerState]
      /\ \A w \in Workers : worker[w].pc # "idle" => worker[w].task \in Tasks
  BY DEF TypeOK
<1> USE <1>0 DEF Quiet, Row, WorkerState, StatusSet
<1>1. ASSUME NEW t \in Tasks, Enqueue(t) PROVE Quiet
  BY <1>1 DEF Enqueue
<1>2. ASSUME NEW t \in Tasks, RespondRead(t) PROVE Quiet
  BY <1>2 DEF RespondRead
<1>3. ASSUME NEW t \in Tasks, RespondCommit(t) PROVE Quiet
  BY <1>3 DEF RespondCommit
<1>4. ASSUME NEW w \in Workers, Route(w) PROVE Quiet
  BY <1>4 DEF Route
<1>5. ASSUME NEW w \in Workers, Deliver(w) PROVE Quiet
  BY <1>5, IdleState DEF Deliver
<1>6. ASSUME NEW w \in Workers, Retry(w) PROVE Quiet
  BY <1>6, IdleState DEF Retry
<1>7. ASSUME NEW w \in Workers, DeadLetter(w) PROVE Quiet
  <2>1. CASE worker[w].task \in Addressed
    <3>1. /\ worker[w].pc # "idle" /\ ~Locked(worker[w].task) /\ execs' = execs
          /\ tasks' = [tasks EXCEPT ![worker[w].task].status = StatusSet(w, "DEAD_LETTER"), ![worker[w].task].left = LeaseCleared(w)]
          /\ worker' = [worker EXCEPT ![w] = Idle]
      BY <1>7, <2>1 DEF DeadLetter, MayRaise
    <3> QED
      BY <3>1, IdleState
  <2>2. CASE worker[w].task \notin Addressed
    BY <1>7, <2>2, IdleState DEF DeadLetter
  <2> QED
    BY <2>1, <2>2
<1>8. ASSUME NEW w \in Workers, RunStart(w) PROVE Quiet
  BY <1>8 DEF RunStart
<1>9. ASSUME NEW w \in Workers, RunComplete(w) PROVE Quiet
  BY <1>9, IdleState DEF RunComplete
<1>10. ASSUME NEW w \in Workers, RunDeadLetter(w) PROVE Quiet
  BY <1>10, IdleState DEF RunDeadLetter
<1>11. ASSUME NEW w \in Workers, RunAuthError(w) PROVE Quiet
  BY <1>11, IdleState DEF RunAuthError
<1>12. ASSUME NEW w \in Workers, Die(w) PROVE Quiet
  BY <1>12, IdleState DEF Die
<1>13. ASSUME Tick PROVE Quiet
  BY <1>13 DEF Tick
<1>14. ASSUME UNCHANGED vars PROVE Quiet
  BY <1>14 DEF vars
<1>15. ASSUME NEW w \in Workers, Refresh(w) \/ StepRefresh(w) PROVE Quiet
  <2>1. PICK pc \in WorkerPC \ {"selected"} : worker[w].pc \notin {"idle", "selected"} /\ Reload(w, pc)
    BY <1>15 DEF Refresh, StepRefresh, WorkerPC
  <2> QED
    BY <2>1, Reloads
<1> QED
  BY <1>1, <1>2, <1>3, <1>4, <1>5, <1>6, <1>7, <1>8, <1>9, <1>10, <1>11, <1>12, <1>13, <1>14, <1>15
  DEF Next, Finish, Run

\* A quiet step keeps the invariant: the row lock keeps selections fresh.
LEMMA QuietKeepsInv ==
  ASSUME RowLocks, TypeOK, TypeOK', LeaseInv, Quiet PROVE LeaseInv'
<1>0. /\ \A w \in Workers : worker[w].pc # "idle" => worker[w].task \in Tasks
      /\ \A w \in Workers : worker'[w].pc # "idle" => worker'[w].task \in Tasks
  BY DEF TypeOK
<1>1. LeasesCounted'
  BY DEF LeaseInv, LeasesCounted, Quiet
<1>2. SelectionFresh'
  <2> SUFFICES ASSUME NEW w \in Workers, worker'[w].pc = "selected"
               PROVE  /\ worker'[w].attempts = tasks'[worker'[w].task].attempts
                      /\ worker'[w].status = tasks'[worker'[w].task].status
                      /\ tasks'[worker'[w].task].attempts < MaxAttempts[worker'[w].task]
                      /\ tasks'[worker'[w].task].status \in {"PENDING", "LEASED"}
    BY DEF SelectionFresh
  <2>1. worker[w].pc = "selected" /\ worker'[w].task = worker[w].task /\ worker[w].task \in Tasks
    BY <1>0 DEF Quiet
  <2>2. Locked(worker[w].task)
    BY <2>1 DEF Locked
  <2>3. tasks'[worker[w].task].status = tasks[worker[w].task].status
    BY <2>1, <2>2 DEF Quiet, LeaseInv, SelectionFresh
  <2> QED
    BY <2>1, <2>3 DEF Quiet, LeaseInv, SelectionFresh
<1>3. SelectionExclusive'
  BY DEF Quiet, LeaseInv, SelectionExclusive
<1>4. HeldCounted'
  <2> SUFFICES ASSUME NEW w \in Workers, worker'[w].pc \notin {"idle", "selected"}
               PROVE  worker'[w].attempts <= tasks'[worker'[w].task].attempts
    BY DEF HeldCounted
  <2>1. /\ worker[w].pc \notin {"idle", "selected"} /\ worker'[w].task = worker[w].task /\ worker[w].task \in Tasks
        /\ worker'[w].attempts \in {worker[w].attempts, tasks[worker[w].task].attempts}
        /\ tasks'[worker[w].task].attempts = tasks[worker[w].task].attempts
    BY <1>0 DEF Quiet
  <2>2. tasks[worker[w].task].attempts \in Nat /\ worker[w].attempts <= tasks[worker[w].task].attempts
    BY <2>1 DEF LeaseInv, HeldCounted, TypeOK, Row
  <2> QED
    BY <2>1, <2>2
<1>5. AttemptsDistinct'
  <2>1. \A t \in Tasks, w \in Workers : w \in Holders(t)' => w \in Holders(t)
    BY DEF Quiet, Holders, Holding, Busy
  <2>2. \A t \in Tasks : \A w \in Holders(t)' :
          ~worker'[w].late => ~worker[w].late /\ worker'[w].attempts = worker[w].attempts
    BY DEF Quiet, Holders, Holding, Busy
  <2> QED
    BY <2>1, <2>2 DEF LeaseInv, AttemptsDistinct, Holders
<1> QED
  BY <1>1, <1>2, <1>3, <1>4, <1>5 DEF LeaseInv

\* A row is selected only if no other transaction has selected it.
LEMMA SelectKeepsInv ==
  ASSUME RowLocks, TypeOK, LeaseInv, NEW w \in Workers, LeaseSelect(w) PROVE LeaseInv'
<1>1. PICK t \in Tasks :
        Ready(t) /\ ~Locked(t) /\ worker' = [worker EXCEPT ![w] = Loaded(t, "selected", Lease, FALSE)]
  BY DEF LeaseSelect
<1>2. /\ worker \in [Workers -> WorkerState]
      /\ worker'[w].pc = "selected" /\ worker'[w].task = t /\ worker'[w].attempts = tasks[t].attempts
      /\ worker'[w].status = tasks[t].status
      /\ \A v \in Workers \ {w} : worker'[v] = worker[v]
      /\ tasks' = tasks /\ execs' = execs
  BY <1>1 DEF LeaseSelect, TypeOK, Loaded
<1>3. \A v \in Workers \ {w} : worker[v].pc = "selected" => worker[v].task # t
  BY <1>1 DEF Locked
<1>4. LeasesCounted'
  BY <1>2 DEF LeaseInv, LeasesCounted
<1>5. SelectionFresh'
  BY <1>1, <1>2 DEF LeaseInv, SelectionFresh, Ready
<1>6. SelectionExclusive'
  BY <1>2, <1>3 DEF LeaseInv, SelectionExclusive
<1>7. HeldCounted'
  BY <1>2 DEF LeaseInv, HeldCounted
<1>8. AttemptsDistinct'
  BY <1>2 DEF LeaseInv, AttemptsDistinct, Holders, Holding, Busy
<1> QED
  BY <1>4, <1>5, <1>6, <1>7, <1>8 DEF LeaseInv

\* The commit counts one more attempt than anybody who holds the row has.
LEMMA CommitKeepsInv ==
  ASSUME RowLocks, TypeOK, LeaseInv, NEW w \in Workers, LeaseCommit(w) PROVE LeaseInv'
<1> DEFINE t == worker[w].task
           n == worker[w].attempts + 1
<1>1. /\ tasks \in [Tasks -> Row] /\ worker \in [Workers -> WorkerState]
      /\ execs \in [Tasks -> Nat] /\ MaxAttempts \in [Tasks -> Nat]
      /\ worker[w].pc = "selected" /\ t \in Tasks
      /\ \A v \in Workers : worker[v].pc # "idle" => worker[v].task \in Tasks
      /\ \A v \in Workers : worker[v].attempts \in Nat
      /\ \A u \in Tasks : tasks[u].attempts \in Nat
  BY QueueAssumption DEF LeaseCommit, TypeOK, WorkerState, Row
<1>2. /\ tasks'[t].attempts = n
      /\ \A u \in Tasks \ {t} : tasks'[u] = tasks[u]
  BY <1>1 DEF LeaseCommit, Row
<1>3. /\ worker'[w].pc = "committed" /\ worker'[w].task = t /\ worker'[w].attempts = n
      /\ \A v \in Workers \ {w} : worker'[v] = worker[v]
  BY <1>1 DEF LeaseCommit, WorkerState
<1>4. execs'[t] = execs[t] + 1 /\ \A u \in Tasks \ {t} : execs'[u] = execs[u]
  BY <1>1 DEF LeaseCommit
<1>5. worker[w].attempts = tasks[t].attempts /\ tasks[t].attempts < MaxAttempts[t]
  BY <1>1 DEF LeaseInv, SelectionFresh
<1>6. \A v \in Workers \ {w} : worker[v].pc = "selected" => worker[v].task # t
  BY <1>1 DEF LeaseInv, SelectionExclusive
<1> HIDE DEF t, n
<1>7. n = tasks[t].attempts + 1 /\ MaxAttempts[t] \in Nat
  BY <1>1, <1>5 DEF n
<1>8. LeasesCounted'
  BY <1>1, <1>2, <1>4, <1>5, <1>7 DEF LeaseInv, LeasesCounted
<1>9. SelectionFresh'
  BY <1>1, <1>2, <1>3, <1>6 DEF LeaseInv, SelectionFresh
<1>10. SelectionExclusive'
  BY <1>3 DEF LeaseInv, SelectionExclusive
<1>11. HeldCounted'
  BY <1>1, <1>2, <1>3, <1>7 DEF LeaseInv, HeldCounted
<1>12. AttemptsDistinct'
  <2>1. \A u \in Tasks : Holders(u)' \subseteq Holders(u) \cup (IF u = t THEN {w} ELSE {})
    BY <1>3 DEF Holders, Holding, Busy
  <2>2. \A v \in Holders(t) : worker[v].attempts < n
    BY <1>1, <1>7 DEF Holders, Holding, Busy, LeaseInv, HeldCounted
  <2>3. \A v \in Workers : v # w => worker'[v].attempts = worker[v].attempts
    BY <1>3
  <2>4. \A u \in Tasks : w \notin Holders(u)
    BY <1>1 DEF Holders, Holding, Busy
  <2>5. SUFFICES ASSUME NEW u \in Tasks, NEW v \in Holders(u)', NEW x \in Holders(u)', v # x,
                        ~worker'[v].late, ~worker'[x].late
                 PROVE  worker'[v].attempts # worker'[x].attempts
    BY DEF AttemptsDistinct
  <2> v \in Workers /\ x \in Workers /\ n \in Nat /\ worker[v].attempts \in Nat /\ worker[x].attempts \in Nat
    BY <1>1, <1>7 DEF Holders
  <2>6. CASE v = w
    <3>1. u = t /\ x \in Holders(t)
      BY <2>1, <2>4, <2>5, <2>6
    <3> QED
      BY <1>3, <2>2, <2>3, <2>5, <2>6, <3>1
  <2>7. CASE x = w
    <3>1. u = t /\ v \in Holders(t)
      BY <2>1, <2>4, <2>5, <2>7
    <3> QED
      BY <1>3, <2>2, <2>3, <2>5, <2>7, <3>1
  <2>8. CASE v # w /\ x # w
    BY <1>3, <2>1, <2>3, <2>5, <2>8 DEF LeaseInv, AttemptsDistinct, Holders
  <2> QED
    BY <2>6, <2>7, <2>8
<1> QED
  BY <1>8, <1>9, <1>10, <1>11, <1>12 DEF LeaseInv

LEMMA InitLeaseInv == ASSUME Init PROVE LeaseInv
BY QueueAssumption DEF Init, LeaseInv, LeasesCounted, SelectionFresh, SelectionExclusive, HeldCounted,
   AttemptsDistinct, Holders, Holding, Busy, AbsentRow, Idle

LEMMA StepLeaseInv == ASSUME RowLocks, TypeOK, LeaseInv, [Next]_vars PROVE LeaseInv'
<1>1. CASE \E w \in Workers : LeaseSelect(w) \/ LeaseCommit(w)
  BY <1>1, SelectKeepsInv, CommitKeepsInv
<1>2. CASE ~\E w \in Workers : LeaseSelect(w) \/ LeaseCommit(w)
  BY <1>2, StepTypeOK, StepQuiet, QuietKeepsInv
<1> QED
  BY <1>1, <1>2

\* Under row locks the lease protocol keeps its invariant.
THEOREM LeasesSafe == ASSUME RowLocks PROVE Spec => [](TypeOK /\ LeaseInv)
<1>1. Init => TypeOK /\ LeaseInv
  BY InitTypeOK, InitLeaseInv
<1>2. TypeOK /\ LeaseInv /\ [Next]_vars => (TypeOK /\ LeaseInv)'
  BY StepTypeOK, StepLeaseInv
<1> QED
  BY <1>1, <1>2, PTL DEF Spec

\* No row is handed out more often than its max_attempts, whatever workers die
\* or outlive their leases.
THEOREM ExecutionsAreBounded == ASSUME RowLocks PROVE Spec => []ExecutionsBounded
<1>1. LeaseInv => ExecutionsBounded
  BY DEF LeaseInv, LeasesCounted, ExecutionsBounded
<1> QED
  BY <1>1, LeasesSafe, PTL

\* Workers that hold one row hold it under different attempt numbers, unless one
\* of them refreshed the row after it was leased again.
THEOREM AttemptsAreDistinct == ASSUME RowLocks PROVE Spec => []AttemptsDistinct
<1>1. LeaseInv => AttemptsDistinct
  BY DEF LeaseInv
<1> QED
  BY <1>1, LeasesSafe, PTL

-----------------------------------------------------------------------------
(* Counting messages *)

LEMMA CountPositive ==
  ASSUME NEW m \in MessageCounts
  PROVE  /\ m.ok \in Nat /\ m.error \in Nat /\ m.dead \in Nat
         /\ m.ok + m.error + m.dead \in Nat
         /\ m # NoMessages <=> m.ok + m.error + m.dead > 0
<1>1. m.ok \in Nat /\ m.error \in Nat /\ m.dead \in Nat
  BY DEF MessageCounts
<1>2. ASSUME m.ok = 0, m.error = 0, m.dead = 0 PROVE m = NoMessages
  BY <1>2 DEF MessageCounts, NoMessages
<1>3. m = NoMessages => m.ok = 0 /\ m.error = 0 /\ m.dead = 0
  BY DEF NoMessages
<1>4. ASSUME m # NoMessages PROVE m.ok + m.error + m.dead > 0
  <2>1. ~(m.ok = 0 /\ m.error = 0 /\ m.dead = 0)
    BY <1>2, <1>4
  <2> QED
    BY <1>1, <2>1
<1>5. ASSUME m.ok + m.error + m.dead > 0 PROVE m # NoMessages
  BY <1>3, <1>5
<1> QED
  BY <1>1, <1>4, <1>5

LEMMA SentTypes ==
  ASSUME TypeOK, NEW t \in Tasks
  PROVE  /\ msgs[t].ok \in Nat /\ msgs[t].error \in Nat /\ msgs[t].dead \in Nat
         /\ Sent(t) \in Nat
         /\ msgs[t] # NoMessages <=> Sent(t) > 0
BY CountPositive DEF TypeOK, Sent

\* A message more for row t, and none for the others.
SendsOne(t) ==
  /\ Sent(t)' = Sent(t) + 1
  /\ msgs'[t].dead >= msgs[t].dead
  /\ \A u \in Tasks \ {t} : msgs'[u] = msgs[u]

LEMMA DeliverSends ==
  ASSUME TypeOK, NEW w \in Workers, Deliver(w), NEW t \in Tasks, t = worker[w].task
  PROVE  SendsOne(t)
<1>1. msgs \in [Tasks -> MessageCounts] /\ msgs[t] \in MessageCounts
  BY DEF TypeOK
<1>2. CASE worker[w].pc = "routedOk"
  <2>1. msgs' = [msgs EXCEPT ![t].ok = @ + 1]
    BY <1>2 DEF Deliver
  <2> QED
    BY <1>1, <2>1 DEF SendsOne, Sent, MessageCounts
<1>3. CASE worker[w].pc = "routedError"
  <2>1. msgs' = [msgs EXCEPT ![t].error = @ + 1]
    BY <1>3 DEF Deliver
  <2>2. msgs'[t].ok = msgs[t].ok /\ msgs'[t].error = msgs[t].error + 1 /\ msgs'[t].dead = msgs[t].dead
    BY <1>1, <2>1 DEF MessageCounts
  <2>3. \A u \in Tasks \ {t} : msgs'[u] = msgs[u]
    BY <1>1, <2>1
  <2>4. msgs[t].ok \in Nat /\ msgs[t].error \in Nat /\ msgs[t].dead \in Nat
    BY <1>1 DEF MessageCounts
  <2>5. Sent(t)' = Sent(t) + 1 /\ msgs'[t].dead >= msgs[t].dead
    BY <2>2, <2>4 DEF Sent
  <2> QED
    BY <2>3, <2>5 DEF SendsOne
<1> QED
  BY <1>2, <1>3 DEF Deliver

LEMMA DeadLetterSends ==
  ASSUME TypeOK, NEW w \in Workers, DeadLetter(w), NEW t \in Addressed, t = worker[w].task
  PROVE  SendsOne(t) /\ msgs'[t].dead > 0
<1>1. t \in Tasks /\ msgs \in [Tasks -> MessageCounts] /\ msgs[t] \in MessageCounts
  BY QueueAssumption DEF TypeOK
<1>2. msgs' = [msgs EXCEPT ![t].dead = @ + 1]
  BY DEF DeadLetter
<1> QED
  BY <1>1, <1>2 DEF SendsOne, Sent, MessageCounts

\* Every other step leaves the messages alone.
LEMMA OthersSendNone ==
  ASSUME [Next]_vars,
         ~\E w \in Workers : Deliver(w) \/ (DeadLetter(w) /\ worker[w].task \in Addressed)
  PROVE  msgs' = msgs
BY DEF Next, vars, Finish, Run, Enqueue, RespondRead, RespondCommit, LeaseSelect, LeaseCommit, Route, Retry,
   DeadLetter, RunStart, RunComplete, RunDeadLetter, RunAuthError, Die, Tick, Refresh, StepRefresh, Reload

LEMMA MessagesGrow ==
  ASSUME TypeOK, [Next]_vars
  PROVE  \A t \in Tasks : Sent(t)' >= Sent(t) /\ msgs'[t].dead >= msgs[t].dead
<1> SUFFICES ASSUME NEW t \in Tasks PROVE Sent(t)' >= Sent(t) /\ msgs'[t].dead >= msgs[t].dead
  OBVIOUS
<1>1. ASSUME NEW u \in Tasks, SendsOne(u) PROVE Sent(t)' >= Sent(t) /\ msgs'[t].dead >= msgs[t].dead
  <2>1. CASE t = u
    BY <1>1, <2>1, SentTypes DEF SendsOne
  <2>2. CASE t # u
    BY <1>1, <2>2, SentTypes DEF SendsOne, Sent
  <2> QED
    BY <2>1, <2>2
<1>2. ASSUME NEW w \in Workers, Deliver(w) PROVE \E u \in Tasks : SendsOne(u)
  <2>1. worker[w].task \in Tasks
    BY <1>2 DEF Deliver, TypeOK
  <2> QED
    BY <1>2, <2>1, DeliverSends
<1>3. ASSUME NEW w \in Workers, DeadLetter(w), worker[w].task \in Addressed PROVE \E u \in Tasks : SendsOne(u)
  BY <1>3, DeadLetterSends, QueueAssumption
<1>4. CASE ~\E w \in Workers : Deliver(w) \/ (DeadLetter(w) /\ worker[w].task \in Addressed)
  BY <1>4, OthersSendNone, SentTypes DEF Sent
<1> QED
  BY <1>1, <1>2, <1>3, <1>4

-----------------------------------------------------------------------------
(* Completed rows and their messages: no locks are needed *)

LEMMA StepRowKinds ==
  ASSUME TypeOK, RowKinds, [Next]_vars PROVE RowKinds'
<1>1. \A t \in Tasks : msgs[t] # NoMessages => msgs'[t] # NoMessages
  <2> SUFFICES ASSUME NEW t \in Tasks, msgs[t] # NoMessages PROVE msgs'[t] # NoMessages
    OBVIOUS
  <2>1. Sent(t) \in Nat /\ Sent(t) > 0 /\ Sent(t)' >= Sent(t)
    BY SentTypes, MessagesGrow
  <2>2. msgs'[t] \in MessageCounts
    BY StepTypeOK DEF TypeOK
  <2>3. Sent(t)' \in Nat /\ (Sent(t)' > 0 => msgs'[t] # NoMessages)
    BY <2>2, CountPositive DEF Sent
  <2> QED
    BY <2>1, <2>3
<1>2. \A t \in replies' : msgs'[t] # NoMessages
  <2>1. \A t \in replies' : t \in replies \/ RespondRead(t)
    BY DEF Next, vars, Finish, Run, Enqueue, RespondRead, RespondCommit, LeaseSelect, LeaseCommit, Route, Deliver,
       Retry, DeadLetter, RunStart, RunComplete, RunDeadLetter, RunAuthError, Die, Tick, Refresh, StepRefresh, Reload
  <2> QED
    BY <1>1, <2>1 DEF RowKinds, RespondRead, TypeOK
<1>3. \A w \in Workers : worker'[w].pc \in {"started", "running"} => worker'[w].task \in MultiAgent
  <2>1. CASE \E v \in Workers : RunStart(v)
    BY <2>1 DEF RunStart, RowKinds, TypeOK, WorkerState
  <2>2. CASE \E v \in Workers : LeaseSelect(v) \/ LeaseCommit(v) \/ Route(v)
    BY <2>2 DEF LeaseSelect, LeaseCommit, Route, RowKinds, TypeOK, WorkerState, Loaded
  <2>6. CASE \E v \in Workers : Refresh(v) \/ StepRefresh(v)
    <3>1. PICK v \in Workers, pc \in {"leased", "running"} :
            /\ worker[v].pc # "idle" /\ Reload(v, pc)
            /\ pc = "running" => worker[v].pc \in {"started", "running"}
      BY <2>6 DEF Refresh, StepRefresh
    <3>2. worker'[v].pc = pc /\ worker'[v].task = worker[v].task /\ \A u \in Workers \ {v} : worker'[u] = worker[u]
      <4>1. pc \in WorkerPC
        BY DEF WorkerPC
      <4> QED
        BY <3>1, <4>1, Reloads DEF TypeOK
    <3> QED
      BY <3>1, <3>2 DEF RowKinds
  <2>3. CASE \E v \in Workers : worker' = [worker EXCEPT ![v] = Idle]
    BY <2>3, IdleState DEF RowKinds, TypeOK
  <2>4. CASE Tick
    BY <2>4 DEF Tick, RowKinds, TypeOK, WorkerState
  <2>5. CASE UNCHANGED worker
    BY <2>5 DEF RowKinds
  <2> QED
    BY <2>1, <2>2, <2>3, <2>4, <2>5, <2>6
    DEF Next, vars, Finish, Run, Enqueue, RespondRead, RespondCommit, Deliver, Retry, DeadLetter, RunComplete,
        RunDeadLetter, RunAuthError, Die
<1> QED
  BY <1>2, <1>3 DEF RowKinds

\* A row becomes completed in the transaction that sends its message, by its
\* multi-agent run, or by the reply to a message it has.
LEMMA StepCompletedHasMessage ==
  ASSUME TypeOK, RowKinds, CompletedHasMessage, [Next]_vars PROVE CompletedHasMessage'
<1> SUFFICES ASSUME NEW t \in Tasks \ MultiAgent, tasks'[t].completed PROVE Sent(t)' > 0
  BY DEF CompletedHasMessage
<1>0. Sent(t) \in Nat /\ Sent(t)' >= Sent(t) /\ (Sent(t)' \in Nat)
  <2>1. msgs'[t] \in MessageCounts
    BY StepTypeOK DEF TypeOK
  <2> QED
    BY <2>1, CountPositive, SentTypes, MessagesGrow DEF Sent
<1>1. CASE tasks[t].completed
  BY <1>0, <1>1 DEF CompletedHasMessage
<1>2. CASE ~tasks[t].completed
  <2>1. CASE \E w \in Workers : Deliver(w)
    <3>1. PICK w \in Workers : Deliver(w)
      BY <2>1
    <3>2. worker[w].task = t
      BY <1>2, <3>1 DEF Deliver, TypeOK
    <3> QED
      BY <1>0, <3>1, <3>2, DeliverSends DEF SendsOne
  <2>2. CASE \E u \in Tasks : RespondCommit(u)
    <3>1. RespondCommit(t)
      BY <1>2, <2>2 DEF RespondCommit, TypeOK
    <3> QED
      BY <1>0, <3>1, SentTypes DEF RespondCommit, RowKinds
  <2>3. CASE ~(\E w \in Workers : Deliver(w)) /\ ~(\E u \in Tasks : RespondCommit(u))
    <3>1. tasks[t] \in Row /\ tasks \in [Tasks -> Row]
      BY DEF TypeOK
    <3>2. ASSUME NEW w \in Workers, RunComplete(w) PROVE FALSE
      BY <1>2, <3>1, <3>2 DEF RunComplete, RowKinds
    <3>3. ASSUME NEW w \in Workers, DeadLetter(w) PROVE FALSE
      <4>1. CASE worker[w].task \in Addressed
        <5>1. tasks' = [tasks EXCEPT ![worker[w].task].status = StatusSet(w, "DEAD_LETTER"), ![worker[w].task].left = LeaseCleared(w)]
          BY <3>3, <4>1 DEF DeadLetter
        <5> QED
          BY <1>2, <3>1, <5>1 DEF Row
      <4>2. CASE worker[w].task \notin Addressed
        BY <1>2, <3>3, <4>2 DEF DeadLetter
      <4> QED
        BY <4>1, <4>2
    <3>4. ASSUME NEW w \in Workers, LeaseCommit(w) PROVE FALSE
      BY <1>2, <3>1, <3>4 DEF LeaseCommit, Row
    <3>5. ASSUME NEW w \in Workers, Retry(w) \/ RunStart(w) \/ RunDeadLetter(w) PROVE FALSE
      BY <1>2, <3>1, <3>5 DEF Retry, RunStart, RunDeadLetter, Row
    <3>6. ASSUME NEW u \in Tasks, Enqueue(u) PROVE FALSE
      BY <1>2, <3>1, <3>6 DEF Enqueue, Row
    <3>7. ASSUME Tick PROVE FALSE
      BY <1>2, <3>1, <3>7 DEF Tick, Row
    <3>8. tasks' = tasks => FALSE
      BY <1>2
    <3> QED
      BY <2>3, <3>2, <3>3, <3>4, <3>5, <3>6, <3>7, <3>8
      DEF Next, vars, Finish, Run, RespondRead, LeaseSelect, Route, RunAuthError, Die, Refresh, StepRefresh, Reload
  <2> QED
    BY <2>1, <2>2, <2>3
<1> QED
  BY <1>1, <1>2

\* A translation row that reads completed has a message for its agent, with or
\* without row locks.
THEOREM CompletedRowHasMessage == Spec => []CompletedHasMessage
<1>1. Init => TypeOK /\ RowKinds /\ CompletedHasMessage
  BY InitTypeOK DEF Init, RowKinds, CompletedHasMessage, Idle, AbsentRow
<1>2. TypeOK /\ RowKinds /\ CompletedHasMessage /\ [Next]_vars
        => (TypeOK /\ RowKinds /\ CompletedHasMessage)'
  BY StepTypeOK, StepRowKinds, StepCompletedHasMessage
<1> QED
  BY <1>1, <1>2, PTL DEF Spec

-----------------------------------------------------------------------------
(* Dead letters, under row locks *)

LEMMA StepDeadLetterExhausted ==
  ASSUME RowLocks, TypeOK, LeaseInv, RowKinds, DeadLetterExhausted, [Next]_vars
  PROVE  DeadLetterExhausted'
<1> SUFFICES ASSUME NEW t \in Tasks \ MultiAgent, tasks'[t].status = "DEAD_LETTER"
             PROVE  tasks'[t].attempts = MaxAttempts[t] /\ msgs'[t].dead > 0
  BY DEF DeadLetterExhausted
<1>0. /\ tasks \in [Tasks -> Row] /\ tasks[t] \in Row /\ tasks[t].attempts \in Nat /\ MaxAttempts[t] \in Nat
      /\ msgs[t].dead \in Nat /\ msgs'[t].dead \in Nat /\ msgs'[t].dead >= msgs[t].dead
  <2>1. msgs'[t] \in MessageCounts
    BY StepTypeOK DEF TypeOK
  <2> QED
    BY <2>1, CountPositive, SentTypes, MessagesGrow, QueueAssumption DEF TypeOK, Row
<1>1. CASE \E w \in Workers : LeaseCommit(w)
  <2>1. PICK w \in Workers : LeaseCommit(w)
    BY <1>1
  <2>2. worker[w].task # t
    BY <1>0, <2>1 DEF LeaseCommit, Row, StatusSet, LeaseInv, SelectionFresh
  <2>3. tasks'[t] = tasks[t]
    BY <1>0, <2>1, <2>2 DEF LeaseCommit
  <2> QED
    BY <1>0, <2>3 DEF DeadLetterExhausted
<1>2. CASE \E w \in Workers : LeaseSelect(w)
  BY <1>0, <1>2 DEF LeaseSelect, DeadLetterExhausted
<1>3. CASE ~\E w \in Workers : LeaseSelect(w) \/ LeaseCommit(w)
  <2>1. tasks'[t].attempts = tasks[t].attempts
    BY <1>3, StepQuiet DEF Quiet
  <2>2. CASE tasks[t].status = "DEAD_LETTER"
    BY <1>0, <2>1, <2>2 DEF DeadLetterExhausted
  <2>3. CASE tasks[t].status # "DEAD_LETTER"
    <3>1. \E w \in Workers : DeadLetter(w) /\ worker[w].task = t
      <4>1. ASSUME NEW w \in Workers, DeadLetter(w) PROVE worker[w].task = t
        <5>1. CASE worker[w].task \in Addressed
          <6>1. tasks' = [tasks EXCEPT ![worker[w].task].status = StatusSet(w, "DEAD_LETTER"), ![worker[w].task].left = LeaseCleared(w)]
            BY <4>1, <5>1 DEF DeadLetter
          <6> QED
            BY <1>0, <2>3, <6>1
        <5>2. CASE worker[w].task \notin Addressed
          BY <2>3, <4>1, <5>2 DEF DeadLetter
        <5> QED
          BY <5>1, <5>2
      <4>2. ASSUME NEW w \in Workers, RunDeadLetter(w) PROVE FALSE
        BY <1>0, <2>3, <4>2 DEF RunDeadLetter, RowKinds
      <4>3. ASSUME NEW w \in Workers, Deliver(w) \/ Retry(w) \/ RunStart(w) \/ RunComplete(w) PROVE FALSE
        <5>1. ASSUME Deliver(w) PROVE FALSE
          BY <1>0, <2>3, <5>1 DEF Deliver, Row, StatusSet
        <5>2. ASSUME Retry(w) PROVE FALSE
          BY <1>0, <2>3, <5>2 DEF Retry, Row, StatusSet
        <5>3. ASSUME RunStart(w) PROVE FALSE
          BY <1>0, <2>3, <5>3 DEF RunStart, Row, StatusSet
        <5>4. ASSUME RunComplete(w) PROVE FALSE
          BY <1>0, <2>3, <5>4 DEF RunComplete, Row, StatusSet
        <5> QED
          BY <4>3, <5>1, <5>2, <5>3, <5>4
      <4>4. ASSUME NEW u \in Tasks, Enqueue(u) \/ RespondCommit(u) PROVE FALSE
        BY <1>0, <2>3, <4>4 DEF Enqueue, RespondCommit, Row
      <4>5. ASSUME Tick PROVE FALSE
        BY <1>0, <2>3, <4>5 DEF Tick, Row
      <4>6. tasks' = tasks => FALSE
        BY <2>3
      <4> QED
        BY <1>3, <4>1, <4>2, <4>3, <4>4, <4>5, <4>6
        DEF Next, vars, Finish, Run, RespondRead, Route, RunAuthError, Die, Refresh, StepRefresh, Reload
    <3>2. PICK w \in Workers : DeadLetter(w) /\ worker[w].task = t
      BY <3>1
    <3>3. t \in Addressed
      BY QueueAssumption
    <3>4. msgs'[t].dead > 0
      BY <3>2, <3>3, DeadLetterSends
    <3>5. worker[w].attempts >= MaxAttempts[t] /\ worker[w].attempts <= tasks[t].attempts /\ worker[w].attempts \in Nat
      BY <3>2, PartTypes DEF DeadLetter, MayRaise, LeaseInv, HeldCounted
    <3>6. tasks[t].attempts <= MaxAttempts[t]
      BY DEF LeaseInv, LeasesCounted
    <3> QED
      BY <1>0, <2>1, <3>4, <3>5, <3>6
  <2> QED
    BY <2>2, <2>3
<1> QED
  BY <1>1, <1>2, <1>3

\* A dead-lettered translation row has used up its attempts and has its dead
\* letter: the worker that wrote it held the last attempt number.
THEOREM DeadLettersExhausted == ASSUME RowLocks PROVE Spec => []DeadLetterExhausted
<1>1. Init => RowKinds /\ DeadLetterExhausted
  BY DEF Init, RowKinds, DeadLetterExhausted, Idle, AbsentRow
<1>2. TypeOK /\ LeaseInv /\ RowKinds /\ DeadLetterExhausted /\ [Next]_vars
        => (RowKinds /\ DeadLetterExhausted)'
  BY StepRowKinds, StepDeadLetterExhausted
<1> QED
  BY <1>1, <1>2, LeasesSafe, PTL DEF Spec

-----------------------------------------------------------------------------
(* One message per execution, with or without row locks *)

LEMMA HoldersFinite ==
  ASSUME NEW t \in Tasks
  PROVE  IsFiniteSet(Holders(t)) /\ IsFiniteSet(Holders(t)') /\ Cardinality(Holders(t)) \in Nat
<1>1. Holders(t) \in SUBSET Workers /\ Holders(t)' \in SUBSET Workers
  BY DEF Holders
<1> QED
  BY <1>1, QueueAssumption, FS_Subset, FS_CardinalityType

LEMMA StepOneMessage ==
  ASSUME TypeOK, OneMessagePerExecution, [Next]_vars PROVE OneMessagePerExecution'
<1> SUFFICES ASSUME NEW t \in Tasks PROVE Sent(t)' + Cardinality(Holders(t)') <= execs'[t]
  BY DEF OneMessagePerExecution
<1>0. /\ Sent(t) \in Nat /\ execs[t] \in Nat /\ execs \in [Tasks -> Nat]
      /\ Cardinality(Holders(t)) \in Nat /\ Cardinality(Holders(t)') \in Nat
      /\ Sent(t) + Cardinality(Holders(t)) <= execs[t]
  BY SentTypes, HoldersFinite, FS_CardinalityType DEF TypeOK, OneMessagePerExecution
<1>1. CASE \E w \in Workers : LeaseCommit(w)
  <2>1. PICK w \in Workers : LeaseCommit(w)
    BY <1>1
  <2>2. Sent(t)' = Sent(t)
    BY <2>1 DEF LeaseCommit, Sent
  <2>3. CASE worker[w].task = t
    <3>1. Holders(t)' \subseteq Holders(t) \cup {w}
      BY <2>1 DEF LeaseCommit, Holders, Holding, Busy, TypeOK
    <3>2. IsFiniteSet(Holders(t) \cup {w}) /\ Cardinality(Holders(t) \cup {w}) \in Nat
          /\ Cardinality(Holders(t) \cup {w}) <= Cardinality(Holders(t)) + 1
      <4> DEFINE S == Holders(t)
      <4>1. IsFiniteSet(S) /\ Cardinality(S) \in Nat
        BY HoldersFinite
      <4> HIDE DEF S
      <4>2. IsFiniteSet(S \cup {w}) /\ Cardinality(S \cup {w}) = IF w \in S THEN Cardinality(S) ELSE Cardinality(S) + 1
        BY <4>1, FS_AddElement
      <4>3. IsFiniteSet(S \cup {w}) /\ Cardinality(S \cup {w}) \in Nat
            /\ Cardinality(S \cup {w}) <= Cardinality(S) + 1
        BY <4>1, <4>2
      <4> QED
        BY <4>3 DEF S
    <3>3. Cardinality(Holders(t)') <= Cardinality(Holders(t) \cup {w})
      BY <3>1, <3>2, FS_Subset
    <3>4. execs'[t] = execs[t] + 1
      BY <1>0, <2>1, <2>3 DEF LeaseCommit
    <3> QED
      BY <1>0, <2>2, <3>2, <3>3, <3>4
  <2>4. CASE worker[w].task # t
    <3>1. Holders(t)' \subseteq Holders(t)
      BY <2>1, <2>4 DEF LeaseCommit, Holders, Holding, Busy, TypeOK, WorkerState
    <3>2. execs'[t] = execs[t]
      BY <1>0, <2>1, <2>4 DEF LeaseCommit
    <3>3. Cardinality(Holders(t)') <= Cardinality(Holders(t))
      BY <3>1, HoldersFinite, FS_Subset
    <3> QED
      BY <1>0, <2>2, <3>2, <3>3
  <2> QED
    BY <2>3, <2>4
<1>2. CASE ~\E w \in Workers : LeaseCommit(w)
  <2>1. execs' = execs
    BY <1>2 DEF Next, vars, Finish, Run, Enqueue, RespondRead, RespondCommit, LeaseSelect, Route, Deliver, Retry,
       DeadLetter, RunStart, RunComplete, RunDeadLetter, RunAuthError, Die, Tick, Refresh, StepRefresh, Reload
  <2>2. Holders(t)' \subseteq Holders(t)
    <3>1. CASE \E w \in Workers : LeaseSelect(w)
      BY <3>1 DEF LeaseSelect, Holders, Holding, Busy, TypeOK, Loaded
    <3>2. CASE ~\E w \in Workers : LeaseSelect(w)
      BY <1>2, <3>2, StepQuiet DEF Quiet, Holders, Holding, Busy
    <3> QED
      BY <3>1, <3>2
  <2>3. Cardinality(Holders(t)') <= Cardinality(Holders(t))
    BY <2>2, HoldersFinite, FS_Subset
  \* A worker that sends a message lets go of the row in the same step.
  <2>4. ASSUME NEW w \in Workers, Deliver(w) \/ (DeadLetter(w) /\ worker[w].task \in Addressed)
        PROVE  Sent(t)' + Cardinality(Holders(t)') <= execs'[t]
    <3>1. worker[w].task \in Tasks /\ worker'[w].pc = "idle" /\ w \in Holders(worker[w].task)
      BY <2>4, IdleState DEF Deliver, DeadLetter, MayRaise, TypeOK, Holders, Holding, Busy
    <3>2. CASE worker[w].task = t
      <4>1. SendsOne(t)
        BY <2>4, <3>2, DeliverSends, DeadLetterSends
      <4>2. Holders(t)' \subseteq Holders(t) \ {w}
        BY <2>2, <3>1 DEF Holders, Holding, Busy
      <4>3. IsFiniteSet(Holders(t) \ {w}) /\ Cardinality(Holders(t) \ {w}) = Cardinality(Holders(t)) - 1
        BY <3>1, <3>2, HoldersFinite, FS_RemoveElement
      <4>4. Cardinality(Holders(t)') <= Cardinality(Holders(t)) - 1
        BY <4>2, <4>3, FS_Subset
      <4> QED
        BY <1>0, <2>1, <4>1, <4>4 DEF SendsOne
    <3>3. CASE worker[w].task # t
      <4>1. PICK u \in Tasks \ {t} : u = worker[w].task
        BY <3>1, <3>3
      <4>2. SendsOne(u)
        BY <2>4, <4>1, DeliverSends, DeadLetterSends
      <4>3. Sent(t)' = Sent(t)
        BY <4>2 DEF SendsOne, Sent
      <4> QED
        BY <1>0, <2>1, <2>3, <4>3
    <3> QED
      BY <3>2, <3>3
  <2>5. CASE ~\E w \in Workers : Deliver(w) \/ (DeadLetter(w) /\ worker[w].task \in Addressed)
    <3>1. Sent(t)' = Sent(t)
      BY <2>5, OthersSendNone DEF Sent
    <3> QED
      BY <1>0, <2>1, <2>3, <3>1
  <2> QED
    BY <2>4, <2>5
<1> QED
  BY <1>1, <1>2

\* The messages sent for a row, and those its holders may still send, never
\* outnumber the leases of the row.
THEOREM OneMessageEach == Spec => []OneMessagePerExecution
<1>1. Init => TypeOK /\ OneMessagePerExecution
  <2> SUFFICES ASSUME Init PROVE TypeOK /\ OneMessagePerExecution
    OBVIOUS
  <2>1. \A t \in Tasks : Holders(t) = {} /\ Sent(t) = 0 /\ execs[t] = 0
    BY DEF Init, Holders, Holding, Busy, Idle, Sent, NoMessages
  <2> QED
    BY <2>1, InitTypeOK, FS_EmptySet DEF OneMessagePerExecution
<1>2. TypeOK /\ OneMessagePerExecution /\ [Next]_vars => (TypeOK /\ OneMessagePerExecution)'
  BY StepTypeOK, StepOneMessage
<1> QED
  BY <1>1, <1>2, PTL DEF Spec

-----------------------------------------------------------------------------
(* Leases that are kept: MayOverrun = FALSE *)

\* A step of a worker on its own row disturbs no other worker.
LEMMA OthersInStep ==
  ASSUME TypeOK, PromptInv, NEW w \in Workers, worker[w].pc # "idle",
         \A v \in Workers \ {w} : worker'[v] = worker[v],
         \A u \in Tasks \ {worker[w].task} : tasks'[u] = tasks[u],
         worker'[w].pc # "idle" => worker'[w].task = worker[w].task
  PROVE  (\A v \in Workers \ {w} : RowInStep(v)') /\ OneWorkerPerRow'
<1>1. ASSUME NEW v \in Workers \ {w} PROVE RowInStep(v)'
  <2>1. CASE worker[v].pc = "idle"
    BY <2>1 DEF RowInStep, UsesLease
  <2>2. CASE worker[v].pc # "idle"
    <3>1. worker[v].task \in Tasks /\ worker[v].task # worker[w].task
      BY <2>2 DEF PromptInv, OneWorkerPerRow, TypeOK
    <3>2. tasks'[worker[v].task] = tasks[worker[v].task] /\ worker'[v] = worker[v]
      BY <3>1
    <3> QED
      BY <3>2 DEF PromptInv, RowInStep, UsesLease
  <2> QED
    BY <2>1, <2>2
<1>2. OneWorkerPerRow'
  BY DEF PromptInv, OneWorkerPerRow
<1> QED
  BY <1>1, <1>2

\* The same when the worker lets go of its row.
LEMMA LetsGo ==
  ASSUME TypeOK, PromptInv, NEW w \in Workers, worker[w].pc # "idle", worker' = [worker EXCEPT ![w] = Idle],
         \A u \in Tasks \ {worker[w].task} : tasks'[u] = tasks[u]
  PROVE  (\A v \in Workers : RowInStep(v)') /\ OneWorkerPerRow'
<1>1. worker'[w] = Idle /\ \A v \in Workers \ {w} : worker'[v] = worker[v]
  BY DEF TypeOK
<1>2. RowInStep(w)'
  BY <1>1, IdleState DEF RowInStep, UsesLease
<1> QED
  BY <1>1, <1>2, IdleState, OthersInStep

\* Under PromptInv a worker's row is where the worker thinks it is.
LEMMA RowOf ==
  ASSUME TypeOK, PromptInv, NEW w \in Workers, worker[w].pc # "idle", NEW t, t = worker[w].task
  PROVE  /\ t \in Tasks /\ tasks[t] \in Row /\ worker[w] \in WorkerState
         /\ worker[w].pc = "selected" =>
              tasks[t].status = "PENDING" \/ (tasks[t].status = "LEASED" /\ tasks[t].left = Expired)
         /\ worker[w].pc \in {"committed", "leased", "routedOk", "routedError"} =>
              /\ tasks[t].status = "LEASED" /\ tasks[t].left = worker[w].left /\ worker[w].left # Expired
              /\ tasks[t].attempts = worker[w].attempts /\ worker[w].status = "LEASED"
         /\ worker[w].pc \in {"started", "running"} =>
              /\ tasks[t].status = "RUNNING" /\ tasks[t].attempts = worker[w].attempts
              /\ worker[w].status = "RUNNING"
         /\ worker[w].pc \notin {"started", "running"} => worker[w].left # Expired
<1>1. t \in Tasks /\ tasks[t] \in Row /\ worker[w] \in WorkerState
  BY DEF TypeOK
<1>2. RowInStep(w)
  BY DEF PromptInv
<1>3. worker[w].pc \in WorkerPC
  BY <1>1 DEF WorkerState
<1>4. worker[w].pc \notin {"started", "running"} => UsesLease(w)
  BY <1>3 DEF WorkerPC, UsesLease
<1> QED
  BY <1>1, <1>2, <1>4 DEF RowInStep, UsesLease

\* A row is not open once it has a message; a row that changes without a new
\* message was open or stays settled.
LEMMA RowsSettle ==
  ASSUME TypeOK, PromptInv, NEW t \in Tasks, replies' = replies,
         \A u \in Tasks \ {t} : tasks'[u] = tasks[u] /\ msgs'[u] = msgs[u],
         \/ msgs'[t] = msgs[t] /\ tasks[t].status \notin {"COMPLETED", "DEAD_LETTER"}
         \/ tasks'[t].status \in {"COMPLETED", "DEAD_LETTER"},
         tasks'[t].status = "COMPLETED" => tasks'[t].completed
  PROVE  MessagesSettleRows'
BY DEF PromptInv, MessagesSettleRows

LEMMA InitPromptInv == ASSUME Init PROVE PromptInv
<1>1. \A w \in Workers : worker[w] = Idle
  BY DEF Init
<1>2. \A t \in Tasks : tasks[t] = AbsentRow /\ msgs[t] = NoMessages
  BY DEF Init
<1>3. \A w \in Workers : RowInStep(w)
  BY <1>1, IdleState DEF RowInStep, UsesLease
<1>4. OneWorkerPerRow /\ MessagesSettleRows
  BY <1>1, <1>2, IdleState DEF OneWorkerPerRow, MessagesSettleRows, Init, AbsentRow
<1> QED
  BY <1>3, <1>4 DEF PromptInv

LEMMA StepPromptInv ==
  ASSUME RowLocks, ~MayOverrun, TypeOK, LeaseInv, PromptInv, [Next]_vars PROVE PromptInv'
<1>0. /\ tasks \in [Tasks -> Row] /\ worker \in [Workers -> WorkerState] /\ msgs \in [Tasks -> MessageCounts]
      /\ \A w \in Workers : worker[w].pc # "idle" => worker[w].task \in Tasks
      /\ \A w \in Workers : RowInStep(w)
      /\ OneWorkerPerRow /\ MessagesSettleRows
  BY DEF TypeOK, PromptInv
<1>1. ASSUME NEW t \in Tasks, Enqueue(t) PROVE PromptInv'
  <2>1. tasks[t].status = "absent" /\ tasks' = [tasks EXCEPT ![t].status = "PENDING"]
        /\ UNCHANGED <<msgs, worker, replies>>
    BY <1>1 DEF Enqueue
  <2>2. /\ tasks'[t].status = "PENDING" /\ \A u \in Tasks \ {t} : tasks'[u] = tasks[u]
    BY <1>0, <2>1 DEF Row
  <2>3. \A v \in Workers : worker[v].pc # "idle" => worker[v].task # t
    <3>1. \A v \in Workers : worker[v].pc \in WorkerPC
      BY <1>0 DEF WorkerState
    <3> QED
      BY <1>0, <2>1, <3>1 DEF RowInStep, WorkerPC
  <2>4. \A v \in Workers : RowInStep(v)'
    BY <1>0, <2>1, <2>2, <2>3 DEF RowInStep, UsesLease
  <2>5. OneWorkerPerRow'
    BY <1>0, <2>1 DEF OneWorkerPerRow
  <2>6. MessagesSettleRows'
    BY <2>1, <2>2, RowsSettle
  <2> QED
    BY <2>4, <2>5, <2>6 DEF PromptInv
<1>2. ASSUME NEW t \in Tasks, RespondRead(t) PROVE PromptInv'
  BY <1>0, <1>2 DEF RespondRead, MessagesSettleRows
<1>3. ASSUME NEW t \in Tasks, RespondCommit(t) PROVE PromptInv'
  BY <1>0, <1>3 DEF RespondCommit, MessagesSettleRows
<1>4. ASSUME NEW w \in Workers, LeaseSelect(w) PROVE PromptInv'
  <2>1. PICK t \in Tasks :
          Ready(t) /\ ~Locked(t) /\ worker' = [worker EXCEPT ![w] = Loaded(t, "selected", Lease, FALSE)]
    BY <1>4 DEF LeaseSelect
  <2>2. UNCHANGED <<tasks, msgs, replies>>
    BY <1>4 DEF LeaseSelect
  <2>3. /\ worker'[w].pc = "selected" /\ worker'[w].task = t /\ worker'[w].left = Lease
        /\ \A v \in Workers \ {w} : worker'[v] = worker[v]
    BY <1>0, <2>1 DEF Loaded
  <2>4. \A v \in Workers : worker[v].pc # "idle" => worker[v].task # t
    <3>1. \A v \in Workers : worker[v].pc \in WorkerPC
      BY <1>0 DEF WorkerState
    <3> QED
      BY <1>0, <2>1, <3>1 DEF RowInStep, WorkerPC, Ready, Locked, UsesLease
  <2>5. RowInStep(w)'
    <3>1. Lease # Expired
      BY QueueAssumption DEF Expired
    <3>2. tasks'[t].status = "PENDING" \/ (tasks'[t].status = "LEASED" /\ tasks'[t].left = Expired)
      BY <2>1, <2>2 DEF Ready
    <3> QED
      BY <2>3, <3>1, <3>2 DEF RowInStep
  <2>6. \A v \in Workers \ {w} : RowInStep(v)'
    BY <1>0, <2>2, <2>3 DEF RowInStep, UsesLease
  <2>7. OneWorkerPerRow'
    BY <1>0, <2>3, <2>4 DEF OneWorkerPerRow
  <2>8. MessagesSettleRows'
    BY <1>0, <2>2 DEF MessagesSettleRows
  <2> QED
    BY <2>5, <2>6, <2>7, <2>8 DEF PromptInv
<1>5. ASSUME NEW w \in Workers, LeaseCommit(w) PROVE PromptInv'
  <2> DEFINE t == worker[w].task
  <2>1. worker[w].pc = "selected" /\ t \in Tasks /\ worker[w].left # Expired
        /\ tasks[t].status \in {"PENDING", "LEASED"} /\ worker[w].attempts \in Nat
        /\ worker[w].status = tasks[t].status
    BY <1>0, <1>5, RowOf DEF LeaseCommit, WorkerState, LeaseInv, SelectionFresh
  <2>2. /\ worker'[w].pc = "committed" /\ worker'[w].task = t /\ worker'[w].left = worker[w].left
        /\ worker'[w].attempts = worker[w].attempts + 1 /\ worker'[w].status = "LEASED"
        /\ \A v \in Workers \ {w} : worker'[v] = worker[v]
    BY <1>0, <1>5 DEF LeaseCommit, WorkerState
  <2>3. /\ tasks'[t].status = "LEASED" /\ tasks'[t].left = worker[w].left
        /\ tasks'[t].attempts = worker[w].attempts + 1
        /\ \A u \in Tasks \ {t} : tasks'[u] = tasks[u]
    BY <1>0, <1>5, <2>1 DEF LeaseCommit, Row, StatusSet
  <2>4. RowInStep(w)'
    BY <2>1, <2>2, <2>3 DEF RowInStep
  <2>5. (\A v \in Workers \ {w} : RowInStep(v)') /\ OneWorkerPerRow'
    BY <2>1, <2>2, <2>3, OthersInStep
  <2>6. UNCHANGED <<msgs, replies>>
    BY <1>5 DEF LeaseCommit
  <2>7. MessagesSettleRows'
    BY <2>1, <2>3, <2>6, RowsSettle
  <2> QED
    BY <2>4, <2>5, <2>7 DEF PromptInv
<1>6. ASSUME NEW w \in Workers, Route(w) PROVE PromptInv'
  <2>1. PICK p \in {"routedOk", "routedError"} : worker' = [worker EXCEPT ![w].pc = p]
    BY <1>6 DEF Route
  <2>2. /\ worker'[w].pc = p /\ worker'[w].task = worker[w].task /\ worker'[w].left = worker[w].left
        /\ worker'[w].attempts = worker[w].attempts /\ worker'[w].status = worker[w].status
        /\ \A v \in Workers \ {w} : worker'[v] = worker[v]
    BY <1>0, <2>1 DEF WorkerState
  <2>3. worker[w].pc = "leased" /\ UNCHANGED <<tasks, msgs, replies>>
    BY <1>6 DEF Route
  <2>4. RowInStep(w)'
    BY <1>0, <2>2, <2>3 DEF RowInStep, UsesLease
  <2>5. (\A v \in Workers \ {w} : RowInStep(v)') /\ OneWorkerPerRow'
    BY <2>2, <2>3, OthersInStep
  <2>6. MessagesSettleRows'
    BY <1>0, <2>3 DEF MessagesSettleRows
  <2> QED
    BY <2>4, <2>5, <2>6 DEF PromptInv
<1>7. ASSUME NEW w \in Workers, Deliver(w) PROVE PromptInv'
  <2> DEFINE t == worker[w].task
  <2>1. worker[w].pc # "idle" /\ t \in Tasks /\ worker' = [worker EXCEPT ![w] = Idle] /\ replies' = replies
    BY <1>0, <1>7 DEF Deliver
  <2>2. /\ tasks'[t].status = "COMPLETED" /\ tasks'[t].completed
        /\ \A u \in Tasks \ {t} : tasks'[u] = tasks[u]
    <3>1. worker[w].status # "COMPLETED"
      BY <1>7, RowOf DEF Deliver
    <3> QED
      BY <1>0, <1>7, <2>1, <3>1 DEF Deliver, Row, StatusSet
  <2>3. \A u \in Tasks \ {t} : msgs'[u] = msgs[u]
    BY <1>7, <2>1, DeliverSends DEF SendsOne
  <2> QED
    BY <2>1, <2>2, <2>3, LetsGo, RowsSettle DEF PromptInv
<1>8. ASSUME NEW w \in Workers, Retry(w) PROVE PromptInv'
  <2> DEFINE t == worker[w].task
  <2>1. worker[w].pc \in {"leased", "running"} /\ t \in Tasks /\ worker' = [worker EXCEPT ![w] = Idle]
        /\ UNCHANGED <<msgs, replies>>
    BY <1>0, <1>8 DEF Retry, MayRaise
  <2>3. tasks[t].status \in {"LEASED", "RUNNING"} /\ worker[w].status # "PENDING"
    BY <2>1, RowOf
  <2>2. tasks'[t].status = "PENDING" /\ \A u \in Tasks \ {t} : tasks'[u] = tasks[u]
    BY <1>0, <1>8, <2>1, <2>3 DEF Retry, Row, StatusSet
  <2> QED
    BY <2>1, <2>2, <2>3, LetsGo, RowsSettle DEF PromptInv
<1>9. ASSUME NEW w \in Workers, DeadLetter(w) PROVE PromptInv'
  <2> DEFINE t == worker[w].task
  <2>1. worker[w].pc \in {"leased", "running"} /\ t \in Tasks /\ worker' = [worker EXCEPT ![w] = Idle]
        /\ replies' = replies
    BY <1>0, <1>9 DEF DeadLetter, MayRaise
  <2>2. CASE t \in Addressed
    <3>1. tasks' = [tasks EXCEPT ![t].status = StatusSet(w, "DEAD_LETTER"), ![t].left = LeaseCleared(w)]
      BY <1>9, <2>2 DEF DeadLetter
    <3>2. tasks'[t].status = "DEAD_LETTER" /\ \A u \in Tasks \ {t} : tasks'[u] = tasks[u]
      <4>1. worker[w].status # "DEAD_LETTER"
        BY <2>1, RowOf
      <4> QED
        BY <1>0, <2>1, <3>1, <4>1 DEF Row, StatusSet
    <3>3. \A u \in Tasks \ {t} : msgs'[u] = msgs[u]
      BY <1>9, <2>2, DeadLetterSends DEF SendsOne
    <3> QED
      BY <2>1, <3>2, <3>3, LetsGo, RowsSettle DEF PromptInv
  <2>3. CASE t \notin Addressed
    <3>1. UNCHANGED <<tasks, msgs>>
      BY <1>9, <2>3 DEF DeadLetter
    <3>2. MessagesSettleRows'
      BY <1>0, <2>1, <3>1 DEF MessagesSettleRows
    <3> QED
      BY <2>1, <3>1, <3>2, LetsGo DEF PromptInv
  <2> QED
    BY <2>2, <2>3
<1>10. ASSUME NEW w \in Workers, RunStart(w) PROVE PromptInv'
  <2> DEFINE t == worker[w].task
  <2>1. worker[w].pc = "leased" /\ t \in Tasks /\ UNCHANGED <<msgs, replies>>
    BY <1>0, <1>10 DEF RunStart
  <2>2. /\ worker'[w].pc = "started" /\ worker'[w].task = t /\ worker'[w].attempts = worker[w].attempts
        /\ worker'[w].status = "RUNNING"
        /\ \A v \in Workers \ {w} : worker'[v] = worker[v]
    BY <1>0, <1>10 DEF RunStart, WorkerState
  <2>4. tasks[t].status = "LEASED" /\ tasks[t].attempts = worker[w].attempts /\ worker[w].status = "LEASED"
    BY <2>1, RowOf
  <2>3. /\ tasks'[t].status = "RUNNING" /\ tasks'[t].attempts = tasks[t].attempts
        /\ \A u \in Tasks \ {t} : tasks'[u] = tasks[u]
    BY <1>0, <1>10, <2>1, <2>4 DEF RunStart, Row, StatusSet
  <2>5. RowInStep(w)'
    BY <2>2, <2>3, <2>4 DEF RowInStep, UsesLease
  <2>6. (\A v \in Workers \ {w} : RowInStep(v)') /\ OneWorkerPerRow'
    BY <2>1, <2>2, <2>3, OthersInStep
  <2>7. MessagesSettleRows'
    BY <2>1, <2>3, <2>4, RowsSettle
  <2> QED
    BY <2>5, <2>6, <2>7 DEF PromptInv
<1>11. ASSUME NEW w \in Workers, RunComplete(w) \/ RunDeadLetter(w) PROVE PromptInv'
  <2> DEFINE t == worker[w].task
  <2>1. worker[w].pc = "running" /\ t \in Tasks /\ worker' = [worker EXCEPT ![w] = Idle]
        /\ UNCHANGED <<msgs, replies>>
    BY <1>0, <1>11 DEF RunComplete, RunDeadLetter
  <2>2. /\ tasks'[t].status \in {"COMPLETED", "DEAD_LETTER"}
        /\ tasks'[t].status = "COMPLETED" => tasks'[t].completed
        /\ \A u \in Tasks \ {t} : tasks'[u] = tasks[u]
    <3>1. worker[w].status = "RUNNING"
      BY <2>1, RowOf
    <3> QED
      BY <1>0, <1>11, <2>1, <3>1 DEF RunComplete, RunDeadLetter, Row, StatusSet
  <2> QED
    BY <2>1, <2>2, LetsGo, RowsSettle DEF PromptInv
<1>12. ASSUME NEW w \in Workers, RunAuthError(w) \/ Die(w) PROVE PromptInv'
  <2>1. worker[w].pc # "idle" /\ worker' = [worker EXCEPT ![w] = Idle] /\ UNCHANGED <<tasks, msgs, replies>>
    BY <1>12 DEF RunAuthError, Die
  <2>2. MessagesSettleRows'
    BY <1>0, <2>1 DEF MessagesSettleRows
  <2> QED
    BY <2>1, <2>2, LetsGo DEF PromptInv
<1>13. ASSUME Tick PROVE PromptInv'
  <2>1. /\ \A v \in Workers : UsesLease(v) => worker[v].left > 0
        /\ UNCHANGED <<msgs, replies>>
    BY <1>13 DEF Tick
  <2>2. \A v \in Workers :
          /\ worker'[v].pc = worker[v].pc /\ worker'[v].task = worker[v].task
          /\ worker'[v].attempts = worker[v].attempts /\ worker'[v].left = Elapse(worker[v].left)
          /\ worker'[v].status = worker[v].status
    BY <1>0, <1>13 DEF Tick, WorkerState
  <2>3. \A t \in Tasks :
          /\ tasks'[t].status = tasks[t].status /\ tasks'[t].attempts = tasks[t].attempts
          /\ tasks'[t].completed = tasks[t].completed /\ tasks'[t].left = Elapse(tasks[t].left)
    BY <1>0, <1>13 DEF Tick, Row
  <2>4. ASSUME NEW v \in Workers PROVE RowInStep(v)'
    <3>1. CASE worker[v].pc = "idle"
      BY <2>2, <3>1 DEF RowInStep, UsesLease
    <3>2. CASE worker[v].pc # "idle"
      <4>1. worker[v].task \in Tasks /\ worker[v].left \in NoLease .. Lease
        BY <1>0, <3>2 DEF WorkerState
      <4>2. UsesLease(v) => Elapse(worker[v].left) # Expired
        BY <2>1, <4>1, QueueAssumption DEF Elapse, Expired, NoLease
      <4>3. Elapse(Expired) = Expired
        BY DEF Elapse
      <4> QED
        BY <1>0, <2>2, <2>3, <4>1, <4>2, <4>3 DEF RowInStep, UsesLease
    <3> QED
      BY <3>1, <3>2
  <2>5. OneWorkerPerRow'
    BY <1>0, <2>2 DEF OneWorkerPerRow
  <2>6. MessagesSettleRows'
    BY <1>0, <2>1, <2>3 DEF MessagesSettleRows
  <2> QED
    BY <2>4, <2>5, <2>6 DEF PromptInv
<1>15. ASSUME NEW w \in Workers, Refresh(w) \/ StepRefresh(w) PROVE PromptInv'
  <2>1. PICK pc \in {"leased", "running"} :
          /\ worker[w].pc \in {"committed", "started", "running"} /\ Reload(w, pc)
          /\ pc = "running" <=> worker[w].pc \in {"started", "running"}
    BY <1>15 DEF Refresh, StepRefresh
  <2>2. pc \in WorkerPC
    BY DEF WorkerPC
  <2>3. /\ UNCHANGED <<tasks, msgs, replies>>
        /\ worker'[w].pc = pc /\ worker'[w].task = worker[w].task /\ worker'[w].left = worker[w].left
        /\ worker'[w].attempts = tasks[worker[w].task].attempts
        /\ worker'[w].status = tasks[worker[w].task].status
        /\ \A v \in Workers \ {w} : worker'[v] = worker[v]
    BY <1>0, <2>1, <2>2, Reloads
  <2>4. RowInStep(w)'
    BY <2>1, <2>3, RowOf DEF RowInStep, UsesLease
  <2>5. (\A v \in Workers \ {w} : RowInStep(v)') /\ OneWorkerPerRow'
    BY <2>1, <2>3, OthersInStep
  <2>6. MessagesSettleRows'
    BY <1>0, <2>3 DEF MessagesSettleRows
  <2> QED
    BY <2>4, <2>5, <2>6 DEF PromptInv
<1>14. ASSUME UNCHANGED vars PROVE PromptInv'
  BY <1>0, <1>14 DEF vars, PromptInv, RowInStep, UsesLease, OneWorkerPerRow, MessagesSettleRows
<1> QED
  BY <1>1, <1>2, <1>3, <1>4, <1>5, <1>6, <1>7, <1>8, <1>9, <1>10, <1>11, <1>12, <1>13, <1>14, <1>15
  DEF Next, Finish, Run

\* With leases that are kept, a row has one worker at a time.
THEOREM PromptlyServed ==
  ASSUME RowLocks, ~MayOverrun PROVE Spec => [](TypeOK /\ LeaseInv /\ PromptInv)
<1>1. Init => PromptInv
  BY InitPromptInv
<1>2. TypeOK /\ LeaseInv /\ PromptInv /\ [Next]_vars => PromptInv'
  BY StepPromptInv
<1> QED
  BY <1>1, <1>2, LeasesSafe, PTL DEF Spec

\* TASK_LEASE_SECONDS: as long as no processing outlasts its lease, no two
\* workers hold one row.
THEOREM LeasesAreExclusive == ASSUME RowLocks, ~MayOverrun PROVE Spec => []LeaseExclusive
<1>1. PromptInv => LeaseExclusive
  BY DEF PromptInv, OneWorkerPerRow, LeaseExclusive, Holders, Holding, Busy
<1> QED
  BY <1>1, PromptlyServed, PTL

\* While a worker runs a plan, in whatever time, nobody else holds its row.
THEOREM PlansRunAlone == ASSUME RowLocks, ~MayOverrun PROVE Spec => []PlanRunsAlone
<1>1. PromptInv => PlanRunsAlone
  BY DEF PromptInv, OneWorkerPerRow, PlanRunsAlone, Holders, Holding, Busy
<1> QED
  BY <1>1, PromptlyServed, PTL

-----------------------------------------------------------------------------
(* The jobs of JobLifecycle *)

\* The phase of a job is read off the status, the lease and the attempts of its row.
LEMMA Phases ==
  ASSUME NEW t \in Tasks
  PROVE  /\ tasks[t].status = "absent" => JobPhase(t) = "none"
         /\ tasks[t].status = "PENDING" => JobPhase(t) = "waiting"
         /\ tasks[t].status = "LEASED" /\ tasks[t].left # Expired => JobPhase(t) = "working"
         /\ tasks[t].status = "LEASED" /\ tasks[t].left = Expired =>
              JobPhase(t) = IF tasks[t].attempts = MaxAttempts[t] THEN "lost" ELSE "waiting"
         /\ tasks[t].status = "RUNNING" => JobPhase(t) = "working"
         /\ tasks[t].status = "COMPLETED" => JobPhase(t) = "done"
         /\ tasks[t].status = "DEAD_LETTER" => JobPhase(t) = "failed"
BY DEF JobPhase, Abandoned

LEMMA PhasesPrime ==
  ASSUME NEW t \in Tasks
  PROVE  /\ tasks'[t].status = "PENDING" => JobPhase(t)' = "waiting"
         /\ tasks'[t].status = "LEASED" /\ tasks'[t].left # Expired => JobPhase(t)' = "working"
         /\ tasks'[t].status = "LEASED" /\ tasks'[t].left = Expired =>
              JobPhase(t)' = IF tasks'[t].attempts = MaxAttempts[t] THEN "lost" ELSE "waiting"
         /\ tasks'[t].status = "RUNNING" => JobPhase(t)' = "working"
         /\ tasks'[t].status = "COMPLETED" => JobPhase(t)' = "done"
         /\ tasks'[t].status = "DEAD_LETTER" => JobPhase(t)' = "failed"
BY DEF JobPhase, Abandoned

\* What the abstract actions say of the row of a job.
LEMMA Mapped ==
  ASSUME NEW t \in Tasks
  PROVE  LET from == JobPhase(t)
             to == JobPhase(t)'
             n == tasks[t].attempts
             m == tasks'[t].attempts
         IN /\ from = to /\ m = n /\ Sent(t)' = Sent(t) => Abstract!Stays(t)
            /\ from = "none" /\ to = "waiting" /\ m = n /\ Sent(t)' = Sent(t) => Abstract!Submit(t)
            /\ from = "waiting" /\ to = "working" /\ n < MaxAttempts[t] /\ m = n + 1 /\ Sent(t)' = Sent(t)
                 => Abstract!Take(t)
            /\ from = "working" /\ to = "waiting" /\ n < MaxAttempts[t] /\ m = n /\ Sent(t)' = Sent(t)
                 => Abstract!Return(t)
            /\ from = "working" /\ to \in {"done", "failed"} /\ m = n /\ Sent(t)' \in {Sent(t), Sent(t) + 1}
                 => Abstract!Settle(t)
            /\ from = "working" /\ to = "lost" /\ n = MaxAttempts[t] /\ m = n /\ Sent(t)' = Sent(t)
                 => Abstract!Lose(t)
BY DEF Abstract!Stays, Abstract!Submit, Abstract!Take, Abstract!Return, Abstract!Settle, Abstract!Lose,
       Abstract!Moves

\* A row that nobody writes and that gets no message stays where it is.
LEMMA RowStays ==
  ASSUME NEW t \in Tasks, tasks'[t] = tasks[t], msgs'[t] = msgs[t] PROVE Abstract!Stays(t)
<1>1. JobPhase(t)' = JobPhase(t) /\ Sent(t)' = Sent(t)
  BY DEF JobPhase, Abandoned, Sent
<1> QED
  BY <1>1, Mapped

\* A step that changes one row is a step of one job.
LEMMA OneJobMoves ==
  ASSUME NEW t \in Tasks, \A u \in Tasks \ {t} : tasks'[u] = tasks[u] /\ msgs'[u] = msgs[u],
         \/ Abstract!Submit(t) \/ Abstract!Take(t) \/ Abstract!Return(t)
         \/ Abstract!Settle(t) \/ Abstract!Lose(t) \/ Abstract!Stays(t)
  PROVE  Abstract!JobNext
BY RowStays DEF Abstract!JobNext

LEMMA NoRowChanges == ASSUME UNCHANGED <<tasks, msgs>> PROVE Abstract!JobNext
BY RowStays DEF Abstract!JobNext

LEMMA InitRefines == ASSUME Init PROVE Abstract!JobInit
<1>1. \A t \in Tasks : tasks[t] = AbsentRow /\ msgs[t] = NoMessages
  BY DEF Init
<1>2. \A t \in Tasks : JobPhase(t) = "none" /\ tasks[t].attempts = 0 /\ Sent(t) = 0
  BY <1>1, Phases DEF AbsentRow, NoMessages, Sent
<1> QED
  BY <1>2 DEF Abstract!JobInit

\* Every step of the queue is a step of its jobs, and only Tick moves several.
LEMMA StepRefines ==
  ASSUME RowLocks, ~MayOverrun, TypeOK, LeaseInv, PromptInv, [Next]_vars PROVE Abstract!JobNext
<1>0. /\ tasks \in [Tasks -> Row] /\ worker \in [Workers -> WorkerState] /\ msgs \in [Tasks -> MessageCounts]
      /\ \A w \in Workers : worker[w].pc # "idle" => worker[w].task \in Tasks
      /\ replies = {}
      /\ \A t \in Tasks : tasks[t].attempts \in Nat /\ MaxAttempts[t] \in Nat /\ tasks[t].attempts <= MaxAttempts[t]
  BY QueueAssumption DEF TypeOK, PromptInv, MessagesSettleRows, Row, LeaseInv, LeasesCounted
<1>1. ASSUME NEW t \in Tasks, Enqueue(t) PROVE Abstract!JobNext
  <2>1. tasks[t].status = "absent" /\ tasks' = [tasks EXCEPT ![t].status = "PENDING"] /\ msgs' = msgs
    BY <1>1 DEF Enqueue
  <2>2. /\ tasks'[t].status = "PENDING" /\ tasks'[t].attempts = tasks[t].attempts
        /\ \A u \in Tasks \ {t} : tasks'[u] = tasks[u]
    BY <1>0, <2>1 DEF Row
  <2>3. JobPhase(t) = "none" /\ JobPhase(t)' = "waiting" /\ Sent(t)' = Sent(t)
    BY <2>1, <2>2, Phases, PhasesPrime DEF Sent
  <2>4. Abstract!Submit(t)
    BY <2>2, <2>3, Mapped
  <2> QED
    BY <2>1, <2>2, <2>4, OneJobMoves
<1>2. ASSUME NEW t \in Tasks, RespondRead(t) PROVE Abstract!JobNext
  BY <1>2, NoRowChanges DEF RespondRead
<1>3. ASSUME NEW t \in Tasks, RespondCommit(t) PROVE Abstract!JobNext
  BY <1>0, <1>3 DEF RespondCommit
<1>4. ASSUME NEW w \in Workers,
             \/ LeaseSelect(w) \/ Refresh(w) \/ StepRefresh(w) \/ Route(w)
             \/ RunAuthError(w) \/ Die(w)
      PROVE  Abstract!JobNext
  BY <1>4, NoRowChanges DEF LeaseSelect, Refresh, StepRefresh, Reload, Route, RunAuthError, Die
<1>5. ASSUME NEW w \in Workers, LeaseCommit(w) PROVE Abstract!JobNext
  <2>0. PICK t \in Tasks : t = worker[w].task
    BY <1>0, <1>5 DEF LeaseCommit
  <2>1. /\ worker[w].pc = "selected" /\ t \in Tasks /\ worker[w].left # Expired
        /\ tasks[t].status = "PENDING" \/ (tasks[t].status = "LEASED" /\ tasks[t].left = Expired)
    BY <2>0, <1>0, <1>5, RowOf DEF LeaseCommit
  <2>2. /\ tasks[t].attempts = worker[w].attempts /\ tasks[t].attempts < MaxAttempts[t]
        /\ tasks[t].status = worker[w].status
    BY <2>0, <2>1 DEF LeaseInv, SelectionFresh
  <2>3. /\ tasks'[t].status = "LEASED" /\ tasks'[t].left = worker[w].left
        /\ tasks'[t].attempts = worker[w].attempts + 1
        /\ \A u \in Tasks \ {t} : tasks'[u] = tasks[u]
    BY <2>0, <1>0, <1>5, <2>1, <2>2 DEF LeaseCommit, Row, StatusSet
  <2>4. msgs' = msgs
    BY <1>5 DEF LeaseCommit
  <2>5. JobPhase(t) = "waiting"
    BY <1>0, <2>1, <2>2, Phases
  <2>6. JobPhase(t)' = "working" /\ Sent(t)' = Sent(t)
    BY <2>1, <2>3, <2>4, PhasesPrime DEF Sent
  <2>7. Abstract!Take(t)
    BY <2>1, <2>2, <2>3, <2>5, <2>6, Mapped
  <2> QED
    BY <2>1, <2>3, <2>4, <2>7, OneJobMoves
<1>6. ASSUME NEW w \in Workers, worker[w].pc \in {"leased", "routedOk", "routedError", "running"}
      PROVE  /\ worker[w].task \in Tasks /\ JobPhase(worker[w].task) = "working"
             /\ tasks[worker[w].task].attempts = worker[w].attempts
             /\ worker[w].status \in {"LEASED", "RUNNING"}
  <2>1. \/ tasks[worker[w].task].status = "LEASED" /\ tasks[worker[w].task].left # Expired
        \/ tasks[worker[w].task].status = "RUNNING"
    BY <1>6, RowOf
  <2> QED
    BY <1>0, <1>6, <2>1, RowOf, Phases
<1>7. ASSUME NEW w \in Workers, Deliver(w) PROVE Abstract!JobNext
  <2>0. PICK t \in Tasks : t = worker[w].task
    BY <1>0, <1>7 DEF Deliver
  <2>1. t \in Tasks /\ JobPhase(t) = "working" /\ worker[w].status # "COMPLETED"
    BY <2>0, <1>6, <1>7 DEF Deliver
  <2>2. /\ tasks'[t].status = "COMPLETED" /\ tasks'[t].attempts = tasks[t].attempts
        /\ \A u \in Tasks \ {t} : tasks'[u] = tasks[u]
    BY <2>0, <1>0, <1>7, <2>1 DEF Deliver, Row, StatusSet
  <2>3. Sent(t)' = Sent(t) + 1 /\ \A u \in Tasks \ {t} : msgs'[u] = msgs[u]
    BY <2>0, <1>7, <2>1, DeliverSends DEF SendsOne
  <2>4. JobPhase(t)' = "done"
    BY <2>1, <2>2, PhasesPrime
  <2>5. Abstract!Settle(t)
    BY <2>1, <2>2, <2>3, <2>4, Mapped
  <2> QED
    BY <2>1, <2>2, <2>3, <2>5, OneJobMoves
<1>8. ASSUME NEW w \in Workers, Retry(w) PROVE Abstract!JobNext
  <2>0. PICK t \in Tasks : t = worker[w].task
    BY <1>0, <1>8 DEF Retry, MayRaise
  <2>1. /\ t \in Tasks /\ JobPhase(t) = "working" /\ tasks[t].attempts = worker[w].attempts
        /\ worker[w].status # "PENDING"
    BY <2>0, <1>6, <1>8 DEF Retry, MayRaise
  <2>2. /\ tasks'[t].status = "PENDING" /\ tasks'[t].attempts = tasks[t].attempts
        /\ \A u \in Tasks \ {t} : tasks'[u] = tasks[u]
    BY <2>0, <1>0, <1>8, <2>1 DEF Retry, Row, StatusSet
  <2>3. worker[w].attempts < MaxAttempts[t] /\ msgs' = msgs
    BY <2>0, <1>8 DEF Retry
  <2>4. JobPhase(t)' = "waiting" /\ Sent(t)' = Sent(t)
    BY <2>1, <2>2, <2>3, PhasesPrime DEF Sent
  <2>5. Abstract!Return(t)
    BY <2>1, <2>2, <2>3, <2>4, Mapped
  <2> QED
    BY <2>1, <2>2, <2>3, <2>5, OneJobMoves
<1>9. ASSUME NEW w \in Workers, DeadLetter(w) PROVE Abstract!JobNext
  <2>0. PICK t \in Tasks : t = worker[w].task
    BY <1>0, <1>9 DEF DeadLetter, MayRaise
  <2>1. t \in Tasks /\ JobPhase(t) = "working" /\ worker[w].status # "DEAD_LETTER"
    BY <2>0, <1>6, <1>9 DEF DeadLetter, MayRaise
  <2>2. CASE t \in Addressed
    <3>1. tasks' = [tasks EXCEPT ![t].status = StatusSet(w, "DEAD_LETTER"), ![t].left = LeaseCleared(w)]
      BY <2>0, <1>9, <2>2 DEF DeadLetter
    <3>2. /\ tasks'[t].status = "DEAD_LETTER" /\ tasks'[t].attempts = tasks[t].attempts
          /\ \A u \in Tasks \ {t} : tasks'[u] = tasks[u]
      BY <1>0, <2>1, <3>1 DEF Row, StatusSet
    <3>3. Sent(t)' = Sent(t) + 1 /\ \A u \in Tasks \ {t} : msgs'[u] = msgs[u]
      BY <2>0, <1>9, <2>2, DeadLetterSends DEF SendsOne
    <3>4. JobPhase(t)' = "failed"
      BY <2>1, <3>2, PhasesPrime
    <3>5. Abstract!Settle(t)
      BY <2>1, <3>2, <3>3, <3>4, Mapped
    <3> QED
      BY <2>1, <3>2, <3>3, <3>5, OneJobMoves
  <2>3. CASE t \notin Addressed
    BY <2>0, <1>9, <2>3, NoRowChanges DEF DeadLetter
  <2> QED
    BY <2>2, <2>3
<1>10. ASSUME NEW w \in Workers, RunStart(w) PROVE Abstract!JobNext
  <2>0. PICK t \in Tasks : t = worker[w].task
    BY <1>0, <1>10 DEF RunStart
  <2>1. t \in Tasks /\ JobPhase(t) = "working" /\ msgs' = msgs /\ worker[w].status # "RUNNING"
    BY <2>0, <1>6, <1>10, RowOf DEF RunStart
  <2>2. /\ tasks'[t].status = "RUNNING" /\ tasks'[t].attempts = tasks[t].attempts
        /\ \A u \in Tasks \ {t} : tasks'[u] = tasks[u]
    BY <2>0, <1>0, <1>10, <2>1 DEF RunStart, Row, StatusSet
  <2>3. JobPhase(t)' = "working" /\ Sent(t)' = Sent(t)
    BY <2>1, <2>2, PhasesPrime DEF Sent
  <2>4. Abstract!Stays(t)
    BY <2>1, <2>2, <2>3, Mapped
  <2> QED
    BY <2>1, <2>2, <2>4, OneJobMoves
<1>11. ASSUME NEW w \in Workers, RunComplete(w) \/ RunDeadLetter(w) PROVE Abstract!JobNext
  <2>0. PICK t \in Tasks : t = worker[w].task
    BY <1>0, <1>11 DEF RunComplete, RunDeadLetter
  <2>1. t \in Tasks /\ JobPhase(t) = "working" /\ msgs' = msgs /\ worker[w].status \in {"LEASED", "RUNNING"}
    BY <2>0, <1>6, <1>11 DEF RunComplete, RunDeadLetter
  <2>2. /\ tasks'[t].status \in {"COMPLETED", "DEAD_LETTER"} /\ tasks'[t].attempts = tasks[t].attempts
        /\ \A u \in Tasks \ {t} : tasks'[u] = tasks[u]
    BY <2>0, <1>0, <1>11, <2>1 DEF RunComplete, RunDeadLetter, Row, StatusSet
  <2>3. JobPhase(t)' \in {"done", "failed"} /\ Sent(t)' = Sent(t)
    BY <2>1, <2>2, PhasesPrime DEF Sent
  <2>4. Abstract!Settle(t)
    BY <2>1, <2>2, <2>3, Mapped
  <2> QED
    BY <2>1, <2>2, <2>4, OneJobMoves
<1>12. ASSUME Tick PROVE Abstract!JobNext
  <2>1. msgs' = msgs /\ \A t \in Tasks :
          /\ tasks'[t].status = tasks[t].status /\ tasks'[t].attempts = tasks[t].attempts
          /\ tasks'[t].left = Elapse(tasks[t].left)
    BY <1>0, <1>12 DEF Tick, Row
  <2>2. ASSUME NEW t \in Tasks PROVE Abstract!Return(t) \/ Abstract!Lose(t) \/ Abstract!Stays(t)
    <3>0. Sent(t)' = Sent(t) /\ tasks'[t].attempts = tasks[t].attempts
      BY <2>1 DEF Sent
    <3>1. CASE tasks[t].status = "LEASED" /\ tasks[t].left # Expired /\ tasks'[t].left = Expired
      <4>1. JobPhase(t) = "working"
        BY <3>1, Phases
      <4>2. JobPhase(t)' = IF tasks[t].attempts = MaxAttempts[t] THEN "lost" ELSE "waiting"
        BY <2>1, <3>1, PhasesPrime
      <4>3. CASE tasks[t].attempts = MaxAttempts[t]
        BY <3>0, <4>1, <4>2, <4>3, Mapped
      <4>4. CASE tasks[t].attempts # MaxAttempts[t]
        <5>1. tasks[t].attempts < MaxAttempts[t]
          BY <1>0, <4>4
        <5> QED
          BY <3>0, <4>1, <4>2, <4>4, <5>1, Mapped
      <4> QED
        BY <4>3, <4>4
    <3>2. CASE ~(tasks[t].status = "LEASED" /\ tasks[t].left # Expired /\ tasks'[t].left = Expired)
      <4>1. tasks[t].left = Expired => tasks'[t].left = Expired
        BY <2>1 DEF Elapse
      <4>2. tasks'[t].status = tasks[t].status
        BY <2>1
      <4>3. JobPhase(t)' = JobPhase(t)
        BY <3>0, <3>2, <4>1, <4>2 DEF JobPhase, Abandoned
      <4> QED
        BY <3>0, <4>3, Mapped
    <3> QED
      BY <3>1, <3>2
  <2> QED
    BY <2>2 DEF Abstract!JobNext
<1>13. ASSUME UNCHANGED vars PROVE Abstract!JobNext
  BY <1>13, NoRowChanges DEF vars
<1> QED
  BY <1>1, <1>2, <1>3, <1>4, <1>5, <1>7, <1>8, <1>9, <1>10, <1>11, <1>12, <1>13 DEF Next, Finish, Run

\* With row locks and leases that are kept the queue implements JobLifecycle:
\* one worker at a time, at most max_attempts tries, one message at most, and a
\* settled job stays settled.
THEOREM JobsAreImplemented == ASSUME RowLocks, ~MayOverrun PROVE Spec => JobsImplemented
<1>1. Init => Abstract!JobInit
  BY InitRefines
<1>2. TypeOK /\ LeaseInv /\ PromptInv /\ [Next]_vars => [Abstract!JobNext]_(Abstract!jobVars)
  BY StepRefines
<1> QED
  BY <1>1, <1>2, PromptlyServed, PTL DEF Spec, JobsImplemented, Abstract!JobSpec
=============================================================================
