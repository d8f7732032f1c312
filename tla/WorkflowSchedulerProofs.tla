---------------------- MODULE WorkflowSchedulerProofs ----------------------
(***************************************************************************)
(* Proofs about WorkflowScheduler, for any workflows, rows, requests and   *)
(* intervals: with any number of schedulers, how many runs a disabled      *)
(* schedule still gets; with one, that its runs keep their distance.       *)
(***************************************************************************)
EXTENDS WorkflowScheduler, FiniteSetTheorems, TLAPS

Batches == UNION {[S -> Intervals] : S \in SUBSET Rows}

Knowledge == {<<>>} \cup (Workflows \X {"active", "inactive"})

-----------------------------------------------------------------------------
(* Batches and times *)

\* A batch is a function from some rows to intervals; its restriction is one.
LEMMA BatchType ==
  ASSUME NEW b
  PROVE  b \in Batches <=> /\ b = [s \in DOMAIN b |-> b[s]] /\ DOMAIN b \subseteq Rows
                           /\ \A s \in DOMAIN b : b[s] \in Intervals
BY DEF Batches

LEMMA BatchRestricted ==
  ASSUME NEW b \in Batches, NEW S \in SUBSET DOMAIN b
  PROVE  Restrict(b, S) \in Batches /\ DOMAIN Restrict(b, S) = S
<1>1. DOMAIN b \subseteq Rows /\ \A s \in DOMAIN b : b[s] \in Intervals
  BY BatchType
<1> QED
  BY <1>1 DEF Restrict, Batches

LEMMA SleepingType ==
  /\ Sleeping \in Loop /\ DOMAIN Sleeping.batch = {}
  /\ Sleeping.pc = "idle" /\ Sleeping.lag = 0
<1>1. <<>> \in [{} -> Intervals]
  OBVIOUS
<1>2. <<>> \in Batches /\ DOMAIN <<>> = {}
  BY <1>1 DEF Batches
<1>3. 0 \in 0 .. NumRows /\ 0 \in 0 .. Horizon
  BY SchedulerAssumption
<1> QED
  BY <1>2, <1>3 DEF Sleeping, Loop, Batches

\* Times stay within the horizon, whatever is done with them.
LEMMA Times ==
  /\ Intervals \subseteq 1 .. Horizon /\ 0 \in 0 .. Horizon
  /\ \A n \in 0 .. Horizon : Sooner(n) \in 0 .. Horizon /\ Older(n) \in 0 .. Horizon
  /\ \A i \in Intervals, n \in 0 .. Horizon : Later(i, n) \in 0 .. Horizon
  /\ NothingOwed \in -Horizon .. Horizon /\ Horizon \in Nat
  /\ \A n \in -Horizon .. Horizon : Paid(n) \in -Horizon .. Horizon
  /\ \A i \in Intervals, n \in 0 .. Horizon : i - n \in -Horizon .. Horizon /\ i - n <= Later(i, n)
  /\ \A m \in -Horizon .. Horizon, n \in 0 .. Horizon :
       /\ m <= n => Paid(m) <= Sooner(n)
       /\ m + n <= 0 => Paid(m) + Older(n) <= 0 /\ m <= 0
BY SchedulerAssumption DEF Sooner, Older, Later, Paid, NothingOwed

\* The parts of a well-typed state that the actions look at.
LEMMA Typed ==
  ASSUME TypeOK
  PROVE  /\ schedule \in [Rows -> ScheduleRow] /\ loop \in [Schedulers -> Loop]
         /\ owed \in [Rows -> -Horizon .. Horizon] /\ late \in [Rows -> Nat]
         /\ \A s \in Rows :
              /\ schedule[s] \in ScheduleRow /\ schedule[s].workflow \in Workflows
              /\ schedule[s].left \in 0 .. Horizon /\ schedule[s].interval \in Intervals
              /\ schedule[s].enabled \in BOOLEAN
         /\ \A p \in Schedulers :
              /\ loop[p] \in Loop /\ loop[p].batch \in Batches /\ loop[p].lag \in 0 .. Horizon
              /\ DOMAIN loop[p].batch \subseteq Rows /\ loop[p].row \in 0 .. NumRows
              /\ \A s \in DOMAIN loop[p].batch : loop[p].batch[s] \in Intervals
<1>1. \A s \in Rows :
        /\ schedule[s] \in ScheduleRow /\ schedule[s].workflow \in Workflows
        /\ schedule[s].left \in 0 .. Horizon /\ schedule[s].interval \in Intervals
        /\ schedule[s].enabled \in BOOLEAN
  BY DEF TypeOK, ScheduleRow
<1>2. \A p \in Schedulers :
        loop[p] \in Loop /\ loop[p].batch \in Batches /\ loop[p].lag \in 0 .. Horizon /\ loop[p].row \in 0 .. NumRows
  BY DEF TypeOK, Loop, Batches
<1> QED
  BY <1>1, <1>2, BatchType DEF TypeOK

\* What an update of one field does to a row of the table, and to a loop.
LEMMA RowUpdates ==
  /\ \A r \in ScheduleRow, b \in BOOLEAN : [r EXCEPT !.enabled = b] \in ScheduleRow
  /\ \A r \in ScheduleRow, n \in 0 .. Horizon : [r EXCEPT !.left = n] \in ScheduleRow
BY DEF ScheduleRow

LEMMA LoopType ==
  \A c \in {"idle", "batch", "claimed", "created"}, b \in Batches, n \in 0 .. NumRows,
     k \in Knowledge, l \in 0 .. Horizon :
    [pc |-> c, batch |-> b, row |-> n, known |-> k, lag |-> l] \in Loop
BY DEF Loop, Batches, Knowledge

LEMMA LoopUpdates ==
  /\ \A r \in Loop, c \in {"idle", "batch", "claimed", "created"} : [r EXCEPT !.pc = c] \in Loop
  /\ \A r \in Loop, n \in 0 .. NumRows : [r EXCEPT !.row = n] \in Loop
  /\ \A r \in Loop, n \in 0 .. Horizon : [r EXCEPT !.lag = n] \in Loop
  /\ \A r \in Loop, b \in Batches : [r EXCEPT !.batch = b] \in Loop
BY DEF Loop, Batches

\* What Proceed does: the schedule leaves the batch, nothing else joins it.
LEMMA ProceedDoes ==
  ASSUME TypeOK, NEW p \in Schedulers, NEW s, NEW known \in Knowledge, Proceed(p, s, known)
  PROVE  /\ loop' \in [Schedulers -> Loop]
         /\ \A q \in Schedulers \ {p} : loop'[q] = loop[q]
         /\ DOMAIN loop'[p].batch = DOMAIN loop[p].batch \ {s}
         /\ loop'[p].pc \in {"idle", "batch"}
         /\ loop'[p].lag \in {0, loop[p].lag} /\ (loop'[p].pc = "idle" => loop'[p].lag = 0)
<1> DEFINE left == DOMAIN loop[p].batch \ {s}
           next == [pc |-> "batch", batch |-> Restrict(loop[p].batch, left), row |-> 0,
                    known |-> known, lag |-> loop[p].lag]
<1>1. loop' = [loop EXCEPT ![p] = IF left = {} THEN Sleeping ELSE next]
  BY DEF Proceed
<1>2. Restrict(loop[p].batch, left) \in Batches /\ DOMAIN Restrict(loop[p].batch, left) = left
  BY Typed, BatchRestricted
<1>3. next \in Loop
  <2>1. /\ Restrict(loop[p].batch, left) \in Batches /\ known \in Knowledge
        /\ 0 \in 0 .. NumRows /\ loop[p].lag \in 0 .. Horizon
    BY <1>2, Typed, SchedulerAssumption
  <2> QED
    BY <2>1, LoopType
<1>4. loop'[p] = IF left = {} THEN Sleeping ELSE next
  BY <1>1, Typed
<1>5. CASE left = {}
  BY <1>1, <1>4, <1>5, SleepingType, Typed
<1>6. CASE left # {}
  <2>1. /\ loop'[p].batch = Restrict(loop[p].batch, left) /\ loop'[p].pc = "batch"
        /\ loop'[p].lag = loop[p].lag
    BY <1>4, <1>6
  <2> QED
    BY <1>1, <1>2, <1>3, <1>6, <2>1, Typed
<1> QED
  BY <1>5, <1>6

-----------------------------------------------------------------------------
(* Type correctness, and the row that a tick is at *)

\* The schedule that a tick has claimed is still in its batch.
RowHeld ==
  \A p \in Schedulers : loop[p].pc \in {"claimed", "created"} => loop[p].row \in DOMAIN loop[p].batch

LEMMA InitTypeOK == ASSUME Init PROVE TypeOK /\ RowHeld
<1>1. PICK w \in Workflows, i \in Intervals :
        schedule = [s \in Rows |-> [life |-> "unborn", workflow |-> w, enabled |-> FALSE, interval |-> i, left |-> 0]]
  BY DEF Init
<1>2. [life |-> "unborn", workflow |-> w, enabled |-> FALSE, interval |-> i, left |-> 0] \in ScheduleRow
  BY Times DEF ScheduleRow
<1>3. crashes \in 0 .. MaxCrashes /\ loop \in [Schedulers -> Loop]
  BY SleepingType, SchedulerAssumption DEF Init
<1>4. RowHeld
  BY SleepingType DEF Init, RowHeld
<1> QED
  BY <1>1, <1>2, <1>3, <1>4, Times DEF Init, TypeOK

\* What the commit of a POST writes.
PostWrites(r, s, enabled, interval, left) ==
  /\ Written(request[r][2], s)
  /\ schedule' = [schedule EXCEPT ![s] =
       [life |-> "live", workflow |-> request[r][1], enabled |-> enabled,
        interval |-> interval, left |-> left]]
  /\ owed' = [owed EXCEPT ![s] = NothingOwed]
  /\ late' = [late EXCEPT ![s] = IF enabled THEN 0 ELSE @]

\* The users change the tables only.
LEMMA UserTypeOK == ASSUME TypeOK, RowHeld, User PROVE TypeOK' /\ RowHeld' /\ loop' = loop
<1>1. ASSUME NEW w \in Workflows, CreateWorkflow(w) \/ UpdateWorkflow(w) \/ DeleteWorkflow(w)
      PROVE  TypeOK' /\ loop' = loop
  <2>1. workflow' \in [Workflows -> {"unborn", "active", "inactive", "deleted"}]
    BY <1>1 DEF CreateWorkflow, UpdateWorkflow, DeleteWorkflow, TypeOK
  <2> QED
    BY <1>1, <2>1 DEF CreateWorkflow, UpdateWorkflow, DeleteWorkflow, TypeOK
<1>2. ASSUME NEW r \in Requests, NEW w \in Workflows, PostRead(r, w) PROVE TypeOK' /\ loop' = loop
  <2>1. PICK row \in IF SchedulesOf(w) = {} THEN {0} ELSE SchedulesOf(w) :
          request' = [request EXCEPT ![r] = <<w, row>>]
    BY <1>2 DEF PostRead
  <2>2. row \in 0 .. NumRows
    BY <2>1, SchedulerAssumption DEF SchedulesOf, Rows
  <2>3. <<w, row>> \in Posting
    BY <2>2 DEF Posting
  <2> QED
    BY <1>2, <2>1, <2>3 DEF PostRead, TypeOK
<1>3. ASSUME NEW r \in Requests, PostCommit(r) PROVE TypeOK' /\ loop' = loop
  <2>1. PICK s \in Rows, enabled \in BOOLEAN, interval \in Intervals : \E left \in {0} \cup Intervals :
          PostWrites(r, s, enabled, interval, left)
    BY <1>3 DEF PostCommit, PostWrites
  <2>2. PICK left \in {0} \cup Intervals : PostWrites(r, s, enabled, interval, left)
    BY <2>1
  <2>3. request[r] \in Posting
    BY <1>3 DEF PostCommit, TypeOK
  <2>4. request[r][1] \in Workflows
    BY <2>3 DEF Posting
  <2>5. left \in 0 .. Horizon
    <3>1. {0} \cup Intervals \subseteq 0 .. Horizon
      BY SchedulerAssumption
    <3> QED
      BY <3>1
  <2>6. schedule' \in [Rows -> ScheduleRow]
    BY <2>2, <2>4, <2>5, Typed DEF ScheduleRow, PostWrites
  <2>7. owed' \in [Rows -> -Horizon .. Horizon] /\ late' \in [Rows -> Nat]
    BY <2>2, Typed, Times DEF PostWrites
  <2>8. request' = [request EXCEPT ![r] = NoRequest] /\ UNCHANGED <<workflow, loop, crashes>>
    BY <1>3 DEF PostCommit
  <2> QED
    BY <2>6, <2>7, <2>8 DEF TypeOK
<1>4. ASSUME NEW r \in Requests, PostFail(r) PROVE TypeOK' /\ loop' = loop
  BY <1>4 DEF PostFail, TypeOK
<1>5. ASSUME NEW s \in Rows, DeleteSchedule(s) PROVE TypeOK' /\ loop' = loop
  <2>1. schedule' \in [Rows -> ScheduleRow]
    <3>1. [schedule[s] EXCEPT !.life = "deleted", !.enabled = FALSE, !.left = 0] \in ScheduleRow
      BY Typed, Times DEF ScheduleRow
    <3>2. schedule' = [schedule EXCEPT ![s] = [schedule[s] EXCEPT !.life = "deleted", !.enabled = FALSE, !.left = 0]]
      BY <1>5, Typed DEF DeleteSchedule
    <3> QED
      BY <3>1, <3>2, Typed
  <2>2. owed' \in [Rows -> -Horizon .. Horizon]
    BY <1>5, Typed, Times DEF DeleteSchedule
  <2> QED
    BY <1>5, <2>1, <2>2 DEF DeleteSchedule, TypeOK
<1>6. TypeOK' /\ loop' = loop
  BY <1>1, <1>2, <1>3, <1>4, <1>5 DEF User
<1> QED
  BY <1>6 DEF RowHeld

\* A tick is over, whatever was left of its batch.
LEMMA Stops ==
  ASSUME TypeOK, NEW p \in Schedulers, loop' = [loop EXCEPT ![p] = Sleeping]
  PROVE  /\ loop' \in [Schedulers -> Loop] /\ loop'[p] = Sleeping
         /\ DOMAIN loop'[p].batch = {} /\ loop'[p].pc = "idle" /\ loop'[p].lag = 0
         /\ \A q \in Schedulers \ {p} : loop'[q] = loop[q]
BY Typed, SleepingType

\* A tick selects due rows, and nothing but due rows.
LEMMA SelectDoes ==
  ASSUME TypeOK, NEW p \in Schedulers, Select(p)
  PROVE  /\ loop' \in [Schedulers -> Loop]
         /\ \A q \in Schedulers \ {p} : loop'[q] = loop[q]
         /\ loop[p].pc = "idle" /\ loop'[p].pc = "batch" /\ loop'[p].lag = loop[p].lag
         /\ \A s \in DOMAIN loop'[p].batch : s \in Rows /\ Due(s)
         /\ UNCHANGED <<workflow, schedule, request, crashes, owed, late>>
<1>1. PICK S \in SUBSET {s \in Rows : Due(s)} :
        loop' = [loop EXCEPT ![p].pc = "batch", ![p].batch = [s \in S |-> schedule[s].interval]]
  BY DEF Select
<1> DEFINE b == [s \in S |-> schedule[s].interval]
<1>2. b \in Batches /\ DOMAIN b = S
  <2>1. S \in SUBSET Rows /\ \A s \in S : schedule[s].interval \in Intervals
    BY Typed
  <2>2. b \in [S -> Intervals]
    BY <2>1
  <2> QED
    BY <2>1, <2>2 DEF Batches
<1> HIDE DEF b
<1>3. loop' = [loop EXCEPT ![p] = [[loop[p] EXCEPT !.pc = "batch"] EXCEPT !.batch = b]]
  BY <1>1, Typed DEF b
<1>4. [loop[p] EXCEPT !.pc = "batch"] \in Loop
  BY Typed, LoopUpdates
<1>5. [[loop[p] EXCEPT !.pc = "batch"] EXCEPT !.batch = b] \in Loop
  BY <1>2, <1>4, LoopUpdates
<1>6. loop'[p].pc = "batch" /\ loop'[p].batch = b /\ loop'[p].lag = loop[p].lag
  BY <1>3, <1>5, Typed DEF Loop
<1> QED
  BY <1>2, <1>3, <1>5, <1>6, Typed DEF Select

\* A claim writes the new date and enters the row; the batch stays.
LEMMA ClaimDoes ==
  ASSUME TypeOK, NEW p \in Schedulers, NEW s \in Rows, Claim(p, s)
  PROVE  /\ loop' \in [Schedulers -> Loop]
         /\ \A q \in Schedulers \ {p} : loop'[q] = loop[q]
         /\ loop'[p].pc = "claimed" /\ loop'[p].row = s /\ loop'[p].batch = loop[p].batch
         /\ loop'[p].lag = loop[p].lag
         /\ NextDate(p, s) \in 0 .. Horizon
         /\ schedule' = [schedule EXCEPT ![s].left = NextDate(p, s)]
         /\ schedule' \in [Rows -> ScheduleRow]
         /\ owed' = [owed EXCEPT ![s] = loop[p].batch[s] - loop[p].lag]
         /\ owed' \in [Rows -> -Horizon .. Horizon]
<1>1. loop' = [loop EXCEPT ![p] = [[loop[p] EXCEPT !.pc = "claimed"] EXCEPT !.row = s]]
  BY Typed DEF Claim
<1>2. s \in 0 .. NumRows /\ s \in DOMAIN loop[p].batch
  BY SchedulerAssumption DEF Rows, Claim, Visits
<1>3. [loop[p] EXCEPT !.pc = "claimed"] \in Loop
  BY Typed, LoopUpdates
<1>4. [[loop[p] EXCEPT !.pc = "claimed"] EXCEPT !.row = s] \in Loop
  BY <1>2, <1>3, LoopUpdates
<1>5. /\ loop'[p].pc = "claimed" /\ loop'[p].row = s /\ loop'[p].batch = loop[p].batch
      /\ loop'[p].lag = loop[p].lag
  BY <1>1, <1>3, <1>4, Typed DEF Loop
<1>6. NextDate(p, s) \in 0 .. Horizon /\ loop[p].batch[s] - loop[p].lag \in -Horizon .. Horizon
  BY <1>2, Typed, Times DEF NextDate
<1>7. schedule' = [schedule EXCEPT ![s].left = NextDate(p, s)] /\ owed' = [owed EXCEPT ![s] = loop[p].batch[s] - loop[p].lag]
  BY DEF Claim
<1>8. schedule' \in [Rows -> ScheduleRow] /\ owed' \in [Rows -> -Horizon .. Horizon]
  BY <1>6, <1>7, Typed, RowUpdates
<1> QED
  BY <1>1, <1>4, <1>5, <1>6, <1>7, <1>8, Typed

\* The task is created for the row that was claimed.
LEMMA CreateDoes ==
  ASSUME TypeOK, RowHeld, NEW p \in Schedulers, CreateTask(p)
  PROVE  /\ loop' \in [Schedulers -> Loop]
         /\ \A q \in Schedulers \ {p} : loop'[q] = loop[q]
         /\ loop[p].pc = "claimed" /\ loop[p].row \in Rows /\ loop[p].row \in DOMAIN loop[p].batch
         /\ loop'[p].pc = "created" /\ loop'[p].row = loop[p].row /\ loop'[p].batch = loop[p].batch
         /\ loop'[p].lag = loop[p].lag
         /\ late' = [late EXCEPT ![loop[p].row] = IF schedule[loop[p].row].enabled THEN 0 ELSE late[loop[p].row] + 1]
         /\ late' \in [Rows -> Nat]
<1>1. loop' = [loop EXCEPT ![p] = [loop[p] EXCEPT !.pc = "created"]]
  BY Typed DEF CreateTask
<1>2. [loop[p] EXCEPT !.pc = "created"] \in Loop
  BY Typed, LoopUpdates
<1>3. loop[p].pc = "claimed" /\ loop[p].row \in DOMAIN loop[p].batch
  BY DEF CreateTask, RowHeld
<1>4. loop[p].row \in Rows
  BY <1>3, Typed
<1>5. /\ loop'[p].pc = "created" /\ loop'[p].row = loop[p].row /\ loop'[p].batch = loop[p].batch
      /\ loop'[p].lag = loop[p].lag
  BY <1>1, <1>2, Typed DEF Loop
<1>6. late' = [late EXCEPT ![loop[p].row] = IF schedule[loop[p].row].enabled THEN 0 ELSE late[loop[p].row] + 1]
  BY <1>4, Typed DEF CreateTask
<1>7. late' \in [Rows -> Nat]
  BY <1>4, <1>6, Typed
<1> QED
  BY <1>1, <1>2, <1>3, <1>4, <1>5, <1>6, <1>7, Typed

\* The steps that are done with a schedule, or with the whole tick: no row joins
\* a batch, none is claimed or created, and only dates and enabled change.
Leaves(p) ==
  /\ loop' \in [Schedulers -> Loop]
  /\ \A q \in Schedulers \ {p} : loop'[q] = loop[q]
  /\ DOMAIN loop'[p].batch \subseteq DOMAIN loop[p].batch
  /\ loop[p].pc \in {"claimed", "created"} => loop[p].row \notin DOMAIN loop'[p].batch
  /\ loop'[p].pc \in {"idle", "batch"}
  /\ loop'[p].lag \in {0, loop[p].lag} /\ (loop'[p].pc = "idle" => loop'[p].lag = 0)
  /\ schedule' \in [Rows -> ScheduleRow]
  /\ \A s \in Rows :
       /\ schedule'[s].left = schedule[s].left \/ (loop[p].pc = "batch" /\ s \in DOMAIN loop[p].batch)
       /\ schedule'[s].enabled => schedule[s].enabled
  /\ UNCHANGED <<owed, late>>

LEMMA DisableLeaves ==
  ASSUME TypeOK, NEW p \in Schedulers, NEW s \in Rows, Disable(p, s) PROVE Leaves(p)
<1>1. schedule' = [schedule EXCEPT ![s].enabled = FALSE] /\ Proceed(p, s, <<>>) /\ loop[p].pc = "batch"
      /\ UNCHANGED <<owed, late>>
  BY DEF Disable, Visits
<1>2. <<>> \in Knowledge
  BY DEF Knowledge
<1>3. schedule' \in [Rows -> ScheduleRow]
  BY <1>1, Typed, RowUpdates
<1>4. \A u \in Rows : schedule'[u].left = schedule[u].left /\ (schedule'[u].enabled => schedule[u].enabled)
  BY <1>1, Typed DEF ScheduleRow
<1> QED
  BY <1>1, <1>2, <1>3, <1>4, ProceedDoes DEF Leaves

LEMMA PostponeLeaves ==
  ASSUME TypeOK, NEW p \in Schedulers, NEW s \in Rows, Postpone(p, s) PROVE Leaves(p)
<1>1. /\ schedule' = [schedule EXCEPT ![s].left = NextDate(p, s)] /\ loop[p].pc = "batch"
      /\ s \in DOMAIN loop[p].batch /\ UNCHANGED <<owed, late>>
      /\ Proceed(p, s, <<schedule[s].workflow, "inactive">>)
  BY DEF Postpone, Visits
<1>2. <<schedule[s].workflow, "inactive">> \in Knowledge
  BY Typed DEF Knowledge
<1>3. NextDate(p, s) \in 0 .. Horizon
  BY <1>1, Typed, Times DEF NextDate
<1>4. schedule' \in [Rows -> ScheduleRow]
  BY <1>1, <1>3, Typed, RowUpdates
<1>5. \A u \in Rows : (u # s => schedule'[u].left = schedule[u].left) /\ schedule'[u].enabled = schedule[u].enabled
  BY <1>1, Typed DEF ScheduleRow
<1> QED
  BY <1>1, <1>2, <1>4, <1>5, ProceedDoes DEF Leaves

LEMMA NoPlanLeaves ==
  ASSUME TypeOK, RowHeld, NEW p \in Schedulers, NoPlan(p) PROVE Leaves(p)
<1>1. loop[p].pc = "claimed" /\ Proceed(p, loop[p].row, <<schedule[loop[p].row].workflow, "active">>)
      /\ UNCHANGED <<schedule, owed, late>>
  BY DEF NoPlan
<1>2. loop[p].row \in Rows
  BY <1>1, Typed DEF RowHeld
<1>3. <<schedule[loop[p].row].workflow, "active">> \in Knowledge
  BY <1>2, Typed DEF Knowledge
<1>4. schedule' \in [Rows -> ScheduleRow]
  BY <1>1, Typed
<1> QED
  BY <1>1, <1>3, <1>4, ProceedDoes DEF Leaves

LEMMA StampLeaves ==
  ASSUME TypeOK, RowHeld, NEW p \in Schedulers, StampWorkflow(p) PROVE Leaves(p)
<1> DEFINE w == schedule[loop[p].row].workflow
<1>1. loop[p].pc = "created" /\ Live(w) /\ Proceed(p, loop[p].row, <<w, workflow[w]>>)
      /\ UNCHANGED <<schedule, owed, late>>
  BY DEF StampWorkflow
<1>2. loop[p].row \in Rows
  BY <1>1, Typed DEF RowHeld
<1>3. <<w, workflow[w]>> \in Knowledge
  BY <1>1, <1>2, Typed DEF Knowledge, Live
<1>4. schedule' \in [Rows -> ScheduleRow]
  BY <1>1, Typed
<1> QED
  BY <1>1, <1>3, <1>4, ProceedDoes DEF Leaves

LEMMA StopLeaves ==
  ASSUME TypeOK, NEW p \in Schedulers, Abort(p) \/ Die(p) PROVE Leaves(p)
<1>1. loop' = [loop EXCEPT ![p] = Sleeping] /\ UNCHANGED <<schedule, owed, late>>
  BY DEF Abort, Die
<1>2. schedule' \in [Rows -> ScheduleRow]
  BY <1>1, Typed
<1> QED
  BY <1>1, <1>2, Stops DEF Leaves

\* Time passes: dates and distances shrink, the loops only grow older.
LEMMA TickDoes ==
  ASSUME TypeOK, Tick
  PROVE  /\ loop' \in [Schedulers -> Loop]
         /\ \A p \in Schedulers :
              /\ loop'[p].pc = loop[p].pc /\ loop'[p].row = loop[p].row /\ loop'[p].batch = loop[p].batch
              /\ loop'[p].lag = IF loop[p].pc = "idle" THEN loop[p].lag ELSE Older(loop[p].lag)
         /\ schedule' \in [Rows -> ScheduleRow]
         /\ \A s \in Rows :
              schedule'[s].left = Sooner(schedule[s].left) /\ schedule'[s].enabled = schedule[s].enabled
         /\ owed' \in [Rows -> -Horizon .. Horizon] /\ \A s \in Rows : owed'[s] = Paid(owed[s])
         /\ UNCHANGED <<workflow, request, crashes, late>>
<1>1. \A p \in Schedulers :
        loop'[p] = IF loop[p].pc = "idle" THEN loop[p] ELSE [loop[p] EXCEPT !.lag = Older(loop[p].lag)]
  BY Typed DEF Tick
<1>2. \A p \in Schedulers : [loop[p] EXCEPT !.lag = Older(loop[p].lag)] \in Loop
  BY Typed, Times, LoopUpdates
<1>3. \A p \in Schedulers : loop'[p] \in Loop
  BY <1>1, <1>2, Typed
<1>4. loop' \in [Schedulers -> Loop]
  BY <1>3 DEF Tick
<1>5. \A p \in Schedulers :
        /\ loop'[p].pc = loop[p].pc /\ loop'[p].row = loop[p].row /\ loop'[p].batch = loop[p].batch
        /\ loop'[p].lag = IF loop[p].pc = "idle" THEN loop[p].lag ELSE Older(loop[p].lag)
  BY <1>1, Typed DEF Loop
<1>6. \A s \in Rows : schedule'[s] = [schedule[s] EXCEPT !.left = Sooner(schedule[s].left)]
  BY Typed DEF Tick
<1>7. \A s \in Rows : schedule'[s] \in ScheduleRow
  <2>1. \A s \in Rows : schedule[s] \in ScheduleRow /\ Sooner(schedule[s].left) \in 0 .. Horizon
    BY Typed, Times
  <2> SUFFICES ASSUME NEW s \in Rows PROVE [schedule[s] EXCEPT !.left = Sooner(schedule[s].left)] \in ScheduleRow
    BY <1>6
  <2> QED
    BY <2>1, RowUpdates
<1>8. schedule' \in [Rows -> ScheduleRow]
  BY <1>7 DEF Tick
<1>9. \A s \in Rows : schedule'[s].left = Sooner(schedule[s].left) /\ schedule'[s].enabled = schedule[s].enabled
  BY <1>6, Typed DEF ScheduleRow
<1>10. owed' \in [Rows -> -Horizon .. Horizon] /\ \A s \in Rows : owed'[s] = Paid(owed[s])
  BY Typed, Times DEF Tick
<1> QED
  BY <1>4, <1>5, <1>8, <1>9, <1>10 DEF Tick

\* Which steps there are, told by what they do.
LEMMA WorkCases ==
  ASSUME TypeOK, RowHeld, NEW p \in Schedulers, Work(p) \/ Die(p)
  PROVE  \/ Select(p)
         \/ \E s \in Rows : Claim(p, s)
         \/ CreateTask(p)
         \/ Leaves(p)
BY DisableLeaves, PostponeLeaves, NoPlanLeaves, StampLeaves, StopLeaves DEF Work

LEMMA StepTypeOK == ASSUME TypeOK, RowHeld, [Next]_vars PROVE TypeOK' /\ RowHeld'
<1>1. CASE User
  BY <1>1, UserTypeOK
<1>2. CASE Tick
  <2>1. TypeOK'
    BY <1>2, TickDoes DEF TypeOK
  <2>2. RowHeld'
    BY <1>2, TickDoes DEF RowHeld
  <2> QED
    BY <2>1, <2>2
<1>3. ASSUME NEW p \in Schedulers, Work(p) \/ Die(p) PROVE TypeOK' /\ RowHeld'
  <2>0. crashes' \in 0 .. MaxCrashes /\ workflow' = workflow /\ request' = request
    <3>1. CASE Work(p)
      BY <3>1 DEF Work, Select, Disable, Postpone, Claim, CreateTask, NoPlan, StampWorkflow, Abort, TypeOK
    <3>2. CASE Die(p)
      BY <3>2, SchedulerAssumption DEF Die, TypeOK
    <3> QED
      BY <1>3, <3>1, <3>2
  <2>1. CASE Select(p)
    BY <2>0, <2>1, SelectDoes DEF TypeOK, RowHeld
  <2>2. ASSUME NEW s \in Rows, Claim(p, s) PROVE TypeOK' /\ RowHeld'
    <3>1. late' = late /\ s \in DOMAIN loop[p].batch
      BY <2>2 DEF Claim, Visits
    <3> QED
      BY <2>0, <2>2, <3>1, ClaimDoes DEF TypeOK, RowHeld
  <2>3. CASE CreateTask(p)
    <3>1. UNCHANGED <<schedule, owed>>
      BY <2>3 DEF CreateTask
    <3> QED
      BY <2>0, <2>3, <3>1, CreateDoes DEF TypeOK, RowHeld
  <2>4. CASE Leaves(p)
    BY <2>0, <2>4 DEF Leaves, TypeOK, RowHeld
  <2> QED
    BY <1>3, <2>1, <2>2, <2>3, <2>4, WorkCases
<1>4. CASE UNCHANGED vars
  BY <1>4 DEF vars, TypeOK, RowHeld
<1> QED
  BY <1>1, <1>2, <1>3, <1>4 DEF Next

\* Every reachable state of the schedules and the schedulers is well typed, and
\* a tick is always at a schedule of its own batch.
THEOREM TypeCorrect == Spec => [](TypeOK /\ RowHeld)
<1>1. Init => TypeOK /\ RowHeld
  BY InitTypeOK
<1>2. TypeOK /\ RowHeld /\ [Next]_vars => (TypeOK /\ RowHeld)'
  BY StepTypeOK
<1> QED
  BY <1>1, <1>2, PTL DEF Spec

-----------------------------------------------------------------------------
(* Late runs *)

\* The tick may still create a task for the row.
Ahead(p, s) == s \in DOMAIN loop[p].batch /\ ~(loop[p].pc = "created" /\ loop[p].row = s)

Coming(s) == {p \in Schedulers : Ahead(p, s)}

\* The late runs of a row and those still to come are together no more than the
\* schedulers; an enabled row has no late runs.
LateInv ==
  \A s \in Rows :
    /\ schedule[s].enabled => late[s] = 0
    /\ late[s] + Cardinality(Coming(s)) <= Cardinality(Schedulers)

LEMMA ComingFinite ==
  /\ Cardinality(Schedulers) \in Nat
  /\ \A s : IsFiniteSet(Coming(s)) /\ Cardinality(Coming(s)) \in Nat
                                  /\ Cardinality(Coming(s)) <= Cardinality(Schedulers)
<1>1. IsFiniteSet(Schedulers)
  BY SchedulerAssumption
<1>2. \A s : Coming(s) \in SUBSET Schedulers
  BY DEF Coming
<1> QED
  BY <1>1, <1>2, FS_Subset, FS_CardinalityType

LEMMA ComingFinitePrime ==
  \A s : IsFiniteSet(Coming(s)') /\ Cardinality(Coming(s)') \in Nat
                                /\ Cardinality(Coming(s)') <= Cardinality(Schedulers)
<1>1. IsFiniteSet(Schedulers)
  BY SchedulerAssumption
<1>2. \A s : Coming(s)' \in SUBSET Schedulers
  BY DEF Coming
<1> QED
  BY <1>1, <1>2, FS_Subset, FS_CardinalityType

\* The bound is kept when no run joins those to come, when the count starts
\* again, and when a run to come becomes a late one.
LEMMA BoundKept ==
  ASSUME TypeOK, LateInv, NEW s \in Rows, late'[s] \in Nat,
         \/ Coming(s)' \subseteq Coming(s) /\ late'[s] = late[s]
         \/ late'[s] = 0
         \/ late'[s] = late[s] + 1 /\ \E p \in Coming(s) : Coming(s)' \subseteq Coming(s) \ {p}
  PROVE  late'[s] + Cardinality(Coming(s)') <= Cardinality(Schedulers)
<1>0. /\ late[s] \in Nat /\ late[s] + Cardinality(Coming(s)) <= Cardinality(Schedulers)
      /\ Cardinality(Coming(s)) \in Nat /\ Cardinality(Coming(s)') \in Nat /\ Cardinality(Schedulers) \in Nat
      /\ Cardinality(Coming(s)') <= Cardinality(Schedulers)
      /\ IsFiniteSet(Coming(s))
  BY Typed, ComingFinite, ComingFinitePrime DEF LateInv
<1>1. CASE Coming(s)' \subseteq Coming(s) /\ late'[s] = late[s]
  <2>1. Cardinality(Coming(s)') <= Cardinality(Coming(s))
    BY <1>0, <1>1, FS_Subset
  <2> QED
    BY <1>0, <1>1, <2>1
<1>2. CASE late'[s] = 0
  BY <1>0, <1>2
<1>3. ASSUME NEW p \in Coming(s), Coming(s)' \subseteq Coming(s) \ {p}, late'[s] = late[s] + 1
      PROVE  late'[s] + Cardinality(Coming(s)') <= Cardinality(Schedulers)
  <2>1. IsFiniteSet(Coming(s) \ {p}) /\ Cardinality(Coming(s) \ {p}) = Cardinality(Coming(s)) - 1
    BY <1>0, FS_RemoveElement
  <2>2. Cardinality(Coming(s)') <= Cardinality(Coming(s) \ {p})
    BY <1>3, <2>1, FS_Subset
  <2> QED
    BY <1>0, <1>3, <2>1, <2>2
<1> QED
  BY <1>1, <1>2, <1>3

\* Users disable a schedule without counting anything, and start the count
\* again when they enable it.
LEMMA UserLate ==
  ASSUME TypeOK, LateInv, User, NEW s \in Rows
  PROVE  /\ late'[s] = late[s] \/ late'[s] = 0
         /\ schedule'[s].enabled => late'[s] = 0
<1>0. /\ schedule[s].enabled => late[s] = 0
      /\ schedule \in [Rows -> ScheduleRow] /\ late \in [Rows -> Nat]
  BY Typed DEF LateInv
<1>1. CASE UNCHANGED <<schedule, late>>
  BY <1>0, <1>1
<1>2. ASSUME NEW r \in Requests, PostCommit(r)
      PROVE  /\ late'[s] = late[s] \/ late'[s] = 0
             /\ schedule'[s].enabled => late'[s] = 0
  <2>1. PICK u \in Rows, enabled \in BOOLEAN, interval \in Intervals : \E left \in {0} \cup Intervals :
          PostWrites(r, u, enabled, interval, left)
    BY <1>2 DEF PostCommit, PostWrites
  <2>2. PICK left \in {0} \cup Intervals : PostWrites(r, u, enabled, interval, left)
    BY <2>1
  <2>3. CASE u = s
    <3>1. schedule'[s].enabled = enabled /\ late'[s] = IF enabled THEN 0 ELSE late[s]
      BY <1>0, <2>2, <2>3 DEF PostWrites
    <3> QED
      BY <3>1
  <2>4. CASE u # s
    BY <1>0, <2>2, <2>4 DEF PostWrites
  <2> QED
    BY <2>3, <2>4
<1>3. ASSUME NEW u \in Rows, DeleteSchedule(u)
      PROVE  /\ late'[s] = late[s] \/ late'[s] = 0
             /\ schedule'[s].enabled => late'[s] = 0
  <2>1. late' = late /\ (schedule'[s].enabled => schedule[s].enabled)
    BY <1>0, <1>3 DEF DeleteSchedule, ScheduleRow
  <2> QED
    BY <1>0, <2>1
<1>4. CASE UNCHANGED <<schedule, late>> \/ (\E r \in Requests : PostCommit(r)) \/ (\E u \in Rows : DeleteSchedule(u))
  BY <1>1, <1>2, <1>3, <1>4
<1>5. User => UNCHANGED <<schedule, late>> \/ (\E r \in Requests : PostCommit(r)) \/ (\E u \in Rows : DeleteSchedule(u))
  BY DEF User, CreateWorkflow, UpdateWorkflow, DeleteWorkflow, PostRead, PostFail
<1> QED
  BY <1>4, <1>5

LEMMA StepLateInv == ASSUME TypeOK, RowHeld, LateInv, [Next]_vars PROVE LateInv'
<1>0. TypeOK'
  BY StepTypeOK
<1> SUFFICES ASSUME NEW s \in Rows
             PROVE  /\ schedule'[s].enabled => late'[s] = 0
                    /\ late'[s] + Cardinality(Coming(s)') <= Cardinality(Schedulers)
  BY DEF LateInv, Coming
<1>1. late'[s] \in Nat /\ late[s] \in Nat /\ (schedule[s].enabled => late[s] = 0)
  BY <1>0, Typed DEF TypeOK, LateInv
<1>2. CASE User
  <2>1. Coming(s)' = Coming(s)
    BY <1>2, UserTypeOK DEF Coming, Ahead
  <2> QED
    BY <1>1, <1>2, <2>1, UserLate, BoundKept
<1>3. CASE Tick
  <2>1. Coming(s)' = Coming(s) /\ late' = late /\ schedule'[s].enabled = schedule[s].enabled
    BY <1>3, TickDoes DEF Coming, Ahead
  <2> QED
    BY <1>1, <2>1, BoundKept
<1>4. ASSUME NEW p \in Schedulers, Select(p)
      PROVE  /\ schedule'[s].enabled => late'[s] = 0
             /\ late'[s] + Cardinality(Coming(s)') <= Cardinality(Schedulers)
  <2>1. late' = late /\ schedule' = schedule
    BY <1>4, SelectDoes
  <2>2. CASE schedule[s].enabled
    BY <1>1, <2>1, <2>2, BoundKept
  <2>3. CASE ~schedule[s].enabled
    <3>1. s \notin DOMAIN loop'[p].batch
      BY <1>4, <2>3, SelectDoes DEF Due
    <3>2. Coming(s)' \subseteq Coming(s)
      BY <1>4, <3>1, SelectDoes DEF Coming, Ahead
    <3> QED
      BY <1>1, <2>1, <2>3, <3>2, BoundKept
  <2> QED
    BY <2>2, <2>3
<1>5. ASSUME NEW p \in Schedulers, NEW u \in Rows, Claim(p, u)
      PROVE  /\ schedule'[s].enabled => late'[s] = 0
             /\ late'[s] + Cardinality(Coming(s)') <= Cardinality(Schedulers)
  <2>1. late' = late /\ loop[p].pc = "batch"
    BY <1>5 DEF Claim, Visits
  <2>2. schedule'[s].enabled = schedule[s].enabled
    BY <1>5, ClaimDoes, Typed DEF ScheduleRow
  <2>3. Coming(s)' \subseteq Coming(s)
    BY <1>5, <2>1, ClaimDoes DEF Coming, Ahead
  <2> QED
    BY <1>1, <2>1, <2>2, <2>3, BoundKept
<1>6. ASSUME NEW p \in Schedulers, CreateTask(p)
      PROVE  /\ schedule'[s].enabled => late'[s] = 0
             /\ late'[s] + Cardinality(Coming(s)') <= Cardinality(Schedulers)
  <2>0. schedule' = schedule
    BY <1>6 DEF CreateTask
  <2>1. CASE s # loop[p].row
    <3>1. late'[s] = late[s]
      BY <1>6, <2>1, CreateDoes, Typed
    <3>2. Coming(s)' \subseteq Coming(s)
      BY <1>6, <2>1, CreateDoes DEF Coming, Ahead
    <3> QED
      BY <1>1, <2>0, <3>1, <3>2, BoundKept
  <2>2. CASE s = loop[p].row
    <3>1. late'[s] = IF schedule[s].enabled THEN 0 ELSE late[s] + 1
      BY <1>6, <2>2, CreateDoes, Typed
    <3>2. p \in Coming(s)
      BY <1>6, <2>2, CreateDoes DEF Coming, Ahead
    <3>3. Coming(s)' \subseteq Coming(s) \ {p}
      BY <1>6, <2>2, CreateDoes DEF Coming, Ahead
    <3> QED
      BY <1>1, <2>0, <3>1, <3>2, <3>3, BoundKept
  <2> QED
    BY <2>1, <2>2
<1>7. ASSUME NEW p \in Schedulers, Leaves(p)
      PROVE  /\ schedule'[s].enabled => late'[s] = 0
             /\ late'[s] + Cardinality(Coming(s)') <= Cardinality(Schedulers)
  <2>1. Coming(s)' \subseteq Coming(s)
    <3>1. ASSUME Ahead(p, s)' PROVE Ahead(p, s)
      BY <1>7, <3>1 DEF Leaves, Ahead
    <3> QED
      BY <1>7, <3>1 DEF Leaves, Coming, Ahead
  <2> QED
    BY <1>1, <1>7, <2>1, BoundKept DEF Leaves
<1>8. CASE UNCHANGED vars
  <2>1. Coming(s)' = Coming(s) /\ UNCHANGED <<schedule, late>>
    BY <1>8 DEF vars, Coming, Ahead
  <2> QED
    BY <1>1, <2>1, BoundKept
<1> QED
  BY <1>2, <1>3, <1>4, <1>5, <1>6, <1>7, <1>8, WorkCases DEF Next

\* However many schedulers there are, a disabled or deleted schedule gets at
\* most one more run from each: what has been run late and what may still be
\* add up to no more than the schedulers, also when a tick dies or the row is
\* written while it is in its batch.
THEOREM LateRunsAreBounded == Spec => []LateRunsBounded
<1>1. ASSUME Init PROVE LateInv
  <2>1. \A s \in Rows : schedule[s].enabled = FALSE /\ late[s] = 0
    BY <1>1 DEF Init
  <2> QED
    BY <2>1, ComingFinite DEF LateInv
<1>2. TypeOK /\ RowHeld /\ LateInv /\ [Next]_vars => LateInv'
  BY StepLateInv
<1>3. TypeOK /\ LateInv => LateRunsBounded
  <2> SUFFICES ASSUME TypeOK, LateInv, NEW s \in Rows PROVE late[s] <= Cardinality(Schedulers)
    BY DEF LateRunsBounded
  <2>1. late[s] \in Nat /\ Cardinality(Coming(s)) \in Nat /\ Cardinality(Schedulers) \in Nat
        /\ late[s] + Cardinality(Coming(s)) <= Cardinality(Schedulers)
    BY Typed, ComingFinite DEF LateInv
  <2> QED
    BY <2>1
<1> QED
  BY <1>1, <1>2, <1>3, TypeCorrect, PTL DEF Spec

-----------------------------------------------------------------------------
(* The distance between runs, with one scheduler *)

\* The tick has not come to the row yet.
Pending(p, s) ==
  s \in DOMAIN loop[p].batch /\ ~(loop[p].pc \in {"claimed", "created"} /\ loop[p].row = s)

\* No more is owed than is left to the row's date, and nothing was owed when the
\* tick that has the row in its batch took the time.
SpacedInv ==
  /\ \A s \in Rows :
       /\ owed[s] <= schedule[s].left
       /\ \A p \in Schedulers : Pending(p, s) => owed[s] + loop[p].lag <= 0
  /\ \A p \in Schedulers : loop[p].pc = "idle" => loop[p].lag = 0

\* What a step of a user does to the distance of a row: nothing, or it ends it.
LEMMA UserSpaced ==
  ASSUME TypeOK, User, NEW s \in Rows
  PROVE  \/ owed'[s] = owed[s] /\ schedule'[s].left = schedule[s].left
         \/ owed'[s] = NothingOwed
<1>0. schedule \in [Rows -> ScheduleRow] /\ owed \in [Rows -> -Horizon .. Horizon]
  BY Typed
<1>1. ASSUME NEW r \in Requests, PostCommit(r)
      PROVE  \/ owed'[s] = owed[s] /\ schedule'[s].left = schedule[s].left
             \/ owed'[s] = NothingOwed
  <2>1. PICK u \in Rows, enabled \in BOOLEAN, interval \in Intervals : \E left \in {0} \cup Intervals :
          PostWrites(r, u, enabled, interval, left)
    BY <1>1 DEF PostCommit, PostWrites
  <2>2. PICK left \in {0} \cup Intervals : PostWrites(r, u, enabled, interval, left)
    BY <2>1
  <2> QED
    BY <1>0, <2>2 DEF PostWrites
<1>2. ASSUME NEW u \in Rows, DeleteSchedule(u)
      PROVE  \/ owed'[s] = owed[s] /\ schedule'[s].left = schedule[s].left
             \/ owed'[s] = NothingOwed
  BY <1>0, <1>2 DEF DeleteSchedule
<1>3. User => UNCHANGED <<schedule, owed>> \/ (\E r \in Requests : PostCommit(r)) \/ (\E u \in Rows : DeleteSchedule(u))
  BY DEF User, CreateWorkflow, UpdateWorkflow, DeleteWorkflow, PostRead, PostFail
<1> QED
  BY <1>1, <1>2, <1>3

\* A tick that is idle has taken no time yet.
LEMMA StepRested ==
  ASSUME TypeOK, RowHeld, SpacedInv, [Next]_vars, NEW p \in Schedulers, loop'[p].pc = "idle"
  PROVE  loop'[p].lag = 0
<1>0. loop[p].pc = "idle" => loop[p].lag = 0
  BY DEF SpacedInv
<1>1. CASE User \/ UNCHANGED vars
  BY <1>0, <1>1, UserTypeOK DEF vars
<1>2. CASE Tick
  BY <1>0, <1>2, TickDoes
<1>3. ASSUME NEW q \in Schedulers, Work(q) \/ Die(q) PROVE loop'[p].lag = 0
  <2>1. CASE q # p
    BY <1>0, <1>3, <2>1, WorkCases, SelectDoes, ClaimDoes, CreateDoes DEF Leaves
  <2>2. CASE q = p
    BY <1>3, <2>2, WorkCases, SelectDoes, ClaimDoes, CreateDoes DEF Leaves
  <2> QED
    BY <2>1, <2>2
<1> QED
  BY <1>1, <1>2, <1>3 DEF Next

LEMMA StepSpacedInv ==
  ASSUME \A p, q \in Schedulers : p = q, TypeOK, RowHeld, SpacedInv, [Next]_vars
  PROVE  SpacedInv'
<1>0. TypeOK'
  BY StepTypeOK
<1> SUFFICES ASSUME NEW s \in Rows
             PROVE  /\ owed'[s] <= schedule'[s].left
                    /\ \A p \in Schedulers : Pending(p, s)' => owed'[s] + loop'[p].lag <= 0
  BY StepRested DEF SpacedInv
<1>1. /\ owed[s] \in -Horizon .. Horizon /\ schedule[s].left \in 0 .. Horizon
      /\ owed'[s] \in -Horizon .. Horizon /\ schedule'[s].left \in 0 .. Horizon
      /\ owed[s] <= schedule[s].left
      /\ \A p \in Schedulers : Pending(p, s) => owed[s] + loop[p].lag <= 0
  BY <1>0, Typed DEF TypeOK, ScheduleRow, SpacedInv
<1>a. \A p \in Schedulers : loop[p].lag \in 0 .. Horizon
  BY Typed
<1>2. CASE User
  <2>1. \A p \in Schedulers : (Pending(p, s)' <=> Pending(p, s)) /\ loop'[p].lag = loop[p].lag
    BY <1>2, UserTypeOK DEF Pending
  <2>2. NothingOwed <= 0 /\ \A p \in Schedulers : NothingOwed + loop[p].lag <= 0
    BY <1>a, Times DEF NothingOwed
  <2> QED
    BY <1>1, <1>2, <2>1, <2>2, UserSpaced
<1>3. CASE Tick
  <2>1. \A p \in Schedulers : Pending(p, s)' <=> Pending(p, s)
    BY <1>3, TickDoes DEF Pending
  <2>2. owed'[s] = Paid(owed[s]) /\ schedule'[s].left = Sooner(schedule[s].left)
    BY <1>3, TickDoes
  <2>3. owed'[s] <= schedule'[s].left
    BY <1>1, <2>2, Times
  <2>4. ASSUME NEW p \in Schedulers, Pending(p, s) PROVE owed'[s] + loop'[p].lag <= 0
    <3>1. loop'[p].lag = loop[p].lag \/ loop'[p].lag = Older(loop[p].lag)
      BY <1>3, TickDoes
    <3>2. Paid(owed[s]) + loop[p].lag <= 0 /\ Paid(owed[s]) + Older(loop[p].lag) <= 0
      <4>1. owed[s] + loop[p].lag <= 0
        BY <1>1, <2>4
      <4>2. Paid(owed[s]) <= owed[s] /\ Paid(owed[s]) \in Int
        BY <1>1, Times DEF Paid
      <4> QED
        BY <1>1, <1>a, <4>1, <4>2, Times
    <3> QED
      BY <2>2, <3>1, <3>2
  <2> QED
    BY <2>1, <2>3, <2>4
<1>4. ASSUME NEW p \in Schedulers, Select(p)
      PROVE  /\ owed'[s] <= schedule'[s].left
             /\ \A q \in Schedulers : Pending(q, s)' => owed'[s] + loop'[q].lag <= 0
  <2>1. UNCHANGED <<owed, schedule>> /\ loop'[p].lag = 0
    BY <1>4, SelectDoes DEF SpacedInv
  <2>2. ASSUME NEW q \in Schedulers, Pending(q, s)' PROVE owed'[s] + loop'[q].lag <= 0
    <3>1. q = p
      OBVIOUS
    <3>2. Due(s)
      BY <1>4, <2>2, <3>1, SelectDoes DEF Pending
    <3> QED
      BY <1>1, <2>1, <3>1, <3>2 DEF Due
  <2> QED
    BY <1>1, <2>1, <2>2
<1>5. ASSUME NEW p \in Schedulers, NEW u \in Rows, Claim(p, u)
      PROVE  /\ owed'[s] <= schedule'[s].left
             /\ \A q \in Schedulers : Pending(q, s)' => owed'[s] + loop'[q].lag <= 0
  <2>1. CASE u = s
    <3>1. /\ owed'[s] = loop[p].batch[s] - loop[p].lag
          /\ schedule'[s].left = Later(loop[p].batch[s], loop[p].lag)
      BY <1>5, <2>1, ClaimDoes, Typed DEF ScheduleRow, NextDate
    <3>2. s \in DOMAIN loop[p].batch
      BY <1>5, <2>1 DEF Claim, Visits
    <3>3. owed'[s] <= schedule'[s].left
      BY <1>a, <3>1, <3>2, Typed, Times
    <3>4. \A q \in Schedulers : ~Pending(q, s)'
      BY <1>5, <2>1, ClaimDoes DEF Pending
    <3> QED
      BY <3>3, <3>4
  <2>2. CASE u # s
    <3>1. owed'[s] = owed[s] /\ schedule'[s] = schedule[s]
      BY <1>5, <2>2, ClaimDoes, Typed
    <3>2. \A q \in Schedulers : (Pending(q, s)' => Pending(q, s)) /\ loop'[q].lag = loop[q].lag
      <4>1. loop[p].pc = "batch"
        BY <1>5 DEF Claim, Visits
      <4> QED
        BY <1>5, <4>1, ClaimDoes DEF Pending
    <3> QED
      BY <1>1, <3>1, <3>2
  <2> QED
    BY <2>1, <2>2
<1>6. ASSUME NEW p \in Schedulers, CreateTask(p)
      PROVE  /\ owed'[s] <= schedule'[s].left
             /\ \A q \in Schedulers : Pending(q, s)' => owed'[s] + loop'[q].lag <= 0
  <2>1. UNCHANGED <<owed, schedule>>
    BY <1>6 DEF CreateTask
  <2>2. \A q \in Schedulers : (Pending(q, s)' => Pending(q, s)) /\ loop'[q].lag = loop[q].lag
    BY <1>6, CreateDoes DEF Pending
  <2> QED
    BY <1>1, <2>1, <2>2
<1>7. ASSUME NEW p \in Schedulers, Leaves(p)
      PROVE  /\ owed'[s] <= schedule'[s].left
             /\ \A q \in Schedulers : Pending(q, s)' => owed'[s] + loop'[q].lag <= 0
  <2>1. owed' = owed
    BY <1>7 DEF Leaves
  <2>2. owed'[s] <= schedule'[s].left
    <3>1. CASE schedule'[s].left = schedule[s].left
      BY <1>1, <2>1, <3>1
    <3>2. CASE loop[p].pc = "batch" /\ s \in DOMAIN loop[p].batch
      BY <1>1, <1>a, <2>1, <3>2 DEF Pending
    <3> QED
      BY <1>7, <3>1, <3>2 DEF Leaves
  <2>3. \A q \in Schedulers : Pending(q, s)' => Pending(q, s)
    <3>1. ASSUME Pending(p, s)' PROVE Pending(p, s)
      BY <1>7, <3>1 DEF Leaves, Pending
    <3> QED
      BY <3>1
  <2>4. \A q \in Schedulers : loop'[q].lag \in {0, loop[q].lag}
    BY <1>7 DEF Leaves
  <2> QED
    BY <1>1, <1>a, <2>1, <2>2, <2>3, <2>4
<1>8. CASE UNCHANGED vars
  BY <1>1, <1>8 DEF vars, Pending
<1> QED
  BY <1>2, <1>3, <1>4, <1>5, <1>6, <1>7, <1>8, WorkCases DEF Next

\* With one scheduler, two ticks that run the same schedule took the time at
\* least its interval apart, or a user has set a date between them: what is owed
\* never exceeds the time left to the row's date, and a row that waits in a batch
\* owed nothing when its tick took the time.
THEOREM RunsAreSpaced == ASSUME \A p, q \in Schedulers : p = q PROVE Spec => RunsSpaced
<1>1. ASSUME Init PROVE SpacedInv
  <2>1. \A s \in Rows : owed[s] = NothingOwed /\ schedule[s].left = 0
    BY <1>1 DEF Init
  <2>2. \A p \in Schedulers : loop[p] = Sleeping
    BY <1>1 DEF Init
  <2>3. NothingOwed <= 0
    BY Times DEF NothingOwed
  <2> QED
    BY <2>1, <2>2, <2>3, SleepingType DEF SpacedInv, Pending
<1>2. TypeOK /\ RowHeld /\ SpacedInv /\ [Next]_vars => SpacedInv'
  BY StepSpacedInv
<1>3. TypeOK /\ SpacedInv /\ [Next]_vars =>
        [\A p \in Schedulers, s \in Rows :
           Visits(p, s) /\ loop'[p].pc = "claimed" /\ loop'[p].row = s => owed[s] + loop[p].lag <= 0]_vars
  <2> SUFFICES ASSUME SpacedInv, NEW p \in Schedulers, NEW s \in Rows, Visits(p, s)
               PROVE  owed[s] + loop[p].lag <= 0
    OBVIOUS
  <2>1. Pending(p, s)
    BY DEF Visits, Pending
  <2> QED
    BY <2>1 DEF SpacedInv
<1> QED
  BY <1>1, <1>2, <1>3, TypeCorrect, PTL DEF Spec, RunsSpaced
=============================================================================
