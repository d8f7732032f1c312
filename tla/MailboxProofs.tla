--------------------------- MODULE MailboxProofs ---------------------------
(***************************************************************************)
(* Theorems about Mailbox on PostgreSQL (RowLocks), for any number of      *)
(* messages, tasks, consumers and attempts and any lease.  The invariant   *)
(* ties a poll that has selected a message to the row it locked, and a     *)
(* consumer that holds one to the lease the row still shows.               *)
(***************************************************************************)
EXTENDS Mailbox, TLAPS

\* Deliveries are counted on the row.
Counted == \A m \in Messages : deliveries[m] = msgs[m].attempts /\ msgs[m].attempts <= MaxAttempts[m]

\* A selected message stays as it was read, and is selected by nobody else.
SelectionsFresh ==
  \A c \in Consumers : consumer[c].pc = "selected" =>
    /\ consumer[c].msg \in Messages
    /\ Ready(consumer[c].msg)
    /\ consumer[c].attempts = msgs[consumer[c].msg].attempts /\ ~consumer[c].late
    /\ \A d \in Consumers : consumer[d].pc = "selected" /\ consumer[d].msg = consumer[c].msg => d = c

\* A lease that runs is the one on the row, unless the message is finished.
LeasesShown ==
  \A c \in Consumers : consumer[c].pc \in Holders =>
    /\ consumer[c].msg \in Messages
    /\ msgs[consumer[c].msg].status \in {"LEASED", "ACKED"}
    /\ msgs[consumer[c].msg].status = "LEASED" /\ consumer[c].left # Expired
         => msgs[consumer[c].msg].left = consumer[c].left

\* A poll that has committed its lease finds it on the row, unless a later one
\* is there, with a higher count.
CommitsCounted ==
  \A c \in Consumers : consumer[c].pc = "committed" =>
    /\ consumer[c].attempts <= msgs[consumer[c].msg].attempts /\ ~consumer[c].late
    /\ msgs[consumer[c].msg].status = "LEASED" /\ consumer[c].attempts = msgs[consumer[c].msg].attempts
         => msgs[consumer[c].msg].left = consumer[c].left

\* What a response has read of the task row, the row still has.
SeenStands ==
  \A c \in Consumers : consumer[c].pc = "responding" =>
    LET row == tasks[TaskOf[consumer[c].msg]] IN
      /\ consumer[c].seen.completed => row.completed
      /\ consumer[c].seen.response # 0 => row.response # 0

MailInv ==
  /\ TypeOK /\ Counted /\ SelectionsFresh /\ LeasesShown /\ CommitsCounted
  /\ OneLeaseAtATime /\ SeenStands /\ ResponseLeavesTrace

-----------------------------------------------------------------------------

LEMMA InitMailInv == Init => MailInv
<1> SUFFICES ASSUME Init PROVE MailInv
  OBVIOUS
<1>1. Expired \in Expired .. Lease
  BY MailboxAssumption DEF Expired
<1>2. NoTask \in TaskRow /\ 0 \in 0 .. NumMessages
  BY MailboxAssumption DEF NoTask, TaskRow
<1>3. TypeOK
  BY <1>1, <1>2 DEF Init, TypeOK, Message, Idle, ConsumerPC, ConsumerState
<1> QED BY <1>3, MailboxAssumption DEF Init, MailInv, Counted, SelectionsFresh, LeasesShown, CommitsCounted, OneLeaseAtATime, SeenStands,
                                       ResponseLeavesTrace, Holding, Holders, Idle

\* The types of what an action of a consumer touches.
LEMMA ConsumerTypes ==
  ASSUME TypeOK, NEW c \in Consumers
  PROVE  /\ consumer[c].pc \in ConsumerPC /\ consumer[c].msg \in 0 .. NumMessages
         /\ consumer[c].attempts \in Nat /\ consumer[c].left \in Expired .. Lease
         /\ consumer[c].seen \in TaskRow /\ consumer[c].late \in BOOLEAN
BY DEF TypeOK, ConsumerState

LEMMA ElapseTyped == \A l \in Expired .. Lease : Elapse(l) \in Expired .. Lease
BY MailboxAssumption DEF Expired, Elapse

\* A request that ended leaves the consumer idle or holding what it held.
LEMMA AnsweredTyped ==
  ASSUME TypeOK, NEW c \in Consumers, Answered(c)
  PROVE  consumer' \in [Consumers -> ConsumerState]
<1>1. NoTask \in TaskRow /\ Expired \in Expired .. Lease
  BY MailboxAssumption DEF NoTask, TaskRow, Expired
<1>2. Idle \in ConsumerState
  BY <1>1, MailboxAssumption DEF Idle, ConsumerPC, ConsumerState
<1>3. [consumer[c] EXCEPT !.pc = "holding", !.seen = NoTask] \in ConsumerState
  BY <1>1 DEF TypeOK, ConsumerPC, ConsumerState
<1>4. \/ consumer' = [consumer EXCEPT ![c] = Idle]
      \/ consumer' = [consumer EXCEPT ![c] = [consumer[c] EXCEPT !.pc = "holding", !.seen = NoTask]]
  BY DEF Answered
<1> QED BY <1>2, <1>3, <1>4 DEF TypeOK

LEMMA StepTyped ==
  ASSUME MailInv, [Next]_vars PROVE TypeOK'
<1> USE DEF MailInv
<1>0. NoTask \in TaskRow /\ Expired \in Expired .. Lease /\ NumMessages \in Nat
  BY MailboxAssumption DEF NoTask, TaskRow, Expired
<1>1. ASSUME NEW m \in Messages, Arrive(m) PROVE TypeOK'
  <2>1. TaskOf[m] \in Tasks /\ tasks[TaskOf[m]] \in TaskRow
    BY MailboxAssumption DEF TypeOK
  <2>2. [tasks[TaskOf[m]] EXCEPT !.completed = @ \/ m \notin Events] \in TaskRow
    BY <2>1 DEF TaskRow
  <2> QED BY <1>1, <2>1, <2>2 DEF Arrive, TypeOK, Message
<1>2. ASSUME NEW c \in Consumers, LeaseSelect(c) PROVE TypeOK'
  <2>1. PICK m \in Messages, l \in 0 .. Lease :
          consumer' = [consumer EXCEPT ![c] = Selected(m, l)]
    BY <1>2 DEF LeaseSelect
  <2>2. msgs[m].attempts \in Nat /\ m \in 0 .. NumMessages /\ l \in Expired .. Lease
    BY MailboxAssumption DEF TypeOK, Message, Messages, Expired
  <2> QED BY <1>0, <1>2, <2>1, <2>2 DEF LeaseSelect, TypeOK, Selected, Idle, ConsumerPC, ConsumerState
<1>3. ASSUME NEW c \in Consumers, LeaseCommit(c) PROVE TypeOK'
  <2>1. consumer[c].msg \in Messages
    BY <1>3 DEF LeaseCommit, SelectionsFresh
  <2>2. consumer[c].attempts + 1 \in Nat /\ consumer[c].left \in Expired .. Lease
    BY ConsumerTypes
  <2>3. msgs' \in [Messages -> Message]
    BY <1>3, <2>1, <2>2 DEF LeaseCommit, TypeOK, Message
  <2>4. deliveries' \in [Messages -> Nat]
    BY <1>3, <2>1 DEF LeaseCommit, TypeOK
  <2>5. consumer' \in [Consumers -> ConsumerState]
    BY <1>3, <2>2 DEF LeaseCommit, TypeOK, ConsumerPC, ConsumerState
  <2> QED BY <1>3, <2>3, <2>4, <2>5 DEF LeaseCommit, TypeOK
<1>4. ASSUME NEW c \in Consumers, AckRead(c) PROVE TypeOK'
  BY <1>4 DEF AckRead, TypeOK, ConsumerPC, ConsumerState
<1>5. ASSUME NEW c \in Consumers, AckCommit(c) PROVE TypeOK'
  <2>1. msgs' \in [Messages -> Message]
    BY <1>0, <1>5 DEF AckCommit, Acked, TypeOK, Message
  <2> QED BY <1>5, <2>1, AnsweredTyped DEF AckCommit, TypeOK
<1>6. ASSUME NEW c \in Consumers, RespondRead(c) PROVE TypeOK'
  <2>1. tasks[TaskOf[consumer[c].msg]] \in TaskRow
    BY <1>6, MailboxAssumption DEF RespondRead, TypeOK, LeasesShown, Holders
  <2> QED BY <1>6, <2>1 DEF RespondRead, TypeOK, ConsumerPC, ConsumerState
<1>7. ASSUME NEW c \in Consumers, RespondCommit(c) PROVE TypeOK'
  <2> DEFINE m == consumer[c].msg
             r == tasks[TaskOf[m]]
             seen == consumer[c].seen
  <2>1. m \in Messages /\ m \in 0 .. NumMessages /\ TaskOf[m] \in Tasks /\ r \in TaskRow
    BY <1>7, MailboxAssumption DEF RespondCommit, TypeOK, LeasesShown, Holders, Messages
  <2>2. seen.completed \in BOOLEAN
    BY ConsumerTypes DEF TaskRow
  <2>3. [[r EXCEPT !.response = IF seen.response = 0 THEN m ELSE @] EXCEPT !.completed = @ \/ ~seen.completed] \in TaskRow
    BY <2>1, <2>2 DEF TaskRow
  <2>4. tasks' = [tasks EXCEPT ![TaskOf[m]] =
                    [[r EXCEPT !.response = IF seen.response = 0 THEN m ELSE @] EXCEPT !.completed = @ \/ ~seen.completed]]
    BY <1>7, <2>1, Zenon DEF RespondCommit, TypeOK
  <2>5. msgs' \in [Messages -> Message]
    BY <1>0, <1>7 DEF RespondCommit, Acked, TypeOK, Message
  <2>6. tasks' \in [Tasks -> TaskRow]
    BY <2>1, <2>3, <2>4 DEF TypeOK
  <2> QED BY <1>7, <2>1, <2>5, <2>6, AnsweredTyped DEF RespondCommit, TypeOK
<1>8. ASSUME NEW c \in Consumers, GiveUp(c) PROVE TypeOK'
  BY <1>0, <1>8 DEF GiveUp, TypeOK, Idle, ConsumerPC, ConsumerState
<1>9. CASE Tick
  BY <1>9, ElapseTyped DEF Tick, TypeOK, Message, ConsumerState
<1>10. CASE UNCHANGED vars
  BY <1>10 DEF vars, TypeOK
<1>11. ASSUME NEW c \in Consumers, Refresh(c) PROVE TypeOK'
  <2>1. consumer[c].msg \in Messages
    BY <1>11 DEF Refresh, LeasesShown, Holders
  <2>2. msgs[consumer[c].msg].left \in Expired .. Lease
    BY <2>1 DEF TypeOK, Message
  <2>3. [consumer[c] EXCEPT !.pc = "holding", !.left = msgs[consumer[c].msg].left,
                            !.late = msgs[consumer[c].msg].attempts # consumer[c].attempts, !.attempts = 0] \in ConsumerState
    BY <2>2 DEF TypeOK, ConsumerState, ConsumerPC
  <2>4. Idle \in ConsumerState
    BY <1>0 DEF Idle, ConsumerState, ConsumerPC
  <2> QED BY <1>11, <2>3, <2>4 DEF Refresh, TypeOK
<1> QED BY <1>1, <1>2, <1>3, <1>4, <1>5, <1>6, <1>7, <1>8, <1>9, <1>10, <1>11 DEF Next
-----------------------------------------------------------------------------
(* What the actions do to a message and to a consumer *)

\* A message that is selected is locked, so no ack or response commits on it.
LEMMA FinishedIsFree ==
  ASSUME RowLocks, MailInv, NEW c \in Consumers, AckCommit(c) \/ RespondCommit(c)
  PROVE  /\ consumer[c].msg \in Messages /\ consumer[c].pc \in Holders
         /\ \A d \in Consumers : consumer[d].pc = "selected" => consumer[d].msg # consumer[c].msg
         /\ \A m \in Messages : m # consumer[c].msg => msgs'[m] = msgs[m]
         /\ msgs'[consumer[c].msg].status = "ACKED"
         /\ msgs'[consumer[c].msg].attempts = msgs[consumer[c].msg].attempts
         /\ \A d \in Consumers \ {c} : consumer'[d] = consumer[d]
         /\ \/ consumer'[c].pc = "idle"
            \/ /\ consumer'[c].pc = "holding" /\ consumer'[c].msg = consumer[c].msg
               /\ consumer'[c].left = consumer[c].left /\ consumer'[c].late = consumer[c].late
         /\ deliveries' = deliveries
<1>1. consumer[c].pc \in {"acking", "responding"} /\ ~Locked(consumer[c].msg) /\ msgs' = Acked(consumer[c].msg) /\ Answered(c) /\ deliveries' = deliveries
  BY DEF AckCommit, RespondCommit
<1>2. consumer[c].msg \in Messages
  BY <1>1 DEF MailInv, LeasesShown, Holders
<1>3. msgs'[consumer[c].msg].status = "ACKED" /\ msgs'[consumer[c].msg].attempts = msgs[consumer[c].msg].attempts
      /\ \A m \in Messages : m # consumer[c].msg => msgs'[m] = msgs[m]
  BY <1>1, <1>2 DEF Acked, MailInv, TypeOK, Message
<1>4. /\ \A d \in Consumers \ {c} : consumer'[d] = consumer[d]
      /\ \/ consumer'[c].pc = "idle"
         \/ /\ consumer'[c].pc = "holding" /\ consumer'[c].msg = consumer[c].msg
            /\ consumer'[c].left = consumer[c].left /\ consumer'[c].late = consumer[c].late
  BY <1>1 DEF Answered, Idle, MailInv, TypeOK, ConsumerState
<1> QED BY <1>1, <1>2, <1>3, <1>4 DEF Locked, Holders

\* The commit of a poll counts from what is on the row.
LEMMA LeasedFresh ==
  ASSUME MailInv, NEW c \in Consumers, LeaseCommit(c), NEW m, m = consumer[c].msg
  PROVE  /\ m \in Messages /\ consumer[c].pc = "selected"
         /\ msgs[m].status = "PENDING" \/ (msgs[m].status = "LEASED" /\ msgs[m].left = Expired)
         /\ msgs[m].attempts < MaxAttempts[m]
         /\ msgs'[m].status = "LEASED" /\ msgs'[m].attempts = msgs[m].attempts + 1 /\ msgs'[m].left = consumer[c].left
         /\ \A n \in Messages \ {m} : msgs'[n] = msgs[n]
         /\ consumer'[c].pc = "committed" /\ consumer'[c].msg = m /\ consumer'[c].left = consumer[c].left
         /\ consumer'[c].attempts = msgs'[m].attempts /\ consumer'[c].late = consumer[c].late
         /\ \A d \in Consumers \ {c} : consumer'[d] = consumer[d]
         /\ \A d \in Consumers \ {c} : consumer[d].pc = "selected" => consumer[d].msg # m
         /\ deliveries'[m] = deliveries[m] + 1 /\ \A n \in Messages \ {m} : deliveries'[n] = deliveries[n]
<1>1. /\ consumer[c].pc = "selected"
      /\ msgs' = [msgs EXCEPT ![m] = [status |-> "LEASED", attempts |-> consumer[c].attempts + 1, left |-> consumer[c].left]]
      /\ deliveries' = [deliveries EXCEPT ![m] = @ + 1]
      /\ consumer' = [consumer EXCEPT ![c].pc = "committed", ![c].attempts = consumer[c].attempts + 1]
  BY DEF LeaseCommit
<1>2. /\ m \in Messages /\ Ready(m) /\ consumer[c].attempts = msgs[m].attempts
      /\ \A d \in Consumers \ {c} : consumer[d].pc = "selected" => consumer[d].msg # m
  BY <1>1 DEF MailInv, SelectionsFresh
<1>3. /\ msgs'[m] = [status |-> "LEASED", attempts |-> msgs[m].attempts + 1, left |-> consumer[c].left]
      /\ \A n \in Messages \ {m} : msgs'[n] = msgs[n]
      /\ deliveries'[m] = deliveries[m] + 1 /\ \A n \in Messages \ {m} : deliveries'[n] = deliveries[n]
  BY <1>1, <1>2 DEF MailInv, TypeOK
<1>4. /\ consumer'[c].pc = "committed" /\ consumer'[c].msg = m /\ consumer'[c].left = consumer[c].left
      /\ consumer'[c].attempts = consumer[c].attempts + 1 /\ consumer'[c].late = consumer[c].late
      /\ \A d \in Consumers \ {c} : consumer'[d] = consumer[d]
  BY <1>1 DEF MailInv, TypeOK, ConsumerState
<1>5. /\ msgs'[m].status = "LEASED" /\ msgs'[m].attempts = msgs[m].attempts + 1 /\ msgs'[m].left = consumer[c].left
      /\ \A n \in Messages \ {m} : msgs'[n] = msgs[n]
  BY <1>3
<1>6. /\ msgs[m].status = "PENDING" \/ (msgs[m].status = "LEASED" /\ msgs[m].left = Expired)
      /\ msgs[m].attempts < MaxAttempts[m]
  <2>1. Ready(m)
    BY <1>2
  <2> QED BY <2>1, Zenon DEF Ready
<1>7. consumer[c].pc = "selected" /\ m \in Messages
  BY <1>1, <1>2
<1> QED BY <1>2, <1>3, <1>4, <1>5, <1>6, <1>7, Zenon

\* The selection of a poll names a ready message that nobody has locked.
LEMMA SelectedReady ==
  ASSUME RowLocks, MailInv, NEW c \in Consumers, LeaseSelect(c)
  PROVE  \E m \in Messages :
         /\ Ready(m) /\ \A d \in Consumers : consumer[d].pc = "selected" => consumer[d].msg # m
         /\ consumer'[c].pc = "selected" /\ consumer'[c].msg = m /\ consumer'[c].attempts = msgs[m].attempts /\ ~consumer'[c].late
         /\ \A d \in Consumers \ {c} : consumer'[d] = consumer[d]
         /\ msgs' = msgs /\ deliveries' = deliveries
BY DEF LeaseSelect, Locked, Selected, Idle, MailInv, TypeOK

\* A refresh ends the request, or hands out the lease that is on the row.
LEMMA RefreshedLease ==
  ASSUME MailInv, NEW c \in Consumers, Refresh(c), NEW m, m = consumer[c].msg
  PROVE  /\ consumer[c].pc = "committed" /\ m \in Messages
         /\ msgs' = msgs /\ deliveries' = deliveries /\ tasks' = tasks /\ accepted' = accepted
         /\ \A d \in Consumers \ {c} : consumer'[d] = consumer[d]
         /\ \/ consumer'[c].pc = "idle"
            \/ /\ consumer'[c].pc = "holding" /\ consumer'[c].msg = m /\ consumer'[c].left = msgs[m].left
               /\ msgs[m].status = "LEASED"
               /\ ~consumer'[c].late => consumer'[c].left = consumer[c].left
<1>1. consumer[c].pc = "committed" /\ m \in Messages /\ msgs[m].status \in {"LEASED", "ACKED"}
  BY DEF Refresh, MailInv, LeasesShown, Holders
<1>2. /\ msgs' = msgs /\ deliveries' = deliveries /\ tasks' = tasks /\ accepted' = accepted
      /\ \A d \in Consumers \ {c} : consumer'[d] = consumer[d]
  BY DEF Refresh, MailInv, TypeOK
<1>3. CASE msgs[m].status = "ACKED"
  <2>1. consumer'[c] = Idle
    BY <1>3 DEF Refresh, MailInv, TypeOK
  <2> QED BY <1>1, <1>2, <2>1 DEF Idle
<1>4. CASE msgs[m].status = "LEASED"
  <2>1. consumer'[c] = [consumer[c] EXCEPT !.pc = "holding", !.left = msgs[m].left,
                                           !.late = msgs[m].attempts # consumer[c].attempts, !.attempts = 0]
    BY <1>4 DEF Refresh, MailInv, TypeOK
  <2>2. /\ consumer'[c].pc = "holding" /\ consumer'[c].msg = m /\ consumer'[c].left = msgs[m].left
        /\ consumer'[c].late = (msgs[m].attempts # consumer[c].attempts)
    BY <2>1 DEF MailInv, TypeOK, ConsumerState
  <2>3. ~consumer'[c].late => consumer'[c].left = consumer[c].left
    BY <1>1, <1>4, <2>2 DEF MailInv, CommitsCounted
  <2> QED BY <1>1, <1>2, <1>4, <2>2, <2>3
<1> QED BY <1>1, <1>3, <1>4

\* The other actions of a consumer leave its message and its lease alone.
LEMMA ReadsAndDrops ==
  ASSUME MailInv, NEW c \in Consumers, AckRead(c) \/ RespondRead(c) \/ GiveUp(c)
  PROVE  /\ msgs' = msgs /\ deliveries' = deliveries /\ tasks' = tasks /\ accepted' = accepted
         /\ \A d \in Consumers \ {c} : consumer'[d] = consumer[d]
         /\ \/ consumer'[c].pc = "idle"
            \/ /\ consumer[c].pc \in Holders /\ consumer'[c].pc \in Holders \ {"committed"}
               /\ consumer'[c].msg = consumer[c].msg /\ consumer'[c].left = consumer[c].left
               /\ consumer'[c].late = consumer[c].late
BY DEF AckRead, RespondRead, GiveUp, Idle, Holders, MailInv, TypeOK, ConsumerState

\* Time takes the same from a lease on the row and on the consumer.
LEMMA TimePasses ==
  ASSUME MailInv, Tick
  PROVE  /\ \A m \in Messages : /\ msgs'[m].status = msgs[m].status /\ msgs'[m].attempts = msgs[m].attempts
                                 /\ msgs'[m].left = Elapse(msgs[m].left)
         /\ \A c \in Consumers : /\ consumer'[c].pc = consumer[c].pc /\ consumer'[c].msg = consumer[c].msg
                                  /\ consumer'[c].attempts = consumer[c].attempts /\ consumer'[c].seen = consumer[c].seen
                                  /\ consumer'[c].left = Elapse(consumer[c].left) /\ consumer'[c].late = consumer[c].late
         /\ deliveries' = deliveries /\ tasks' = tasks /\ accepted' = accepted
BY DEF Tick, MailInv, TypeOK, Message, ConsumerState

\* A message arrives that no consumer has heard of.
LEMMA ArrivesUnheld ==
  ASSUME MailInv, NEW m \in Messages, Arrive(m)
  PROVE  /\ \A c \in Consumers : consumer[c].pc # "idle" => consumer[c].msg # m
         /\ msgs'[m].status = "PENDING" /\ msgs'[m].attempts = msgs[m].attempts
         /\ \A n \in Messages \ {m} : msgs'[n] = msgs[n]
         /\ consumer' = consumer /\ deliveries' = deliveries /\ accepted' = accepted /\ msgs[m].status = "absent"
<1>1. /\ msgs'[m].status = "PENDING" /\ msgs'[m].attempts = msgs[m].attempts
      /\ \A n \in Messages \ {m} : msgs'[n] = msgs[n]
      /\ consumer' = consumer /\ deliveries' = deliveries /\ accepted' = accepted /\ msgs[m].status = "absent"
  BY DEF Arrive, MailInv, TypeOK, Message
<1>2. ASSUME NEW c \in Consumers, consumer[c].pc # "idle" PROVE consumer[c].msg # m
  <2>1. consumer[c].pc = "selected" \/ consumer[c].pc \in Holders
    BY <1>2 DEF MailInv, TypeOK, ConsumerState, ConsumerPC, Holders
  <2> QED BY <1>1, <2>1 DEF MailInv, SelectionsFresh, LeasesShown, Ready
<1> QED BY <1>1, <1>2

-----------------------------------------------------------------------------
(* Each part of the invariant is kept *)

LEMMA StepCounted == ASSUME RowLocks, MailInv, [Next]_vars PROVE Counted'
<1>1. ASSUME NEW c \in Consumers, LeaseCommit(c) PROVE Counted'
  BY <1>1, LeasedFresh, MailboxAssumption DEF MailInv, Counted, TypeOK, Message
<1>2. ASSUME NEW c \in Consumers, AckCommit(c) \/ RespondCommit(c) PROVE Counted'
  BY <1>2, FinishedIsFree DEF MailInv, Counted
<1>3. ASSUME NEW c \in Consumers, AckRead(c) \/ RespondRead(c) \/ GiveUp(c) PROVE Counted'
  BY <1>3, ReadsAndDrops DEF MailInv, Counted
<1>4. ASSUME NEW c \in Consumers, LeaseSelect(c) PROVE Counted'
  BY <1>4 DEF LeaseSelect, MailInv, Counted
<1>5. ASSUME NEW m \in Messages, Arrive(m) PROVE Counted'
  BY <1>5, ArrivesUnheld DEF MailInv, Counted
<1>6. CASE Tick
  BY <1>6, TimePasses DEF MailInv, Counted
<1>7. CASE UNCHANGED vars
  BY <1>7 DEF vars, MailInv, Counted
<1>8. ASSUME NEW c \in Consumers, Refresh(c) PROVE Counted'
  BY <1>8, RefreshedLease DEF MailInv, Counted
<1> QED BY <1>1, <1>2, <1>3, <1>4, <1>5, <1>6, <1>7, <1>8 DEF Next

LEMMA StepSelections == ASSUME RowLocks, MailInv, [Next]_vars PROVE SelectionsFresh'
<1>1. ASSUME NEW c \in Consumers, LeaseCommit(c) PROVE SelectionsFresh'
  BY <1>1, LeasedFresh DEF MailInv, SelectionsFresh, Ready
<1>2. ASSUME NEW c \in Consumers, AckCommit(c) \/ RespondCommit(c) PROVE SelectionsFresh'
  BY <1>2, FinishedIsFree DEF MailInv, SelectionsFresh, Ready
<1>3. ASSUME NEW c \in Consumers, AckRead(c) \/ RespondRead(c) \/ GiveUp(c) PROVE SelectionsFresh'
  BY <1>3, ReadsAndDrops DEF MailInv, SelectionsFresh, Ready, Holders
<1>4. ASSUME NEW c \in Consumers, LeaseSelect(c) PROVE SelectionsFresh'
  BY <1>4, SelectedReady DEF MailInv, SelectionsFresh, Ready
<1>5. ASSUME NEW m \in Messages, Arrive(m) PROVE SelectionsFresh'
  BY <1>5, ArrivesUnheld DEF MailInv, SelectionsFresh, Ready
<1>6. CASE Tick
  <2>1. Elapse(Expired) = Expired
    BY DEF Elapse
  <2> QED BY <1>6, <2>1, TimePasses DEF MailInv, SelectionsFresh, Ready
<1>7. CASE UNCHANGED vars
  BY <1>7 DEF vars, MailInv, SelectionsFresh, Ready
<1>8. ASSUME NEW c \in Consumers, Refresh(c) PROVE SelectionsFresh'
  BY <1>8, RefreshedLease DEF MailInv, SelectionsFresh, Ready
<1> QED BY <1>1, <1>2, <1>3, <1>4, <1>5, <1>6, <1>7, <1>8 DEF Next

LEMMA StepLeases == ASSUME RowLocks, MailInv, [Next]_vars PROVE LeasesShown'
<1>1. ASSUME NEW c \in Consumers, LeaseCommit(c) PROVE LeasesShown'
  BY <1>1, LeasedFresh DEF MailInv, LeasesShown, Holders
<1>2. ASSUME NEW c \in Consumers, AckCommit(c) \/ RespondCommit(c) PROVE LeasesShown'
  BY <1>2, FinishedIsFree DEF MailInv, LeasesShown, Holders
<1>3. ASSUME NEW c \in Consumers, AckRead(c) \/ RespondRead(c) \/ GiveUp(c) PROVE LeasesShown'
  BY <1>3, ReadsAndDrops DEF MailInv, LeasesShown, Holders
<1>4. ASSUME NEW c \in Consumers, LeaseSelect(c) PROVE LeasesShown'
  BY <1>4, SelectedReady DEF MailInv, LeasesShown, Holders
<1>5. ASSUME NEW m \in Messages, Arrive(m) PROVE LeasesShown'
  BY <1>5, ArrivesUnheld DEF MailInv, LeasesShown, Holders
<1>6. CASE Tick
  BY <1>6, TimePasses DEF MailInv, LeasesShown, Holders, Elapse
<1>7. CASE UNCHANGED vars
  BY <1>7 DEF vars, MailInv, LeasesShown
<1>8. ASSUME NEW c \in Consumers, Refresh(c) PROVE LeasesShown'
  BY <1>8, RefreshedLease DEF MailInv, LeasesShown, Holders
<1> QED BY <1>1, <1>2, <1>3, <1>4, <1>5, <1>6, <1>7, <1>8 DEF Next

LEMMA StepOneLease == ASSUME RowLocks, MailInv, [Next]_vars PROVE OneLeaseAtATime'
<1> USE DEF OneLeaseAtATime, Holding
<1>1. ASSUME NEW c \in Consumers, LeaseCommit(c) PROVE OneLeaseAtATime'
  <2>1. \A d \in Consumers \ {c} : Holding(d, consumer[c].msg) => consumer[d].left = Expired
    BY <1>1, LeasedFresh DEF MailInv, LeasesShown, Holders
  <2> QED BY <1>1, <2>1, LeasedFresh DEF MailInv
<1>2. ASSUME NEW c \in Consumers, AckCommit(c) \/ RespondCommit(c) PROVE OneLeaseAtATime'
  BY <1>2, FinishedIsFree DEF MailInv, Holders
<1>3. ASSUME NEW c \in Consumers, AckRead(c) \/ RespondRead(c) \/ GiveUp(c) PROVE OneLeaseAtATime'
  BY <1>3, ReadsAndDrops DEF MailInv, Holders
<1>4. ASSUME NEW c \in Consumers, LeaseSelect(c) PROVE OneLeaseAtATime'
  BY <1>4, SelectedReady DEF MailInv, Holders
<1>5. ASSUME NEW m \in Messages, Arrive(m) PROVE OneLeaseAtATime'
  BY <1>5, ArrivesUnheld DEF MailInv
<1>6. CASE Tick
  BY <1>6, TimePasses DEF MailInv, Elapse
<1>7. CASE UNCHANGED vars
  BY <1>7 DEF vars, MailInv
<1>8. ASSUME NEW c \in Consumers, Refresh(c) PROVE OneLeaseAtATime'
  <2>1. consumer[c].pc = "committed" /\ ~consumer[c].late
    BY <1>8, RefreshedLease DEF MailInv, CommitsCounted
  <2>2. /\ \A d \in Consumers \ {c} : consumer'[d] = consumer[d]
        /\ \/ consumer'[c].pc = "idle"
           \/ /\ consumer'[c].pc = "holding" /\ consumer'[c].msg = consumer[c].msg
              /\ ~consumer'[c].late => consumer'[c].left = consumer[c].left
    BY <1>8, RefreshedLease
  <2> QED BY <2>1, <2>2 DEF MailInv, Holders
<1> QED BY <1>1, <1>2, <1>3, <1>4, <1>5, <1>6, <1>7, <1>8 DEF Next

LEMMA StepCommits == ASSUME RowLocks, MailInv, [Next]_vars PROVE CommitsCounted'
<1>1. ASSUME NEW c \in Consumers, LeaseCommit(c) PROVE CommitsCounted'
  <2>1. ~consumer[c].late
    BY <1>1 DEF LeaseCommit, MailInv, SelectionsFresh
  <2>2. msgs[consumer[c].msg].attempts \in Nat
    BY <1>1, LeasedFresh DEF MailInv, TypeOK, Message
  <2>3. \A d \in Consumers : consumer[d].pc = "committed" => consumer[d].attempts \in Nat /\ consumer[d].msg \in Messages
    BY ConsumerTypes DEF MailInv, LeasesShown, Holders
  <2> DEFINE m == consumer[c].msg
  <2>4. /\ msgs'[m].attempts = msgs[m].attempts + 1 /\ msgs'[m].left = consumer[c].left
        /\ \A n \in Messages \ {m} : msgs'[n] = msgs[n]
        /\ consumer'[c].msg = m /\ consumer'[c].left = consumer[c].left
        /\ consumer'[c].attempts = msgs'[m].attempts /\ consumer'[c].late = consumer[c].late
        /\ \A d \in Consumers \ {c} : consumer'[d] = consumer[d]
    BY <1>1, LeasedFresh
  <2> QED BY <2>1, <2>2, <2>3, <2>4 DEF MailInv, CommitsCounted
<1>2. ASSUME NEW c \in Consumers, AckCommit(c) \/ RespondCommit(c) PROVE CommitsCounted'
  BY <1>2, FinishedIsFree DEF MailInv, CommitsCounted, LeasesShown, Holders
<1>3. ASSUME NEW c \in Consumers, AckRead(c) \/ RespondRead(c) \/ GiveUp(c) PROVE CommitsCounted'
  BY <1>3, ReadsAndDrops DEF MailInv, CommitsCounted, LeasesShown, Holders
<1>4. ASSUME NEW c \in Consumers, LeaseSelect(c) PROVE CommitsCounted'
  BY <1>4, SelectedReady DEF MailInv, CommitsCounted, LeasesShown, Holders
<1>5. ASSUME NEW m \in Messages, Arrive(m) PROVE CommitsCounted'
  BY <1>5, ArrivesUnheld DEF MailInv, CommitsCounted, LeasesShown, Holders
<1>6. CASE Tick
  BY <1>6, TimePasses DEF MailInv, CommitsCounted, LeasesShown, Holders
<1>7. CASE UNCHANGED vars
  BY <1>7 DEF vars, MailInv, CommitsCounted
<1>8. ASSUME NEW c \in Consumers, Refresh(c) PROVE CommitsCounted'
  BY <1>8, RefreshedLease DEF MailInv, CommitsCounted, LeasesShown, Holders
<1> QED BY <1>1, <1>2, <1>3, <1>4, <1>5, <1>6, <1>7, <1>8 DEF Next

\* A finished message is never handed out again.
LEMMA StepAckedFinal ==
  ASSUME RowLocks, MailInv, [Next]_vars, NEW m \in Messages, msgs[m].status = "ACKED"
  PROVE  msgs'[m].status = "ACKED"
<1>1. ASSUME NEW c \in Consumers, LeaseCommit(c) PROVE msgs'[m].status = "ACKED"
  BY <1>1, LeasedFresh
<1>2. ASSUME NEW c \in Consumers, AckCommit(c) \/ RespondCommit(c) PROVE msgs'[m].status = "ACKED"
  BY <1>2, FinishedIsFree
<1>3. ASSUME NEW c \in Consumers, AckRead(c) \/ RespondRead(c) \/ GiveUp(c) \/ LeaseSelect(c) \/ Refresh(c) PROVE msgs'[m].status = "ACKED"
  BY <1>3 DEF AckRead, RespondRead, GiveUp, LeaseSelect, Refresh
<1>4. ASSUME NEW n \in Messages, Arrive(n) PROVE msgs'[m].status = "ACKED"
  BY <1>4, ArrivesUnheld
<1>5. CASE Tick
  BY <1>5, TimePasses
<1>6. CASE UNCHANGED vars
  BY <1>6 DEF vars
<1> QED BY <1>1, <1>2, <1>3, <1>4, <1>5, <1>6 DEF Next

\* What a task row has, it keeps; and what a response writes.
LEMMA TasksGrow ==
  ASSUME MailInv, [Next]_vars
  PROVE  \A t \in Tasks : /\ tasks[t].completed => tasks'[t].completed
                          /\ tasks[t].response # 0 => tasks'[t].response # 0
<1>1. ASSUME NEW c \in Consumers, RespondCommit(c)
      PROVE \A t \in Tasks : (tasks[t].completed => tasks'[t].completed) /\ (tasks[t].response # 0 => tasks'[t].response # 0)
  <2>1. consumer[c].msg \in Messages /\ consumer[c].msg # 0
    BY <1>1 DEF RespondCommit, MailInv, LeasesShown, Holders, Messages
  <2> QED BY <1>1, <2>1 DEF RespondCommit, MailInv, TypeOK, TaskRow
<1>2. ASSUME NEW m \in Messages, Arrive(m)
      PROVE \A t \in Tasks : (tasks[t].completed => tasks'[t].completed) /\ (tasks[t].response # 0 => tasks'[t].response # 0)
  BY <1>2 DEF Arrive, MailInv, TypeOK, TaskRow
<1>3. CASE ~(\E c \in Consumers : RespondCommit(c)) /\ ~(\E m \in Messages : Arrive(m))
  BY <1>3 DEF Next, vars, LeaseSelect, LeaseCommit, Refresh, AckRead, AckCommit, RespondRead, GiveUp, Tick
<1> QED BY <1>1, <1>2, <1>3

LEMMA StepSeen == ASSUME RowLocks, MailInv, [Next]_vars PROVE SeenStands'
<1> SUFFICES ASSUME NEW d \in Consumers, consumer'[d].pc = "responding"
             PROVE  /\ consumer'[d].seen.completed => tasks'[TaskOf[consumer'[d].msg]].completed
                    /\ consumer'[d].seen.response # 0 => tasks'[TaskOf[consumer'[d].msg]].response # 0
  BY DEF SeenStands
<1> DEFINE t == TaskOf[consumer[d].msg]
<1>1. CASE RespondRead(d)
  <2>1. consumer'[d].msg = consumer[d].msg /\ consumer'[d].seen = tasks[t] /\ tasks' = tasks
    BY <1>1 DEF RespondRead, MailInv, TypeOK, ConsumerState
  <2> QED BY <2>1
<1>2. CASE ~RespondRead(d)
  <2>1. consumer[d].pc = "responding" /\ consumer'[d].msg = consumer[d].msg /\ consumer'[d].seen = consumer[d].seen
    <3>1. ASSUME NEW c \in Consumers, AckCommit(c) \/ RespondCommit(c) PROVE consumer'[d] = consumer[d]
      BY <3>1, FinishedIsFree
    <3>2. ASSUME NEW c \in Consumers, AckRead(c) \/ GiveUp(c) \/ LeaseSelect(c) \/ LeaseCommit(c) \/ Refresh(c)
          PROVE consumer'[d] = consumer[d]
      <4>1. consumer'[c].pc # "responding" /\ \A x \in Consumers \ {c} : consumer'[x] = consumer[x]
        <5>1. CASE AckRead(c) \/ LeaseCommit(c)
          BY <5>1 DEF AckRead, LeaseCommit, MailInv, TypeOK, ConsumerState
        <5>2. CASE GiveUp(c)
          BY <5>2 DEF GiveUp, Idle, MailInv, TypeOK
        <5>3. CASE LeaseSelect(c)
          BY <5>3, SelectedReady
        <5>4. CASE Refresh(c)
          BY <5>4, RefreshedLease
        <5> QED BY <3>2, <5>1, <5>2, <5>3, <5>4
      <4> QED BY <4>1
    <3>3. ASSUME NEW c \in Consumers, c # d, RespondRead(c) PROVE consumer'[d] = consumer[d]
      BY <3>3 DEF RespondRead, MailInv, TypeOK
    <3>4. CASE Tick
      BY <3>4, TimePasses
    <3>5. CASE UNCHANGED vars \/ \E m \in Messages : Arrive(m)
      BY <3>5 DEF vars, Arrive
    <3> QED BY <1>2, <3>1, <3>2, <3>3, <3>4, <3>5 DEF Next
  <2>2. t \in Tasks
    BY <2>1, MailboxAssumption DEF MailInv, LeasesShown, Holders
  <2> QED BY <2>1, <2>2, TasksGrow DEF MailInv, SeenStands
<1> QED BY <1>1, <1>2

LEMMA StepTrace == ASSUME RowLocks, MailInv, [Next]_vars PROVE ResponseLeavesTrace'
<1> SUFFICES ASSUME NEW m \in accepted'
             PROVE  msgs'[m].status = "ACKED" /\ tasks'[TaskOf[m]].completed /\ tasks'[TaskOf[m]].response # 0
  BY DEF ResponseLeavesTrace
<1>1. CASE m \in accepted
  <2>1. m \in Messages /\ TaskOf[m] \in Tasks
    BY <1>1, MailboxAssumption DEF MailInv, TypeOK
  <2> QED BY <1>1, <2>1, StepAckedFinal, TasksGrow DEF MailInv, ResponseLeavesTrace
<1>2. CASE m \notin accepted
  <2>1. PICK c \in Consumers : RespondCommit(c) /\ m = consumer[c].msg
    BY <1>2 DEF Next, vars, Arrive, LeaseSelect, LeaseCommit, Refresh, AckRead, AckCommit, RespondRead, RespondCommit, GiveUp, Tick
  <2>2. m \in Messages /\ m # 0 /\ TaskOf[m] \in Tasks /\ msgs'[m].status = "ACKED"
    BY <2>1, FinishedIsFree, MailboxAssumption DEF Messages
  <2>3. /\ consumer[c].seen.completed => tasks[TaskOf[m]].completed
        /\ consumer[c].seen.response # 0 => tasks[TaskOf[m]].response # 0
    BY <2>1 DEF MailInv, SeenStands, RespondCommit
  <2>4. tasks'[TaskOf[m]].completed
    BY <2>1, <2>2, <2>3 DEF RespondCommit, MailInv, TypeOK, TaskRow
  <2>5. tasks'[TaskOf[m]].response # 0
    BY <2>1, <2>2, <2>3 DEF RespondCommit, MailInv, TypeOK, TaskRow
  <2> QED BY <2>2, <2>4, <2>5
<1> QED BY <1>1, <1>2

-----------------------------------------------------------------------------

THEOREM MailInvariant == ASSUME RowLocks PROVE Spec => []MailInv
<1>1. MailInv /\ [Next]_vars => MailInv'
  BY StepTyped, StepCounted, StepSelections, StepLeases, StepCommits, StepOneLease, StepSeen, StepTrace DEF MailInv
<1> QED BY InitMailInv, <1>1, PTL DEF Spec

\* Every reachable state of the mailbox is well typed.
THEOREM TypeCorrect == ASSUME RowLocks PROVE Spec => []TypeOK
<1>1. MailInv => TypeOK
  BY DEF MailInv
<1> QED BY MailInvariant, <1>1, PTL

\* A message is handed out at most max_attempts times, whoever drops it.
THEOREM DeliveriesAreBounded == ASSUME RowLocks PROVE Spec => []DeliveriesBounded
<1>1. MailInv => DeliveriesBounded
  BY DEF MailInv, Counted, DeliveriesBounded
<1> QED BY MailInvariant, <1>1, PTL

\* While a lease runs nobody else holds the message, but a poll that was late
\* with its refresh.
THEOREM LeasesAreExclusive == ASSUME RowLocks PROVE Spec => []OneLeaseAtATime
<1>1. MailInv => OneLeaseAtATime
  BY DEF MailInv
<1> QED BY MailInvariant, <1>1, PTL

\* An accepted response acknowledges its message and leaves a response with the task.
THEOREM ResponsesLeaveTrace == ASSUME RowLocks PROVE Spec => []ResponseLeavesTrace
<1>1. MailInv => ResponseLeavesTrace
  BY DEF MailInv
<1> QED BY MailInvariant, <1>1, PTL

\* An acknowledged message is never handed out again.
THEOREM AckedIsFinal == ASSUME RowLocks PROVE Spec => AckedFinal
<1>1. MailInv /\ [Next]_vars => [\A m \in Messages : msgs[m].status = "ACKED" => msgs'[m].status = "ACKED"]_vars
  BY StepAckedFinal
<1> QED BY MailInvariant, <1>1, PTL DEF Spec, AckedFinal
=============================================================================
