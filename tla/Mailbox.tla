------------------------------ MODULE Mailbox ------------------------------
(***************************************************************************)
(* The messages of one agent: leased by polling (lease_agent_message in    *)
(* app/services/queue.py) and finished by ack or respond, which name a     *)
(* message by its id and ask nothing about its lease                       *)
(* (app/api/v1/endpoints.py).  A poll commits the lease and then loads the *)
(* row again: what it answers is the row as it is by then.                 *)
(*                                                                         *)
(* Consumers are the agent's processes.  They are not part of the          *)
(* repository: one may sit on a message, give it up, or send an ack or a   *)
(* response again when the HTTP answer was lost.  A request that ends is   *)
(* served in its own session: it reads without a lock and writes what      *)
(* changed against that reading when it commits.                           *)
(***************************************************************************)
EXTENDS Integers, FiniteSets

CONSTANTS
  NumMessages,   \* messages that may be created, in the order of created_at
  NumTasks,      \* the task rows they belong to
  TaskOf,        \* task_id of each message; a task has two if it was executed twice
  Events,        \* the messages queued by the EventListener
  Consumers,
  MaxAttempts,   \* the max_attempts column of each message
  Lease,         \* the longest lease_seconds a client asks for, in ticks
  RowLocks       \* TRUE on PostgreSQL; SQLite ignores FOR UPDATE SKIP LOCKED

Messages == 1 .. NumMessages
Tasks == 1 .. NumTasks

ASSUME MailboxAssumption ==
  /\ NumMessages \in Nat
  /\ NumTasks \in Nat
  /\ TaskOf \in [Messages -> Tasks]
  /\ Events \subseteq Messages
  /\ MaxAttempts \in [Messages -> Nat]
  /\ Lease \in Nat
  /\ RowLocks \in BOOLEAN

VARIABLES
  msgs,        \* the agent_messages table
  tasks,       \* completed_at and results["agent_responses"] of the task rows
  consumer,    \* what each consumer is doing
  deliveries,  \* history: how often each message was handed to a consumer
  accepted     \* history: the messages with a response that was "received"

vars == <<msgs, tasks, consumer, deliveries, accepted>>

-----------------------------------------------------------------------------

Expired == -1

Message == [status: {"absent", "PENDING", "LEASED", "ACKED"}, attempts: Nat, left: Expired .. Lease]

\* response: the message whose response the row holds, 0 for an empty results
\* column.  The row never comes to hold more than one.
TaskRow == [completed: BOOLEAN, response: 0 .. NumMessages]

\* "committed": the poll has its lease and not yet refreshed the row.  "acking"
\* and "responding": the request has read the rows and not committed.
ConsumerPC == {"idle", "selected", "committed", "holding", "acking", "responding"}

\* attempts: of the poll's session.  left: of the lease that was granted, and
\* from the refresh on of the leased_until in the answer.  seen: what a respond
\* has read of the task row.  late is history: the refresh has loaded the lease
\* of somebody else.
ConsumerState ==
  [pc: ConsumerPC, msg: 0 .. NumMessages, attempts: Nat, left: Expired .. Lease, seen: TaskRow, late: BOOLEAN]

NoTask == [completed |-> FALSE, response |-> 0]

Idle == [pc |-> "idle", msg |-> 0, attempts |-> 0, left |-> Expired, seen |-> NoTask, late |-> FALSE]

Holders == {"committed", "holding", "acking", "responding"}

Holding(c, m) == consumer[c].msg = m /\ consumer[c].pc \in Holders

TypeOK ==
  /\ msgs \in [Messages -> Message]
  /\ tasks \in [Tasks -> TaskRow]
  /\ consumer \in [Consumers -> ConsumerState]
  /\ deliveries \in [Messages -> Nat]
  /\ accepted \subseteq Messages

Init ==
  /\ msgs = [m \in Messages |-> [status |-> "absent", attempts |-> 0, left |-> Expired]]
  /\ tasks = [t \in Tasks |-> NoTask]
  /\ consumer = [c \in Consumers |-> Idle]
  /\ deliveries = [m \in Messages |-> 0]
  /\ accepted = {}

\* (mutant) FOR UPDATE forgotten.
NotLocked(m) == FALSE

\* The row lock that the poll keeps from its SELECT to its COMMIT.
Locked(m) == RowLocks /\ \E c \in Consumers : consumer[c].pc = "selected" /\ consumer[c].msg = m

-----------------------------------------------------------------------------
(* Producers: TaskWorker._process_task, whose transaction also completes   *)
(* the task row, and EventListener._queue_agent_message, which creates the *)
(* task with it, COMPLETED but without a completed_at.                     *)

Arrive(m) ==
  /\ msgs[m].status = "absent"
  /\ \A n \in 1 .. m - 1 : msgs[n].status # "absent"
  /\ msgs' = [msgs EXCEPT ![m].status = "PENDING"]
  /\ tasks' = [tasks EXCEPT ![TaskOf[m]].completed = @ \/ m \notin Events]
  /\ UNCHANGED <<consumer, deliveries, accepted>>

-----------------------------------------------------------------------------
(* POST /agents/{id}/messages/poll *)

\* (mutant) leased_until is not compared with the clock.
ReadyOrLeased(m) == msgs[m].status \in {"PENDING", "LEASED"} /\ msgs[m].attempts < MaxAttempts[m]

\* (mutant) Expired leases are not picked up again.
ReadyPending(m) == msgs[m].status = "PENDING" /\ msgs[m].attempts < MaxAttempts[m]

Ready(m) ==
  /\ \/ msgs[m].status = "PENDING"
     \/ msgs[m].status = "LEASED" /\ msgs[m].left = Expired
  /\ msgs[m].attempts < MaxAttempts[m]

\* What the session of a poll has selected.
Selected(m, left) == [Idle EXCEPT !.pc = "selected", !.msg = m, !.attempts = msgs[m].attempts, !.left = left]

\* (mutant) Every attempt is leased for longer than the one before.
LeaseSelectLonger(c) ==
  /\ consumer[c].pc = "idle"
  /\ \E m \in Messages, leaseSeconds \in 0 .. Lease :
       /\ Ready(m) /\ ~Locked(m)
       /\ \A n \in 1 .. m - 1 : ~(Ready(n) /\ ~Locked(n))
       /\ consumer' = [consumer EXCEPT ![c] = Selected(m, leaseSeconds * (msgs[m].attempts + 1))]
  /\ UNCHANGED <<msgs, tasks, deliveries, accepted>>

\* The oldest ready message, for as long as the client asks.
LeaseSelect(c) ==
  /\ consumer[c].pc = "idle"
  /\ \E m \in Messages, leaseSeconds \in 0 .. Lease :
       /\ Ready(m) /\ ~Locked(m)
       /\ \A n \in 1 .. m - 1 : ~(Ready(n) /\ ~Locked(n))
       /\ consumer' = [consumer EXCEPT ![c] = Selected(m, leaseSeconds)]
  /\ UNCHANGED <<msgs, tasks, deliveries, accepted>>

\* (mutant) The attempt is not counted.
LeaseCommitUncounted(c) ==
  /\ consumer[c].pc = "selected"
  /\ msgs' = [msgs EXCEPT ![consumer[c].msg].status = "LEASED", ![consumer[c].msg].left = consumer[c].left]
  /\ consumer' = [consumer EXCEPT ![c].pc = "committed"]
  /\ deliveries' = [deliveries EXCEPT ![consumer[c].msg] = @ + 1]
  /\ UNCHANGED <<tasks, accepted>>

\* The UPDATE and COMMIT of a poll that has selected a message.
LeaseCommit(c) ==
  /\ consumer[c].pc = "selected"
  /\ LET m == consumer[c].msg
         n == consumer[c].attempts + 1
     IN /\ msgs' = [msgs EXCEPT ![m] = [status |-> "LEASED", attempts |-> n, left |-> consumer[c].left]]
        /\ deliveries' = [deliveries EXCEPT ![m] = @ + 1]
        /\ consumer' = [consumer EXCEPT ![c].pc = "committed", ![c].attempts = n]
  /\ UNCHANGED <<tasks, accepted>>

\* session.refresh, and the answer of the endpoint.  A message that has been
\* acknowledged in between has no leased_until, which the response model does
\* not allow: the request fails.  The session ends, and what it had read.
Refresh(c) ==
  /\ consumer[c].pc = "committed"
  /\ LET m == consumer[c].msg
     IN consumer' = [consumer EXCEPT ![c] =
          IF msgs[m].status = "ACKED" THEN Idle
          ELSE [@ EXCEPT !.pc = "holding", !.left = msgs[m].left,
                         !.late = msgs[m].attempts # consumer[c].attempts, !.attempts = 0]]
  /\ UNCHANGED <<msgs, tasks, deliveries, accepted>>

-----------------------------------------------------------------------------
(* POST /agents/messages/{id}/ack *)

\* A message that reads as ACKED is answered "acked" at once, and nothing changes.
AckRead(c) ==
  /\ consumer[c].pc = "holding"
  /\ msgs[consumer[c].msg].status # "ACKED"
  /\ consumer' = [consumer EXCEPT ![c].pc = "acking"]
  /\ UNCHANGED <<msgs, tasks, deliveries, accepted>>

Acked(m) == [msgs EXCEPT ![m].status = "ACKED", ![m].left = Expired]

\* The consumer is done with the message, or does not hear the answer.
Answered(c) ==
  \/ consumer' = [consumer EXCEPT ![c] = Idle]
  \/ consumer' = [consumer EXCEPT ![c].pc = "holding", ![c].seen = NoTask]

AckCommit(c) ==
  /\ consumer[c].pc = "acking"
  /\ ~Locked(consumer[c].msg)
  /\ msgs' = Acked(consumer[c].msg)
  /\ Answered(c)
  /\ UNCHANGED <<tasks, deliveries, accepted>>

-----------------------------------------------------------------------------
(* POST /agents/messages/{id}/respond *)

RespondRead(c) ==
  /\ consumer[c].pc = "holding"
  /\ consumer' = [consumer EXCEPT ![c].pc = "responding", ![c].seen = tasks[TaskOf[consumer[c].msg]]]
  /\ UNCHANGED <<msgs, tasks, deliveries, accepted>>

\* (mutant) The response is stored, but the message is not acknowledged.
RespondUnacked(c) ==
  /\ consumer[c].pc = "responding"
  /\ tasks' = [tasks EXCEPT ![TaskOf[consumer[c].msg]] = [completed |-> TRUE, response |-> consumer[c].msg]]
  /\ accepted' = accepted \cup {consumer[c].msg}
  /\ Answered(c)
  /\ UNCHANGED <<msgs, deliveries>>

\* An empty results column is assigned a new dictionary and written.  A column
\* with results in it is changed in place and assigned to itself, which the ORM
\* takes for no change.
RespondCommit(c) ==
  /\ consumer[c].pc = "responding"
  /\ ~Locked(consumer[c].msg)
  /\ LET m == consumer[c].msg
         seen == consumer[c].seen
     IN /\ tasks' = [tasks EXCEPT
             ![TaskOf[m]].response = IF seen.response = 0 THEN m ELSE @,
             ![TaskOf[m]].completed = @ \/ ~seen.completed]
        /\ msgs' = Acked(m)
        /\ accepted' = accepted \cup {m}
  /\ Answered(c)
  /\ UNCHANGED deliveries

-----------------------------------------------------------------------------
(* The environment *)

\* The consumer drops the message or dies, or its request is cut off.
GiveUp(c) ==
  /\ consumer[c].pc # "idle"
  /\ consumer' = [consumer EXCEPT ![c] = Idle]
  /\ UNCHANGED <<msgs, tasks, deliveries, accepted>>

Elapse(left) == IF left = Expired THEN Expired ELSE left - 1

Tick ==
  /\ msgs' = [m \in Messages |-> [msgs[m] EXCEPT !.left = Elapse(@)]]
  /\ consumer' = [c \in Consumers |-> [consumer[c] EXCEPT !.left = Elapse(@)]]
  /\ UNCHANGED <<tasks, deliveries, accepted>>

Next ==
  \/ \E m \in Messages : Arrive(m)
  \/ \E c \in Consumers :
       \/ LeaseSelect(c) \/ LeaseCommit(c) \/ Refresh(c) \/ AckRead(c) \/ AckCommit(c)
       \/ RespondRead(c) \/ RespondCommit(c) \/ GiveUp(c)
  \/ Tick

Spec == Init /\ [][Next]_vars

\* Time passes, consumers poll whenever they are idle, a poll that was granted a
\* lease ends, and no consumer keeps at one message for ever; that one ever acks
\* or responds is not assumed.
Fairness ==
  /\ WF_vars(Tick)
  /\ \A c \in Consumers :
       /\ WF_vars(LeaseSelect(c))
       /\ SF_vars(LeaseCommit(c))
       /\ WF_vars(Refresh(c))
       /\ WF_vars(consumer[c].pc # "selected" /\ GiveUp(c))

FairSpec == Spec /\ Fairness
-----------------------------------------------------------------------------
(* Properties *)

\* A message is handed out at most max_attempts times, to whomever and however
\* often it is dropped: only the row lock keeps two polls from counting as one.
DeliveriesBounded == \A m \in Messages : deliveries[m] <= MaxAttempts[m]

\* While a consumer's lease on a message runs nobody else gets the message, even
\* when an earlier consumer comes back late: unlike a task's, a message's lease
\* is never given back, only ended for good.  The exception is a poll that was
\* late: between its commit and its refresh the message was leased again, and it
\* answers with that lease, which another consumer has too.
OneLeaseAtATime ==
  \A c, d \in Consumers, m \in Messages :
    /\ Holding(c, m) /\ consumer[c].left # Expired /\ ~consumer[c].late
    /\ Holding(d, m) /\ consumer[d].left # Expired /\ ~consumer[d].late
    => c = d

\* An acknowledged message is never handed out again, also not by a poll that
\* had selected it before the ack or the response came in.
AckedFinal ==
  [][\A m \in Messages : msgs[m].status = "ACKED" => msgs'[m].status = "ACKED"]_vars

\* A message with an accepted response is acknowledged, and its task row holds
\* an agent response, though not always this one.
ResponseLeavesTrace ==
  \A m \in accepted :
    msgs[m].status = "ACKED" /\ tasks[TaskOf[m]].completed /\ tasks[TaskOf[m]].response # 0

\* Every message ends: acknowledged, or handed out as often as it may be.
MessagesSettle ==
  \A m \in Messages :
    (msgs[m].status # "absent") ~> (msgs[m].status = "ACKED" \/ msgs[m].attempts = MaxAttempts[m])

\* app/api/v1/endpoints.py: respond "stores a structured response payload".  The
\* second response to a task is answered "received", stored: true, and lost.
ResponsesStored == \A m \in accepted : tasks[TaskOf[m]].response = m
=============================================================================
