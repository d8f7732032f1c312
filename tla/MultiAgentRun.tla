--------------------------- MODULE MultiAgentRun ---------------------------
(***************************************************************************)
(* One call of MultiAgentOrchestrator.execute_task for a task row: a plan  *)
(* of agent steps, each handed off up to three times, and the row written  *)
(* back along the way.  TaskQueue shows the same call as RunStart, then    *)
(* one of RunComplete, RunDeadLetter and RunAuthError.                     *)
(*                                                                         *)
(* A result is stood for by the step it came from.  The row's results are  *)
(* a JSON column without mutation tracking: the ORM writes it when it was  *)
(* assigned a different value, and not when the loaded dictionary was      *)
(* changed in place.                                                       *)
(***************************************************************************)
EXTENDS Integers, Sequences

CONSTANTS
  Agents,      \* the connectors of the registry
  NoAgent,     \* the agent of a step that names none; /queue/enqueue takes any plan
  Plans,       \* the plans that may be given or parsed: for each step its agent
  MaxRetries   \* max_retries

ASSUME RunAssumption ==
  /\ Plans \subseteq Seq(Agents \cup {NoAgent})
  /\ NoAgent \notin Agents
  /\ MaxRetries \in Nat \ {0}

VARIABLES
  plan,      \* the plan of this call; empty if the planner found no agent
  status,    \* the row's status
  stored,    \* the row's results: for each agent the step that is stored, 0 for none
  results,   \* the same of the local variable
  pc,        \* where execute_task is
  step,      \* the step of the plan it is at
  attempt,   \* the attempt of that step
  handoffs,  \* history: how often each step was handed off
  succeeded  \* history: the steps that returned a result

vars == <<plan, status, stored, results, pc, step, attempt, handoffs, succeeded>>

Steps == 1 .. Len(plan)

Nothing == [a \in Agents |-> 0]

PC == {"called", "step", "handedOff", "backoff", "completed", "deadLettered", "authError", "raised", "died"}

TypeOK ==
  /\ plan \in Plans
  /\ status \in {"LEASED", "RUNNING", "COMPLETED", "DEAD_LETTER"}
  /\ stored \in [Agents -> 0 .. Len(plan)]
  /\ results \in [Agents -> 0 .. Len(plan)]
  /\ pc \in PC
  /\ step \in 1 .. Len(plan) + 1
  /\ attempt \in 1 .. MaxRetries
  /\ handoffs \in [Steps -> 0 .. MaxRetries]
  /\ succeeded \subseteq Steps

\* What an earlier call for the row may have left: the first commit of a step is
\* the only one that writes.
LeftOver ==
  {Nothing} \cup {[Nothing EXCEPT ![plan[i]] = i] : i \in {j \in Steps : j = 1 /\ plan[j] \in Agents}}

Init ==
  /\ plan \in Plans
  /\ status = "LEASED"
  /\ stored \in LeftOver
  /\ results = Nothing
  /\ pc = "called"
  /\ step = 1
  /\ attempt = 1
  /\ handoffs = [i \in Steps |-> 0]
  /\ succeeded = {}

-----------------------------------------------------------------------------

\* The EAT does not verify: HandoffAuthorizationError, before the row is touched.
Unauthorized ==
  /\ pc = "called"
  /\ pc' = "raised"
  /\ UNCHANGED <<status, stored, results, step, attempt, handoffs, succeeded>>

Start ==
  /\ pc = "called"
  /\ status' = "RUNNING"
  /\ pc' = "step"
  /\ UNCHANGED <<stored, results, step, attempt, handoffs, succeeded>>

NoPlan ==
  /\ pc = "step" /\ plan = <<>>
  /\ status' = "DEAD_LETTER"
  /\ pc' = "deadLettered"
  /\ UNCHANGED <<stored, results, step, attempt, handoffs, succeeded>>

\* The agent and the command of a step are read, and earlier results put into the
\* command, outside the try and before the first attempt: an exception there (a
\* missing key, a value that is no string) leaves execute_task.  A step without an
\* agent always ends here; what else a step may lack is not told apart.
StepMalformed ==
  /\ pc = "step" /\ step \in Steps /\ attempt = 1
  /\ pc' = "raised"
  /\ UNCHANGED <<status, stored, results, step, attempt, handoffs, succeeded>>

AtStep == pc = "step" /\ step \in Steps /\ plan[step] \in Agents

\* The scopes of the EAT, and failing them the user's permission profile, are
\* checked before every attempt; a refusal is a permanent error.
StepDenied ==
  /\ AtStep
  /\ status' = "DEAD_LETTER"
  /\ stored' = results
  /\ pc' = "deadLettered"
  /\ UNCHANGED <<results, step, attempt, handoffs, succeeded>>

\* (mutant) A step that fails is skipped.
HandOffNext ==
  /\ AtStep
  /\ pc' = "handedOff"
  /\ \E i \in step .. Len(plan) :
       step' = i /\ handoffs' = [handoffs EXCEPT ![i] = @ + 1]
  /\ UNCHANGED <<status, stored, results, attempt, succeeded>>

HandOff ==
  /\ AtStep
  /\ pc' = "handedOff"
  /\ handoffs' = [handoffs EXCEPT ![step] = @ + 1]
  /\ UNCHANGED <<status, stored, results, step, attempt, succeeded>>

\* What the commit after a step writes: an empty column is assigned a new
\* dictionary, a column with results in it is changed in place and not written.
StoreStep(a, i) == IF stored = Nothing THEN [stored EXCEPT ![a] = i] ELSE stored

\* (mutant) The loop goes over the attempts that are left after a success.
StepOkNoBreak ==
  /\ pc = "handedOff"
  /\ results' = [results EXCEPT ![plan[step]] = step]
  /\ stored' = StoreStep(plan[step], step)
  /\ succeeded' = succeeded \cup {step}
  /\ step' = IF attempt = MaxRetries THEN step + 1 ELSE step
  /\ attempt' = IF attempt = MaxRetries THEN 1 ELSE attempt + 1
  /\ pc' = "step"
  /\ UNCHANGED <<status, handoffs>>

StepOk ==
  /\ pc = "handedOff"
  /\ results' = [results EXCEPT ![plan[step]] = step]
  /\ stored' = StoreStep(plan[step], step)
  /\ succeeded' = succeeded \cup {step}
  /\ step' = step + 1
  /\ attempt' = 1
  /\ pc' = "step"
  /\ UNCHANGED <<status, handoffs>>

\* The step succeeded and its result is kept, but the write to the swarm memory
\* raises: a permanent error.
StepUnrecorded ==
  /\ pc = "handedOff"
  /\ results' = [results EXCEPT ![plan[step]] = step]
  /\ succeeded' = succeeded \cup {step}
  /\ status' = "DEAD_LETTER"
  /\ stored' = results'
  /\ pc' = "deadLettered"
  /\ UNCHANGED <<step, attempt, handoffs>>

\* (mutant) The limit is checked after the attempt is counted.
RetryPastLimit ==
  /\ pc = "handedOff"
  /\ attempt' = attempt + 1
  /\ pc' = "step"
  /\ UNCHANGED <<status, stored, results, step, handoffs, succeeded>>

\* A transient error: back off, and try the same step again.
StepTransient ==
  /\ pc = "handedOff" /\ attempt < MaxRetries
  /\ pc' = "backoff"
  /\ UNCHANGED <<status, stored, results, step, attempt, handoffs, succeeded>>

\* (mutant) The attempt is not counted.
RetryForever ==
  /\ pc = "backoff"
  /\ pc' = "handedOff"
  /\ UNCHANGED <<status, stored, results, step, attempt, handoffs, succeeded>>

RetryStep ==
  /\ pc = "backoff"
  /\ attempt' = attempt + 1
  /\ pc' = "step"
  /\ UNCHANGED <<status, stored, results, step, handoffs, succeeded>>

\* A permanent error at once, or a transient one at the last attempt: the row is
\* dead-lettered with the results so far, and the rest of the plan is dropped.
StepFailed ==
  /\ pc = "handedOff"
  /\ status' = "DEAD_LETTER"
  /\ stored' = results
  /\ pc' = "deadLettered"
  /\ UNCHANGED <<results, step, attempt, handoffs, succeeded>>

\* An expired token or invalid credentials: an error is returned, the row stays.
StepAuthError ==
  /\ pc = "handedOff"
  /\ pc' = "authError"
  /\ UNCHANGED <<status, stored, results, step, attempt, handoffs, succeeded>>

\* (mutant) The final assignment of the results is missing.
CompleteAsStored ==
  /\ pc = "step" /\ plan # <<>> /\ step > Len(plan)
  /\ status' = "COMPLETED"
  /\ pc' = "completed"
  /\ UNCHANGED <<stored, results, step, attempt, handoffs, succeeded>>

\* (mutant) The last step is not waited for.
CompleteEarly ==
  /\ pc = "step" /\ plan # <<>> /\ step >= Len(plan)
  /\ status' = "COMPLETED"
  /\ stored' = results
  /\ pc' = "completed"
  /\ UNCHANGED <<results, step, attempt, handoffs, succeeded>>

Complete ==
  /\ pc = "step" /\ plan # <<>> /\ step > Len(plan)
  /\ status' = "COMPLETED"
  /\ stored' = results
  /\ pc' = "completed"
  /\ UNCHANGED <<results, step, attempt, handoffs, succeeded>>

Running == {"called", "step", "handedOff", "backoff"}

Die ==
  /\ pc \in Running
  /\ pc' = "died"
  /\ UNCHANGED <<status, stored, results, step, attempt, handoffs, succeeded>>

Proceed ==
  \/ Unauthorized \/ Start \/ NoPlan \/ StepMalformed \/ StepDenied \/ HandOff \/ StepOk \/ StepUnrecorded \/ StepTransient
  \/ RetryStep \/ StepFailed \/ StepAuthError \/ Complete

Next == (Proceed \/ Die) /\ UNCHANGED plan

Spec == Init /\ [][Next]_vars /\ WF_vars(Proceed /\ UNCHANGED plan)
-----------------------------------------------------------------------------
(* Properties *)

\* The step whose result an agent should be left with: its last that succeeded.
LastOf(a) ==
  IF \E i \in succeeded : plan[i] = a
  THEN CHOOSE i \in succeeded : plan[i] = a /\ \A j \in succeeded : plan[j] = a => j <= i
  ELSE 0

\* A step is handed off only when every step before it has succeeded, so the
\* results its command refers to are there.
StepsInOrder == \A i \in Steps : handoffs[i] > 0 => 1 .. i - 1 \subseteq succeeded

\* An agent is never asked again for a step it has done.
NoStepRepeated ==
  [][\A i \in Steps : i \in succeeded => handoffs'[i] = handoffs[i]]_vars

\* A row that is COMPLETED or DEAD_LETTER holds the last result of every agent
\* that answered, also of those the commits between the steps left out.
SettledRowHasResults ==
  status \in {"COMPLETED", "DEAD_LETTER"} => \A a \in Agents : stored[a] = LastOf(a)

\* A COMPLETED row has run its whole plan.
CompletedRanPlan == status = "COMPLETED" => succeeded = Steps

\* A run that is not killed settles its row, or raises and leaves that to the
\* worker, unless a credential failed.
RunSettles ==
  (status = "RUNNING") ~> (status \in {"COMPLETED", "DEAD_LETTER"} \/ pc \in {"authError", "raised", "died"})
=============================================================================
