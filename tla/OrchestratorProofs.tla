------------------------- MODULE OrchestratorProofs -------------------------
(***************************************************************************)
(* Proofs about a call of the orchestrator (MultiAgentRun), about the two  *)
(* components whose processes meet in nothing but rows of the database,    *)
(* provider credentials and semantic mappings, and about the three         *)
(* together (OrchestratorParts).                                           *)
(***************************************************************************)
EXTENDS OrchestratorParts, TLAPS

-----------------------------------------------------------------------------
(* The run: for every set of agents, every set of plans and every number   *)
(* of attempts.  The strengthening says where the loop is: the steps       *)
(* before the current one are those that succeeded, no later one was       *)
(* handed off, and the local results are the last of each agent; a row     *)
(* that is settled has them.                                               *)

\* result i is the last of agent a's steps that succeeded; 0: there is none.
IsLast(i, a) ==
  \/ i = 0 /\ \A j \in succeeded : plan[j] # a
  \/ i \in succeeded /\ plan[i] = a /\ \A j \in succeeded : plan[j] = a => j <= i

\* Where the loop is.
InLoop ==
  /\ \/ succeeded = 1 .. step - 1
     \/ pc = "deadLettered" /\ step \in Steps /\ succeeded = 1 .. step
  /\ \A i \in Steps : handoffs[i] > 0 => i <= step
  /\ pc = "called" => step = 1
  /\ pc \in {"handedOff", "backoff"} => step \in Steps /\ plan[step] \in Agents
  /\ pc \in {"called", "step"} /\ step \in Steps => handoffs[step] <= attempt - 1
  /\ pc \in {"handedOff", "backoff"} => handoffs[step] <= attempt
  /\ pc = "backoff" => attempt < MaxRetries

\* What the row holds once it is settled.
Settled ==
  /\ status = "COMPLETED" => pc = "completed" /\ succeeded = Steps
  /\ status = "DEAD_LETTER" => pc = "deadLettered"
  /\ status \in {"COMPLETED", "DEAD_LETTER"} => stored = results
  /\ plan = <<>> => stored = Nothing

ResultsAreLast == \A a \in Agents : IsLast(results[a], a)

RunInv == TypeOK /\ InLoop /\ Settled /\ ResultsAreLast

-----------------------------------------------------------------------------

LEMMA PlanLength == ASSUME TypeOK PROVE Len(plan) \in Nat /\ plan \in Seq(Agents \cup {NoAgent})
  BY RunAssumption DEF TypeOK

LEMMA StoreTyped ==
  ASSUME TypeOK, NEW a \in Agents, NEW i \in Steps
  PROVE StoreStep(a, i) \in [Agents -> 0 .. Len(plan)]
  BY PlanLength DEF TypeOK, StoreStep, Steps

\* The initial states satisfy the invariant.
LEMMA InitRunInv == Init => RunInv
<1> SUFFICES ASSUME Init PROVE RunInv
  OBVIOUS
<1>1. plan \in Seq(Agents \cup {NoAgent}) /\ Len(plan) \in Nat
  BY RunAssumption DEF Init
<1>2. Nothing \in [Agents -> 0 .. Len(plan)]
  BY <1>1 DEF Nothing
<1>3. ASSUME NEW i \in Steps, plan[i] \in Agents
      PROVE [Nothing EXCEPT ![plan[i]] = i] \in [Agents -> 0 .. Len(plan)]
  BY <1>1, <1>2, <1>3 DEF Steps
<1>4. stored \in [Agents -> 0 .. Len(plan)]
  BY <1>2, <1>3 DEF Init, LeftOver
<1>5. TypeOK
  BY <1>1, <1>2, <1>4, RunAssumption DEF Init, TypeOK, PC, Steps
<1>6. InLoop
  BY <1>1, RunAssumption DEF Init, InLoop, Steps
<1>7. plan = <<>> => stored = Nothing
  <2> HAVE plan = <<>>
  <2>1. Steps = {}
    BY DEF Steps
  <2> QED BY <2>1 DEF Init, LeftOver
<1>8. Settled
  BY <1>7 DEF Init, Settled
<1>9. ResultsAreLast
  BY DEF Init, ResultsAreLast, IsLast, Nothing
<1> QED BY <1>5, <1>6, <1>8, <1>9 DEF RunInv

\* A step of the loop keeps every variable in its type.
LEMMA StepTyped ==
  ASSUME RunInv, Next PROVE TypeOK'
<1>1. Len(plan) \in Nat /\ plan' = plan /\ Steps' = Steps
  BY PlanLength DEF RunInv, Next, Steps
<1>2. ASSUME NEW a \in Agents, NEW i \in Steps PROVE [results EXCEPT ![a] = i] \in [Agents -> 0 .. Len(plan)]
  BY <1>1 DEF RunInv, TypeOK, Steps
<1>3. CASE Unauthorized \/ Start \/ NoPlan \/ StepMalformed \/ StepDenied \/ StepTransient \/ StepFailed \/ StepAuthError \/ Complete \/ Die
  BY <1>1, <1>3 DEF RunInv, TypeOK, PC, Steps, Unauthorized, Start, NoPlan, StepMalformed, StepDenied, StepTransient, StepFailed, StepAuthError, Complete, Die
<1>4. CASE HandOff
  <2>1. step \in Steps /\ handoffs[step] + 1 \in 0 .. MaxRetries
    <3>1. pc = "step" /\ step \in Steps
      BY <1>4 DEF HandOff, AtStep
    <3>2. handoffs[step] \in 0 .. MaxRetries /\ attempt \in 1 .. MaxRetries
      BY <3>1 DEF RunInv, TypeOK
    <3>3. handoffs[step] <= attempt - 1
      BY <3>1 DEF RunInv, InLoop
    <3> QED BY <3>1, <3>2, <3>3, RunAssumption
  <2> QED BY <1>1, <1>4, <2>1 DEF RunInv, TypeOK, PC, Steps, HandOff
<1>5. CASE StepOk
  <2>1. step \in Steps /\ plan[step] \in Agents
    BY <1>5 DEF RunInv, InLoop, StepOk
  <2> QED BY <1>1, <1>2, <1>5, <2>1, StoreTyped, RunAssumption DEF RunInv, TypeOK, PC, Steps, StepOk
<1>6. CASE StepUnrecorded
  <2>1. step \in Steps /\ plan[step] \in Agents
    BY <1>6 DEF RunInv, InLoop, StepUnrecorded
  <2> QED BY <1>1, <1>2, <1>6, <2>1 DEF RunInv, TypeOK, PC, Steps, StepUnrecorded
<1>7. CASE RetryStep
  BY <1>1, <1>7, RunAssumption DEF RunInv, TypeOK, InLoop, PC, Steps, RetryStep
<1> QED BY <1>3, <1>4, <1>5, <1>6, <1>7 DEF Next, Proceed
\* Every step keeps the account of the loop.
LEMMA StepInLoop ==
  ASSUME RunInv, Next PROVE InLoop'
<1>1. Len(plan) \in Nat /\ plan' = plan /\ Steps' = Steps
  BY PlanLength DEF RunInv, Next, Steps
<1>2. step \in 1 .. Len(plan) + 1 /\ attempt \in 1 .. MaxRetries /\ handoffs \in [Steps -> 0 .. MaxRetries]
  BY DEF RunInv, TypeOK
<1>3. CASE Unauthorized \/ Start \/ NoPlan \/ StepMalformed \/ StepDenied \/ StepFailed \/ StepAuthError \/ Complete \/ Die
  BY <1>1, <1>2, <1>3 DEF RunInv, InLoop, Running, Unauthorized, Start, NoPlan, StepMalformed, StepDenied, StepFailed, StepAuthError, Complete, Die
<1>4. CASE HandOff
  <2>1. pc = "step" /\ step \in Steps /\ plan[step] \in Agents /\ pc' = "handedOff"
    BY <1>4 DEF HandOff, AtStep
  <2>2. succeeded = 1 .. step - 1 /\ handoffs[step] <= attempt - 1
    BY <2>1 DEF RunInv, InLoop
  <2>3. \A i \in Steps : handoffs'[i] = IF i = step THEN handoffs[step] + 1 ELSE handoffs[i]
    BY <1>2, <1>4, <2>1 DEF HandOff
  <2>4. step' = step /\ attempt' = attempt /\ succeeded' = succeeded
    BY <1>4 DEF HandOff
  <2> QED BY <1>1, <1>2, <2>1, <2>2, <2>3, <2>4 DEF RunInv, InLoop, Steps
<1>5. CASE StepOk
  <2>1. pc = "handedOff" /\ pc' = "step" /\ step' = step + 1 /\ attempt' = 1 /\ handoffs' = handoffs
    BY <1>5 DEF StepOk
  <2>2. succeeded = 1 .. step - 1 /\ step \in Steps /\ succeeded' = succeeded \cup {step}
    BY <1>5 DEF RunInv, InLoop, StepOk
  <2>3. succeeded' = 1 .. step' - 1
    BY <1>1, <1>2, <2>1, <2>2 DEF Steps
  <2>4. step' \in Steps => handoffs[step'] <= 0
    BY <1>1, <1>2, <2>1 DEF RunInv, InLoop, Steps
  <2> QED BY <1>1, <1>2, <2>1, <2>3, <2>4 DEF RunInv, InLoop, Steps
<1>6. CASE StepUnrecorded
  <2>1. step' = step /\ handoffs' = handoffs /\ pc' = "deadLettered"
    BY <1>6 DEF StepUnrecorded
  <2>2. step \in Steps /\ succeeded' = 1 .. step
    BY <1>1, <1>2, <1>6 DEF RunInv, InLoop, StepUnrecorded, Steps
  <2> QED BY <1>1, <2>1, <2>2 DEF RunInv, InLoop
<1>7. CASE StepTransient
  BY <1>1, <1>2, <1>7 DEF RunInv, InLoop, StepTransient
<1>8. CASE RetryStep
  BY <1>1, <1>2, <1>8 DEF RunInv, InLoop, RetryStep, Steps
<1> QED BY <1>3, <1>4, <1>5, <1>6, <1>7, <1>8 DEF Next, Proceed

\* Every step keeps what is said of a settled row.
LEMMA StepSettled ==
  ASSUME RunInv, Next PROVE Settled'
<1>1. Len(plan) \in Nat /\ plan' = plan /\ Steps' = Steps
  BY PlanLength DEF RunInv, Next, Steps
<1>2. CASE Unauthorized \/ Start \/ StepMalformed \/ HandOff \/ StepTransient \/ RetryStep \/ StepAuthError \/ Die
  BY <1>1, <1>2 DEF RunInv, Settled, AtStep, Running, Unauthorized, Start, StepMalformed, HandOff, StepTransient, RetryStep, StepAuthError, Die
<1>3. CASE NoPlan
  <2>1. Steps = {} /\ stored = Nothing
    BY <1>1, <1>3 DEF RunInv, Settled, NoPlan, Steps
  <2>2. results = Nothing
    BY <2>1, RunAssumption DEF RunInv, TypeOK, ResultsAreLast, IsLast, Nothing
  <2> QED BY <1>1, <1>3, <2>1, <2>2 DEF RunInv, Settled, NoPlan
<1>4. CASE StepOk
  <2>1. step \in Steps /\ plan # <<>>
    BY <1>1, <1>4 DEF RunInv, InLoop, StepOk, Steps
  <2> QED BY <1>1, <1>4, <2>1 DEF RunInv, Settled, StepOk
<1>5. CASE StepUnrecorded \/ StepDenied \/ StepFailed
  <2>1. plan # <<>>
    BY <1>1, <1>5 DEF RunInv, InLoop, Steps, StepUnrecorded, StepDenied, StepFailed, AtStep
  <2> QED BY <1>1, <1>5, <2>1 DEF RunInv, Settled, StepUnrecorded, StepDenied, StepFailed
<1>6. CASE Complete
  <2>1. step = Len(plan) + 1 /\ succeeded = Steps /\ plan # <<>>
    BY <1>1, <1>6 DEF RunInv, TypeOK, InLoop, Complete, Steps
  <2> QED BY <1>1, <1>6, <2>1 DEF RunInv, Settled, Complete
<1> QED BY <1>2, <1>3, <1>4, <1>5, <1>6 DEF Next, Proceed

\* Every step keeps the local results at the last of each agent.
LEMMA StepResults ==
  ASSUME RunInv, Next PROVE ResultsAreLast'
<1>1. Len(plan) \in Nat /\ plan' = plan
  BY PlanLength DEF RunInv, Next
<1>2. CASE StepOk \/ StepUnrecorded
  <2>1. step \in Steps /\ plan[step] \in Agents /\ succeeded = 1 .. step - 1
    BY <1>2 DEF RunInv, InLoop, StepOk, StepUnrecorded
  <2>2. succeeded' = succeeded \cup {step} /\ results' = [results EXCEPT ![plan[step]] = step]
    BY <1>2 DEF StepOk, StepUnrecorded
  <2>3. results \in [Agents -> 0 .. Len(plan)]
    BY DEF RunInv, TypeOK
  <2>4. step \in Int /\ \A j \in succeeded' : j \in Int /\ j <= step
    BY <1>1, <2>1, <2>2 DEF Steps
  <2>5. ASSUME NEW a \in Agents PROVE IsLast(results[a], a)'
    <3>1. CASE a = plan[step]
      BY <1>1, <2>1, <2>2, <2>3, <2>4, <3>1 DEF IsLast
    <3>2. CASE a # plan[step]
      <4>1. results'[a] = results[a] /\ IsLast(results[a], a)
        BY <2>2, <2>3, <3>2 DEF RunInv, ResultsAreLast
      <4> QED BY <1>1, <2>2, <3>2, <4>1 DEF IsLast
    <3> QED BY <3>1, <3>2
  <2> QED BY <2>5 DEF ResultsAreLast
<1>3. CASE ~(StepOk \/ StepUnrecorded)
  <2>1. results' = results /\ succeeded' = succeeded
    BY <1>3 DEF Next, Proceed, Unauthorized, Start, NoPlan, StepMalformed, StepDenied, HandOff, StepTransient, RetryStep, StepFailed, StepAuthError, Complete, Die
  <2> QED BY <1>1, <2>1 DEF RunInv, ResultsAreLast, IsLast
<1> QED BY <1>2, <1>3

LEMMA StutterRunInv == ASSUME RunInv, UNCHANGED vars PROVE RunInv'
BY DEF RunInv, TypeOK, InLoop, Settled, ResultsAreLast, IsLast, vars, Steps, Nothing

LEMMA RunInvStep == RunInv /\ [Next]_vars => RunInv'
BY StepTyped, StepInLoop, StepSettled, StepResults, StutterRunInv DEF RunInv

\* The strengthening holds of every run.
THEOREM RunInvariant == Spec => []RunInv
BY InitRunInv, RunInvStep, PTL DEF Spec

-----------------------------------------------------------------------------

\* Every reachable state of a run is well typed, for any plans and retries.
THEOREM RunTypeCorrect == Spec => []TypeOK
BY RunInvariant, PTL DEF RunInv

\* A step is handed off only when all steps before it have succeeded.
THEOREM StepsAreInOrder == Spec => []StepsInOrder
<1>1. RunInv => StepsInOrder
  <2> SUFFICES ASSUME RunInv, NEW i \in Steps, handoffs[i] > 0 PROVE 1 .. i - 1 \subseteq succeeded
    BY DEF StepsInOrder
  <2>1. i <= step /\ i \in Int /\ step \in Int
    BY PlanLength DEF RunInv, TypeOK, InLoop, Steps
  <2> QED BY <2>1 DEF RunInv, InLoop
<1> QED BY RunInvariant, <1>1, PTL

\* A completed row has run its whole plan.
THEOREM CompletedHasRunPlan == Spec => []CompletedRanPlan
<1>1. RunInv => CompletedRanPlan
  BY DEF RunInv, Settled, CompletedRanPlan
<1> QED BY RunInvariant, <1>1, PTL

\* What IsLast says is what the property means by the last result.
LEMMA LastIsUnique ==
  ASSUME RunInv, NEW a \in Agents PROVE results[a] = LastOf(a)
<1>1. IsLast(results[a], a)
  BY DEF RunInv, ResultsAreLast
<1>2. succeeded \subseteq Int
  BY PlanLength DEF RunInv, TypeOK, Steps
<1>3. CASE \A j \in succeeded : plan[j] # a
  BY <1>1, <1>3 DEF IsLast, LastOf
<1>4. CASE \E j \in succeeded : plan[j] = a
  <2> DEFINE P(i) == plan[i] = a /\ \A j \in succeeded : plan[j] = a => j <= i
  <2>1. results[a] \in succeeded /\ P(results[a])
    BY <1>1, <1>4 DEF IsLast
  <2>2. LastOf(a) = CHOOSE i \in succeeded : P(i)
    BY <1>4 DEF LastOf
  <2>3. LastOf(a) \in succeeded /\ P(LastOf(a))
    BY <2>1, <2>2
  <2>4. results[a] <= LastOf(a) /\ LastOf(a) <= results[a]
    BY <2>1, <2>3
  <2>5. results[a] \in Int /\ LastOf(a) \in Int
    BY <1>2, <2>1, <2>3
  <2> HIDE DEF P
  <2> QED BY <2>4, <2>5
<1> QED BY <1>3, <1>4

\* A settled row holds the last result of every agent that answered, although
\* the commits between the steps leave results out.
THEOREM SettledHasResults == Spec => []SettledRowHasResults
<1>1. RunInv => SettledRowHasResults
  BY LastIsUnique DEF RunInv, Settled, SettledRowHasResults
<1> QED BY RunInvariant, <1>1, PTL

\* No step is handed off again after it has succeeded.
THEOREM NoStepIsRepeated == Spec => NoStepRepeated
<1>1. ASSUME RunInv, [Next]_vars, NEW i \in Steps, i \in succeeded PROVE handoffs'[i] = handoffs[i]
  <2>1. CASE HandOff
    <3>1. pc = "step" /\ step \in Steps /\ handoffs' = [handoffs EXCEPT ![step] = @ + 1]
      BY <2>1 DEF HandOff, AtStep
    <3>2. i # step
      BY <1>1, <3>1, PlanLength DEF RunInv, InLoop, TypeOK, Steps
    <3> QED BY <1>1, <3>1, <3>2 DEF RunInv, TypeOK
  <2>2. CASE ~HandOff
    BY <1>1, <2>2 DEF vars, Next, Proceed, Unauthorized, Start, NoPlan, StepMalformed, StepDenied, StepOk, StepUnrecorded, StepTransient, RetryStep, StepFailed, StepAuthError, Complete, Die
  <2> QED BY <2>1, <2>2
<1>2. RunInv /\ [Next]_vars => [\A i \in Steps : i \in succeeded => handoffs'[i] = handoffs[i]]_vars
  BY <1>1
<1> QED BY RunInvariant, <1>2, PTL DEF Spec, NoStepRepeated

-----------------------------------------------------------------------------
(* GrantKept for any number of callers, rows and refresh tokens.  It rests *)
(* on tokens being used once: no two rows hold the same one, and one that  *)
(* is on its way to a row is nowhere else.                                 *)

Refreshing(c) == calls[c].at \in {"posting", "answered"}

\* No two rows hold the same token.
TokensDistinct ==
  \A r, q \in RowIds : rows[r].refresh # 0 /\ rows[r].refresh = rows[q].refresh => r = q

\* Every token was issued, and a caller sent the one of its row or one that no row has.
TokensIssued ==
  /\ \A r \in RowIds : rows[r].refresh <= newest
  /\ \A c \in Callers : calls[c].sent <= newest /\ (Refreshing(c) => calls[c].sent # 0)
  /\ \A c \in Callers, r \in RowIds :
       Refreshing(c) /\ rows[r].refresh # 0 /\ rows[r].refresh = calls[c].sent => r = calls[c].row

\* The token of an answer is accepted, and nobody else has it.
AnswersUnshared ==
  \A c \in Callers :
    /\ calls[c].got # 0 => calls[c].at = "answered" /\ calls[c].got \in accepted
    /\ calls[c].got # 0 => \A r \in RowIds : rows[r].refresh # calls[c].got
    /\ calls[c].got # 0 => \A d \in Callers : calls[d].sent # calls[c].got /\ (d # c => calls[d].got # calls[c].got)

GrantInv == CredentialsTypeOK /\ TokensDistinct /\ TokensIssued /\ AnswersUnshared /\ GrantKept

-----------------------------------------------------------------------------

LEMMA InitGrantInv == CredentialsInit => GrantInv
BY BoundAssumption DEF CredentialsInit, GrantInv, CredentialsTypeOK, TokensDistinct, TokensIssued, AnswersUnshared, GrantKept,
   Stored, NoRow, Row, Idle, Call, Tokens, RowIds, Refreshing

LEMMA Types ==
  ASSUME CredentialsTypeOK
  PROVE  /\ newest \in 0 .. MaxIssued
         /\ \A r \in RowIds : rows[r].exists \in BOOLEAN /\ rows[r].refresh \in 0 .. MaxIssued /\ rows[r].due \in BOOLEAN
         /\ \A c \in Callers : calls[c].row \in RowIds \cup {0} /\ calls[c].sent \in 0 .. MaxIssued /\ calls[c].got \in 0 .. MaxIssued
         /\ \A c \in Callers : calls[c].at \in {"idle", "posting", "answered", "saving"}
         /\ rows \in [RowIds -> Row] /\ calls \in [Callers -> Call]
BY BoundAssumption DEF CredentialsTypeOK, Row, Call, Tokens

\* Only the calls change, and no caller gets an answer.
LEMMA CallsOnly ==
  ASSUME GrantInv, NEW c \in Callers, NEW next \in Call,
         calls' = [calls EXCEPT ![c] = next], next.got = 0,
         UNCHANGED <<rows, newest, accepted>>,
         \/ next.sent = 0 /\ next.at \in {"idle", "saving"}
         \/ next.sent # 0 /\ next.at = "posting" /\ next.row \in RowIds /\ next.sent = rows[next.row].refresh,
         \/ UNCHANGED forfeited /\ (calls[c].at # "answered" \/ calls[c].got = 0)
         \/ forfeited' = forfeited \cup {calls[c].sent} /\ calls[c].sent \in 1 .. newest
  PROVE  GrantInv'
<1> USE DEF GrantInv
<1>1. CredentialsTypeOK'
  BY DEF CredentialsTypeOK
<1>2. calls'[c] = next /\ \A d \in Callers \ {c} : calls'[d] = calls[d]
  BY DEF CredentialsTypeOK
<1>3. TokensDistinct'
  BY DEF TokensDistinct
<1>4. next.sent <= newest
  BY Types DEF TokensIssued
<1>5. TokensIssued'
  <2>1. \A d \in Callers : calls'[d].sent <= newest /\ (Refreshing(d)' => calls'[d].sent # 0)
    BY <1>2, <1>4 DEF TokensIssued, Refreshing
  <2>2. ASSUME NEW d \in Callers, NEW r \in RowIds, Refreshing(d)', rows[r].refresh # 0, rows[r].refresh = calls'[d].sent
        PROVE  r = calls'[d].row
    <3>1. CASE d = c
      BY <1>2, <2>2, <3>1 DEF TokensDistinct
    <3>2. CASE d # c
      BY <1>2, <2>2, <3>2 DEF TokensIssued, Refreshing
    <3> QED BY <3>1, <3>2
  <2> QED BY <2>1, <2>2 DEF TokensIssued
<1>6. AnswersUnshared'
  <2> SUFFICES ASSUME NEW d \in Callers, calls'[d].got # 0
               PROVE  /\ calls'[d].at = "answered" /\ calls'[d].got \in accepted
                      /\ \A r \in RowIds : rows[r].refresh # calls'[d].got
                      /\ \A e \in Callers : calls'[e].sent # calls'[d].got /\ (e # d => calls'[e].got # calls'[d].got)
    BY DEF AnswersUnshared
  <2>1. d # c /\ calls'[d] = calls[d]
    BY <1>2
  <2>2. next.sent # calls[d].got
    BY <2>1 DEF AnswersUnshared
  <2> QED BY <1>2, <2>1, <2>2 DEF AnswersUnshared
<1>7. GrantKept'
  <2>1. InFlight \subseteq InFlight' \cup forfeited' /\ forfeited \subseteq forfeited'
    BY <1>2 DEF InFlight
  <2> QED BY <2>1 DEF GrantKept, Stored
<1> QED BY <1>1, <1>3, <1>5, <1>6, <1>7

\* A saved token was issued just now, or the row keeps none.
LEMMA SaveWriteKeeps ==
  ASSUME GrantInv, NEW c \in Callers, SaveWrite(c)
  PROVE  GrantInv'
<1> USE DEF GrantInv
<1>0. calls[c].at = "saving" /\ calls' = [calls EXCEPT ![c] = Idle] /\ forfeited' = forfeited
  BY DEF SaveWrite, Done
<1>1. CASE UNCHANGED <<rows, newest, accepted>>
  <2>1. calls[c].at # "answered"
    BY <1>0
  <2>2. Idle \in Call /\ Idle.got = 0 /\ Idle.sent = 0 /\ Idle.at = "idle"
    BY DEF Idle, Call
  <2> QED BY <1>0, <1>1, <2>1, <2>2, CallsOnly
<1>2. CASE \E r \in RowIds, new \in {0} \cup (Tokens \cap {newest + 1}), due \in BOOLEAN :
             /\ rows' = [rows EXCEPT ![r] = [exists |-> TRUE, refresh |-> new, due |-> due]]
             /\ newest' = IF new = 0 THEN newest ELSE new
             /\ accepted' = accepted \cup ({new} \ {0})
  <2> PICK r \in RowIds, new \in {0} \cup (Tokens \cap {newest + 1}), due \in BOOLEAN :
             /\ rows' = [rows EXCEPT ![r] = [exists |-> TRUE, refresh |-> new, due |-> due]]
             /\ newest' = IF new = 0 THEN newest ELSE new
             /\ accepted' = accepted \cup ({new} \ {0})
    BY <1>2
  <2>1. /\ calls'[c] = Idle /\ \A d \in Callers \ {c} : calls'[d] = calls[d]
        /\ rows'[r] = [exists |-> TRUE, refresh |-> new, due |-> due]
        /\ \A q \in RowIds \ {r} : rows'[q] = rows[q]
    BY <1>0 DEF CredentialsTypeOK
  <2>2. newest \in 0 .. MaxIssued /\ newest <= newest' /\ (new # 0 => new = newest + 1 /\ newest' = new)
    BY Types
  <2>3. CredentialsTypeOK'
    <3>1. rows' \in [RowIds -> Row]
      BY Types DEF CredentialsTypeOK, Row
    <3>2. calls' \in [Callers -> Call]
      BY <1>0 DEF CredentialsTypeOK, Idle, Call
    <3>3. newest' \in Tokens \cup {0} /\ accepted' \subseteq 1 .. newest' /\ forfeited' \subseteq 1 .. newest'
      BY <1>0, <2>2 DEF CredentialsTypeOK
    <3> QED BY <3>1, <3>2, <3>3 DEF CredentialsTypeOK
  <2>4. new # 0 => /\ \A q \in RowIds : rows[q].refresh # new
                   /\ \A d \in Callers : calls[d].sent # new /\ calls[d].got # new
    <3>1. \A q \in RowIds : rows[q].refresh \in Int /\ rows[q].refresh <= newest
      BY Types DEF TokensIssued
    <3>2. \A d \in Callers : calls[d].sent \in Int /\ calls[d].sent <= newest
      BY Types DEF TokensIssued
    <3>3. \A d \in Callers : calls[d].got # 0 => calls[d].got \in 1 .. newest
      BY DEF AnswersUnshared, CredentialsTypeOK
    <3> QED BY <2>2, <3>1, <3>2, <3>3
  <2>5. TokensDistinct'
    BY <2>1, <2>4 DEF TokensDistinct
  <2>6. TokensIssued'
    <3>1. \A q \in RowIds : rows'[q].refresh <= newest'
      BY <2>1, <2>2, Types DEF TokensIssued
    <3>2. \A d \in Callers : calls'[d].sent <= newest'
      BY <2>1, <2>2, Types DEF TokensIssued, Idle
    <3>3. \A d \in Callers : Refreshing(d)' => d # c /\ Refreshing(d) /\ calls'[d].sent # 0
      BY <2>1 DEF Refreshing, Idle, TokensIssued
    <3>4. \A d \in Callers, q \in RowIds :
            Refreshing(d)' /\ rows'[q].refresh # 0 /\ rows'[q].refresh = calls'[d].sent => q = calls'[d].row
      BY <2>1, <2>4, <3>3 DEF TokensIssued
    <3> QED BY <3>1, <3>2, <3>3, <3>4 DEF TokensIssued
  <2>7. AnswersUnshared'
    <3> SUFFICES ASSUME NEW d \in Callers, calls'[d].got # 0
                 PROVE  /\ calls'[d].at = "answered" /\ calls'[d].got \in accepted'
                        /\ \A q \in RowIds : rows'[q].refresh # calls'[d].got
                        /\ \A e \in Callers : calls'[e].sent # calls'[d].got /\ (e # d => calls'[e].got # calls'[d].got)
      BY DEF AnswersUnshared
    <3>1. d # c /\ calls'[d] = calls[d]
      BY <2>1 DEF Idle
    <3>2. \A q \in RowIds : rows'[q].refresh # calls[d].got
      BY <2>1, <2>4, <3>1 DEF AnswersUnshared
    <3> QED BY <2>1, <3>1, <3>2 DEF AnswersUnshared, Idle
  <2>8. GrantKept'
    <3>1. InFlight \subseteq InFlight'
      BY <1>0, <2>1 DEF InFlight
    <3>2. \A q \in Stored' : q # r => q \in Stored /\ rows'[q] = rows[q]
      BY <2>1 DEF Stored
    <3> QED BY <1>0, <2>1, <3>1, <3>2 DEF GrantKept, Stored
  <2> QED BY <2>3, <2>5, <2>6, <2>7, <2>8
<1>3. calls[c].row \in RowIds \cup {0}
  BY Types
<1> QED
  <2> SUFFICES ASSUME ~UNCHANGED <<rows, newest, accepted>> PROVE GrantInv'
    BY <1>1
  <2>1. PICK r \in IF calls[c].row = 0 THEN {x \in RowIds : \A y \in RowIds : y < x <=> rows[y] # NoRow} ELSE Stored \cap {calls[c].row} :
        \E new \in {0} \cup (Tokens \cap {newest + 1}), due \in BOOLEAN :
          /\ rows' = [rows EXCEPT ![r] = [exists |-> TRUE, refresh |-> new, due |-> due]]
          /\ newest' = IF new = 0 THEN newest ELSE new
          /\ accepted' = accepted \cup ({new} \ {0})
    BY DEF SaveWrite
  <2>2. r \in RowIds
    BY <2>1 DEF Stored
  <2> QED BY <1>2, <2>1, <2>2

\* Only rows change, and no row gets a token.
LEMMA RowsOnly ==
  ASSUME GrantInv, UNCHANGED <<newest, accepted, calls, forfeited>>, rows' \in [RowIds -> Row],
         \A r \in RowIds : \/ rows'[r].exists = rows[r].exists /\ rows'[r].refresh = rows[r].refresh
                           \/ rows'[r].refresh = 0
  PROVE  GrantInv'
<1> USE DEF GrantInv
<1>1. CredentialsTypeOK'
  BY DEF CredentialsTypeOK
<1>2. TokensDistinct'
  BY DEF TokensDistinct
<1>3. TokensIssued'
  BY Types DEF TokensIssued, Refreshing
<1>4. AnswersUnshared'
  BY DEF AnswersUnshared
<1>5. GrantKept'
  BY DEF GrantKept, Stored, InFlight
<1> QED BY <1>1, <1>2, <1>3, <1>4, <1>5

\* A provider that rotates takes the sent token back, which is then in flight.
LEMMA ProviderAnswersKeeps ==
  ASSUME GrantInv, NEW c \in Callers, ProviderAnswers(c)
  PROVE  GrantInv'
<1> USE DEF GrantInv
<1>0. calls[c].at = "posting" /\ calls[c].sent \in accepted /\ rows' = rows /\ forfeited' = forfeited
  BY DEF ProviderAnswers
<1>a. calls[c].got = 0
  BY <1>0 DEF AnswersUnshared
<1> DEFINE new == calls'[c].got
<1>1. /\ \A d \in Callers \ {c} : calls'[d] = calls[d]
      /\ calls'[c].at = "answered" /\ calls'[c].sent = calls[c].sent /\ calls'[c].row = calls[c].row
      /\ \/ new = 0 /\ UNCHANGED <<newest, accepted>>
         \/ /\ new = newest + 1 /\ newest < MaxIssued /\ newest' = new
            /\ accepted' = (accepted \ {calls[c].sent}) \cup {new}
  BY <1>0, <1>a, Types DEF ProviderAnswers, CredentialsTypeOK, Call
<1>2. newest \in 0 .. MaxIssued /\ newest <= newest' /\ newest' \in 0 .. MaxIssued /\ (new # 0 => new = newest + 1)
  BY <1>1, Types, BoundAssumption
<1>3. CredentialsTypeOK'
  <2>1. calls' \in [Callers -> Call]
    BY <1>2, Types, BoundAssumption DEF ProviderAnswers, CredentialsTypeOK, Call, Tokens
  <2>2. newest' \in Tokens \cup {0}
    BY <1>2, BoundAssumption DEF Tokens
  <2>3. accepted \subseteq 1 .. newest /\ 1 .. newest \subseteq 1 .. newest'
    BY <1>2 DEF CredentialsTypeOK
  <2>4. new # 0 => new \in 1 .. newest'
    BY <1>1, <1>2
  <2>5. accepted' \subseteq 1 .. newest' /\ forfeited' \subseteq 1 .. newest'
    <3>1. accepted' \subseteq accepted \cup (IF new = 0 THEN {} ELSE {new})
      BY <1>1, <1>2
    <3>2. accepted' \subseteq 1 .. newest'
      BY <2>3, <2>4, <3>1
    <3>3. forfeited' \subseteq 1 .. newest'
      BY <1>0, <2>3 DEF CredentialsTypeOK
    <3> QED BY <3>2, <3>3
  <2> QED BY <1>0, <2>1, <2>2, <2>5 DEF CredentialsTypeOK
<1>4. new # 0 => /\ \A q \in RowIds : rows[q].refresh # new
                 /\ \A d \in Callers : calls[d].sent # new /\ calls[d].got # new
  <2>1. \A q \in RowIds : rows[q].refresh \in Int /\ rows[q].refresh <= newest
    BY Types DEF TokensIssued
  <2>2. \A d \in Callers : calls[d].sent \in Int /\ calls[d].sent <= newest
    BY Types DEF TokensIssued
  <2>3. \A d \in Callers : calls[d].got # 0 => calls[d].got \in 1 .. newest
    BY DEF AnswersUnshared, CredentialsTypeOK
  <2> QED BY <1>2, <2>1, <2>2, <2>3
<1>5. TokensDistinct'
  BY <1>0 DEF TokensDistinct
<1>6. TokensIssued'
  <2>1. \A q \in RowIds : rows'[q].refresh <= newest'
    BY <1>0, <1>2, Types DEF TokensIssued
  <2>2. \A d \in Callers : calls'[d].sent = calls[d].sent /\ calls'[d].row = calls[d].row
    BY <1>1
  <2>3. \A d \in Callers : calls'[d].sent <= newest'
    BY <1>2, <2>2, Types DEF TokensIssued
  <2>4. \A d \in Callers : Refreshing(d)' => Refreshing(d) /\ calls'[d].sent # 0
    BY <1>0, <1>1 DEF Refreshing, TokensIssued
  <2> QED BY <1>0, <2>1, <2>2, <2>3, <2>4 DEF TokensIssued
<1>7. AnswersUnshared'
  <2> SUFFICES ASSUME NEW d \in Callers, calls'[d].got # 0
               PROVE  /\ calls'[d].at = "answered" /\ calls'[d].got \in accepted'
                      /\ \A q \in RowIds : rows'[q].refresh # calls'[d].got
                      /\ \A e \in Callers : calls'[e].sent # calls'[d].got /\ (e # d => calls'[e].got # calls'[d].got)
    BY DEF AnswersUnshared
  <2>1. \A e \in Callers : calls'[e].sent = calls[e].sent
    BY <1>1
  <2>2. CASE d = c
    BY <1>0, <1>1, <1>4, <2>1, <2>2
  <2>3. CASE d # c
    <3>1. calls'[d] = calls[d] /\ calls[d].got # calls[c].sent
      BY <1>1, <2>3 DEF AnswersUnshared
    <3>2. \A e \in Callers : e # d => calls'[e].got # calls[d].got
      BY <1>1, <1>4, <2>3, <3>1 DEF AnswersUnshared
    <3> QED BY <1>0, <1>1, <2>1, <3>1, <3>2 DEF AnswersUnshared
  <2> QED BY <2>2, <2>3
<1>8. GrantKept'
  <2>1. InFlight \subseteq InFlight'
    BY <1>0, <1>1 DEF InFlight
  <2>2. new # 0 => calls[c].sent \in InFlight'
    BY <1>1 DEF InFlight
  <2>3. accepted \subseteq accepted' \cup InFlight'
    BY <1>1, <1>2, <2>2
  <2> QED BY <1>0, <2>1, <2>3 DEF GrantKept, Stored
<1> QED BY <1>3, <1>5, <1>6, <1>7, <1>8

\* The only row that can hold the token sent is the one the answer is stored in.
LEMMA StoreRefreshedKeeps ==
  ASSUME GrantInv, NEW c \in Callers, StoreRefreshed(c)
  PROVE  GrantInv'
<1> USE DEF GrantInv
<1> DEFINE r == calls[c].row
           got == calls[c].got
<1>0. /\ calls[c].at = "answered" /\ r \in RowIds /\ rows[r].exists
      /\ UNCHANGED <<newest, accepted, forfeited>> /\ calls' = [calls EXCEPT ![c] = Idle]
  BY DEF StoreRefreshed, Stored, Done
<1>1. PICK expires \in BOOLEAN : rows' = [rows EXCEPT ![r] = Refreshed(@, got, expires)]
  BY DEF StoreRefreshed
<1>2. /\ calls'[c] = Idle /\ \A d \in Callers \ {c} : calls'[d] = calls[d]
      /\ \A q \in RowIds \ {r} : rows'[q] = rows[q]
      /\ rows'[r] \in Row /\ rows'[r].exists
      /\ rows'[r].refresh = IF got = 0 THEN rows[r].refresh ELSE got
  <2>1. calls'[c] = Idle /\ \A d \in Callers \ {c} : calls'[d] = calls[d]
    BY <1>0 DEF CredentialsTypeOK
  <2>2. rows[r] \in Row /\ got \in Tokens \cup {0}
    BY <1>0 DEF CredentialsTypeOK, Call
  <2>3. Refreshed(rows[r], got, expires) \in Row /\ Refreshed(rows[r], got, expires).exists
        /\ Refreshed(rows[r], got, expires).refresh = IF got = 0 THEN rows[r].refresh ELSE got
    BY <1>0, <2>2 DEF Refreshed, Row
  <2>4. rows'[r] = Refreshed(rows[r], got, expires) /\ \A q \in RowIds \ {r} : rows'[q] = rows[q]
    BY <1>0, <1>1 DEF CredentialsTypeOK
  <2> QED BY <2>1, <2>3, <2>4
<1>3. CredentialsTypeOK'
  <2>1. rows' \in [RowIds -> Row]
    BY <1>1, <1>2, Types
  <2>2. calls' \in [Callers -> Call]
    BY <1>0 DEF CredentialsTypeOK, Idle, Call
  <2> QED BY <1>0, <2>1, <2>2 DEF CredentialsTypeOK
<1>4. got # 0 => /\ \A q \in RowIds : rows[q].refresh # got
                 /\ \A d \in Callers : calls[d].sent # got /\ (d # c => calls[d].got # got)
                 /\ got \in accepted
  BY DEF AnswersUnshared
<1>5. TokensDistinct'
  BY <1>2, <1>4 DEF TokensDistinct
<1>6. TokensIssued'
  <2>1. got # 0 => got <= newest
    BY <1>4, Types DEF CredentialsTypeOK
  <2>2. \A q \in RowIds : rows'[q].refresh <= newest'
    BY <1>0, <1>2, <2>1, Types DEF TokensIssued
  <2>3. \A d \in Callers : calls'[d].sent <= newest'
    BY <1>0, <1>2, Types DEF TokensIssued, Idle
  <2>4. \A d \in Callers : Refreshing(d)' => d # c /\ Refreshing(d) /\ calls'[d].sent # 0
    BY <1>2 DEF Refreshing, Idle, TokensIssued
  <2>5. \A d \in Callers, q \in RowIds :
          Refreshing(d)' /\ rows'[q].refresh # 0 /\ rows'[q].refresh = calls'[d].sent => q = calls'[d].row
    BY <1>2, <1>4, <2>4 DEF TokensIssued
  <2> QED BY <2>2, <2>3, <2>4, <2>5 DEF TokensIssued
<1>7. AnswersUnshared'
  <2> SUFFICES ASSUME NEW d \in Callers, calls'[d].got # 0
               PROVE  /\ calls'[d].at = "answered" /\ calls'[d].got \in accepted'
                      /\ \A q \in RowIds : rows'[q].refresh # calls'[d].got
                      /\ \A e \in Callers : calls'[e].sent # calls'[d].got /\ (e # d => calls'[e].got # calls'[d].got)
    BY DEF AnswersUnshared
  <2>1. d # c /\ calls'[d] = calls[d]
    BY <1>2 DEF Idle
  <2>2. \A q \in RowIds : rows'[q].refresh # calls[d].got
    BY <1>2, <1>4, <2>1 DEF AnswersUnshared
  <2> QED BY <1>0, <1>2, <2>1, <2>2 DEF AnswersUnshared, Idle
<1>8. GrantKept'
  <2>1. \A q \in Stored' : q \in Stored
    BY <1>0, <1>2 DEF Stored
  <2>2. InFlight \subseteq InFlight' \cup (IF got = 0 THEN {} ELSE {calls[c].sent})
    BY <1>0, <1>2 DEF InFlight
  <2>3. \A q \in RowIds \ {r} : rows[q].refresh # 0 => rows[q].refresh # calls[c].sent
    BY <1>0 DEF TokensIssued, Refreshing
  <2>4. \A q \in Stored \ {r} : rows[q].refresh \in accepted \cup InFlight' \cup forfeited \cup {0}
    BY <2>2, <2>3 DEF GrantKept, Stored
  <2>5. rows'[r].refresh \in accepted \cup InFlight' \cup forfeited \cup {0}
    BY <1>0, <1>2, <1>4, <2>2 DEF GrantKept, Stored
  <2> QED BY <1>0, <1>2, <2>1, <2>4, <2>5 DEF GrantKept, Stored
<1> QED BY <1>3, <1>5, <1>6, <1>7, <1>8

LEMMA GrantInvStep == GrantInv /\ [CredentialsNext]_credentialVars => GrantInv'
<1> SUFFICES ASSUME GrantInv, [CredentialsNext]_credentialVars PROVE GrantInv'
  OBVIOUS
<1> USE DEF GrantInv
<1>1. ASSUME NEW c \in Callers, SaveRead(c) PROVE GrantInv'
  <2>1. PICK r \in Found : calls' = [calls EXCEPT ![c] = [Idle EXCEPT !.at = "saving", !.row = r]]
    BY <1>1 DEF SaveRead
  <2> DEFINE next == [Idle EXCEPT !.at = "saving", !.row = r]
  <2>2. next \in Call /\ next.got = 0 /\ next.sent = 0 /\ next.at = "saving"
    BY DEF Idle, Call, Found, Stored
  <2> HIDE DEF next
  <2> QED BY <1>1, <2>1, <2>2, CallsOnly DEF SaveRead, next
<1>2. ASSUME NEW c \in Callers, GetActiveToken(c) PROVE GrantInv'
  <2>1. PICK r \in Stored : /\ rows[r].refresh # 0
                           /\ calls' = [calls EXCEPT ![c] = [Idle EXCEPT !.at = "posting", !.row = r, !.sent = rows[r].refresh]]
    BY <1>2 DEF GetActiveToken
  <2> DEFINE next == [Idle EXCEPT !.at = "posting", !.row = r, !.sent = rows[r].refresh]
  <2>2. next \in Call /\ next.got = 0 /\ next.at = "posting" /\ next.row \in RowIds
       /\ next.sent # 0 /\ next.sent = rows[next.row].refresh
    <3>1. r \in RowIds /\ rows[r].refresh \in Tokens \cup {0} /\ rows[r].refresh # 0
      BY <2>1 DEF Stored, CredentialsTypeOK, Row
    <3> QED BY <3>1 DEF Idle, Call
  <2> HIDE DEF next
  <2> QED BY <1>2, <2>1, <2>2, CallsOnly DEF GetActiveToken, next
<1>3. Idle \in Call /\ Idle.got = 0 /\ Idle.sent = 0 /\ Idle.at = "idle"
  BY DEF Idle, Call
<1>4. ASSUME NEW c \in Callers, NotRefreshed(c) PROVE GrantInv'
  BY <1>3, <1>4, CallsOnly DEF NotRefreshed, Done
<1>5. ASSUME NEW c \in Callers, AnswerLost(c) PROVE GrantInv'
  <2>1. CASE calls[c].got = 0
    BY <1>3, <1>5, <2>1, CallsOnly DEF AnswerLost, Done
  <2>2. CASE calls[c].got # 0
    <3>1. calls[c].sent \in 1 .. newest
      BY <1>5, Types DEF AnswerLost, TokensIssued, Refreshing
    <3> QED BY <1>3, <1>5, <2>2, <3>1, CallsOnly DEF AnswerLost, Done
  <2> QED BY <2>1, <2>2
<1>6. ASSUME NEW c \in Callers, Delete(c) PROVE GrantInv'
  <2>1. PICK r \in Stored : rows' = [rows EXCEPT ![r] = [exists |-> FALSE, refresh |-> 0, due |-> TRUE]]
    BY <1>6 DEF Delete
  <2>2. rows' \in [RowIds -> Row]
    BY <2>1, Types DEF Row
  <2>3. \A q \in RowIds : rows'[q] = rows[q] \/ rows'[q].refresh = 0
    BY <2>1, Types
  <2> QED BY <1>6, <2>2, <2>3, RowsOnly DEF Delete
<1>7. ASSUME NEW r \in RowIds, ExpiryNears(r) PROVE GrantInv'
  <2>1. rows' \in [RowIds -> Row] /\ \A q \in RowIds : rows'[q].exists = rows[q].exists /\ rows'[q].refresh = rows[q].refresh
    BY <1>7, Types DEF ExpiryNears, Row
  <2> QED BY <1>7, <2>1, RowsOnly DEF ExpiryNears
<1>8. CASE UNCHANGED credentialVars
  BY <1>8, RowsOnly, Types DEF credentialVars
<1> QED
  BY <1>1, <1>2, <1>4, <1>5, <1>6, <1>7, <1>8, SaveWriteKeeps, ProviderAnswersKeeps, StoreRefreshedKeeps DEF CredentialsNext

\* Reachable states of the credential store are well typed.
THEOREM CredentialsTypeCorrect == CredentialsSpec => []CredentialsTypeOK
<1>1. GrantInv => CredentialsTypeOK
  BY DEF GrantInv
<1> QED BY <1>1, InitGrantInv, GrantInvStep, PTL DEF CredentialsSpec

\* refresh_oauth_token: unless an answer is lost, a stored refresh token is one
\* the provider takes or its successor is on its way, for any number of callers,
\* rows and tokens.
THEOREM GrantIsKept == CredentialsSpec => []GrantKept
<1>1. GrantInv => GrantKept
  BY DEF GrantInv
<1> QED BY <1>1, InitGrantInv, GrantInvStep, PTL DEF CredentialsSpec

-----------------------------------------------------------------------------
(* HealedIsMapped for any fields, servers and rows.  What has once been    *)
(* learned is mapped or recorded as overwritten, whoever commits; so what  *)
(* a repair loop has handled stays learned until its own commit.           *)

Learned == Mapped \cup overwritten

HandledIsLearned == \A s \in Servers : work[s].done \subseteq Learned

RepairInv == MappingTypeOK /\ HandledIsLearned /\ HealedIsMapped

-----------------------------------------------------------------------------

LEMMA InitRepairInv == MappingInit => RepairInv
<1> SUFFICES ASSUME MappingInit PROVE RepairInv
  OBVIOUS
<1>1. PICK first \in {NoMapping, [exists |-> TRUE, fields |-> {}]} :
        mappings = [m \in MappingIds |-> IF m = 1 THEN first ELSE NoMapping]
  BY DEF MappingInit
<1>2. mappings \in [MappingIds -> Mapping]
  <2>1. NoMapping \in Mapping /\ [exists |-> TRUE, fields |-> {}] \in Mapping
    BY DEF Mapping, NoMapping
  <2>2. first \in Mapping
    BY <2>1
  <2> QED BY <1>1, <2>1, <2>2
<1>3. failures \in [Fields -> Failure]
  BY DEF MappingInit, Failure, Bands
<1>4. work \in [Servers -> Work] /\ \A s \in Servers : work[s].done = {}
  BY DEF MappingInit, Work, NoWork
<1> QED BY <1>2, <1>3, <1>4 DEF MappingInit, RepairInv, MappingTypeOK, HandledIsLearned, HealedIsMapped

\* A commit adds its fields, and what it drops is overwritten.
LEMMA WrittenLearns ==
  ASSUME MappingTypeOK, NEW row \in MappingIds \cup {0}, NEW seen \in SUBSET Fields, NEW fields \in SUBSET Fields,
         Written(row, seen, fields)
  PROVE  /\ mappings' \in [MappingIds -> Mapping] /\ overwritten' \subseteq Fields
         /\ Learned \cup fields \subseteq Learned'
<1> PICK m \in MappingIds : /\ mappings' = [mappings EXCEPT ![m] = [exists |-> TRUE, fields |-> seen \cup fields]]
                            /\ overwritten' = (overwritten \cup (mappings[m].fields \ seen)) \ fields
  BY DEF Written
<1>1. \A x \in MappingIds : mappings[x].exists \in BOOLEAN /\ mappings[x].fields \subseteq Fields
  BY DEF MappingTypeOK, Mapping
<1>2. /\ mappings'[m].exists /\ mappings'[m].fields = seen \cup fields
      /\ \A x \in MappingIds \ {m} : mappings'[x] = mappings[x]
  BY DEF MappingTypeOK
<1>3. mappings' \in [MappingIds -> Mapping]
  BY DEF MappingTypeOK, Mapping
<1>4. overwritten' \subseteq Fields
  BY <1>1 DEF MappingTypeOK
<1>5. seen \cup fields \subseteq Mapped'
  BY <1>2 DEF Mapped, Active
<1>6. ASSUME NEW f \in Mapped PROVE f \in Learned'
  <2>1. PICK x \in MappingIds : mappings[x].exists /\ f \in mappings[x].fields
    BY <1>6 DEF Mapped, Active
  <2>2. CASE x = m
    BY <1>5, <2>1, <2>2 DEF Learned
  <2>3. CASE x # m
    BY <1>2, <2>1, <2>3 DEF Learned, Mapped, Active
  <2> QED BY <2>2, <2>3
<1>7. overwritten \subseteq Learned'
  BY <1>5 DEF Learned
<1> QED BY <1>3, <1>4, <1>5, <1>6, <1>7 DEF Learned

\* A step of one server that marks nothing as healed by itself: it keeps what was
\* learned, and has handled nothing that is not.
LEMMA ServerStep ==
  ASSUME RepairInv, NEW s \in Servers, NEW next \in Work,
         mappings' \in [MappingIds -> Mapping], failures' \in [Fields -> Failure],
         work' = [work EXCEPT ![s] = next],
         overwritten' \subseteq Fields, Learned \subseteq Learned',
         next.done \subseteq Learned', healed' \subseteq healed \cup work[s].done
  PROVE  RepairInv'
<1> USE DEF RepairInv
<1>1. work' \in [Servers -> Work] /\ work'[s] = next /\ \A t \in Servers \ {s} : work'[t] = work[t]
  BY DEF MappingTypeOK
<1>2. work[s].done \subseteq Fields
  BY DEF MappingTypeOK, Work
<1>3. MappingTypeOK'
  BY <1>1, <1>2 DEF MappingTypeOK
<1>4. HandledIsLearned'
  BY <1>1 DEF HandledIsLearned
<1>5. HealedIsMapped'
  BY DEF HealedIsMapped, HandledIsLearned, Learned
<1> QED BY <1>3, <1>4, <1>5

LEMMA WorkTyped ==
  ASSUME MappingTypeOK
  PROVE  /\ mappings \in [MappingIds -> Mapping] /\ failures \in [Fields -> Failure] /\ overwritten \subseteq Fields
         /\ NoWork \in Work /\ NoWork.done = {}
         /\ \A s \in Servers : /\ work[s] \in Work
                               /\ work[s].todo \subseteq Fields /\ work[s].done \subseteq Fields
                               /\ work[s].row \in MappingIds \cup {0} /\ work[s].seen \subseteq Fields
         /\ \A read \in Readings : read[1] \in MappingIds \cup {0} /\ read[2] \subseteq Fields
BY DEF MappingTypeOK, Work, NoWork, Readings, Active, Mapping

LEMMA RepairInvStep == RepairInv /\ [MappingNext]_mappingVars => RepairInv'
<1> SUFFICES ASSUME RepairInv, [MappingNext]_mappingVars PROVE RepairInv'
  OBVIOUS
<1>0. MappingTypeOK /\ HandledIsLearned
  BY DEF RepairInv
<1>a. UNCHANGED <<mappings, overwritten>> => Learned' = Learned
  BY DEF Learned, Mapped, Active
<1>1. ASSUME NEW s \in Servers, TranslationFails(s) PROVE RepairInv'
  <2>1. PICK fs \in SUBSET Fields, read \in Readings :
          work' = [work EXCEPT ![s] = [at |-> "translating", todo |-> fs, done |-> {}, row |-> read[1], seen |-> read[2]]]
    BY <1>1 DEF TranslationFails
  <2> DEFINE next == [at |-> "translating", todo |-> fs, done |-> {}, row |-> read[1], seen |-> read[2]]
  <2>2. next \in Work /\ next.done = {}
    BY <1>0, WorkTyped DEF Work
  <2>3. work' = [work EXCEPT ![s] = next]
    BY <2>1
  <2> HIDE DEF next
  <2> QED BY <1>0, <1>a, <1>1, <2>2, <2>3, WorkTyped, ServerStep DEF TranslationFails
<1>2. ASSUME NEW s \in Servers, ApplySuggestions(s) PROVE RepairInv'
  <2> DEFINE sure == {f \in work[s].todo : failures[f].band = "sure"} \ Foreign
  <2>1. failures' \in [Fields -> Failure]
    <3>1. \A f \in Fields : [failures[f] EXCEPT !.logged = TRUE, !.applied = @ \/ f \in sure] \in Failure
      BY <1>0 DEF MappingTypeOK, Failure
    <3> QED BY <1>0, <1>2, <3>1, WorkTyped DEF ApplySuggestions
  <2>2. mappings' \in [MappingIds -> Mapping] /\ overwritten' \subseteq Fields /\ Learned \subseteq Learned'
    <3>1. CASE sure # {} /\ work[s].seen = {}
      <4>1. PICK f \in sure : Written(work[s].row, {}, {f})
        BY <1>2, <3>1 DEF ApplySuggestions
      <4>2. {f} \in SUBSET Fields /\ {} \in SUBSET Fields
        BY <1>0, WorkTyped
      <4> QED BY <1>0, <4>1, <4>2, WorkTyped, WrittenLearns
    <3>2. CASE ~(sure # {} /\ work[s].seen = {})
      BY <1>0, <1>a, <1>2, <3>2, WorkTyped DEF ApplySuggestions, InPlace
    <3> QED BY <3>1, <3>2
  <2> QED BY <1>0, <1>2, <2>1, <2>2, WorkTyped, ServerStep DEF ApplySuggestions
<1>3. ASSUME NEW s \in Servers, CorrectRead(s) PROVE RepairInv'
  <2>1. PICK f \in Fields, read \in Readings :
          work' = [work EXCEPT ![s] = [at |-> "correcting", todo |-> {f}, done |-> {}, row |-> read[1], seen |-> read[2]]]
    BY <1>3 DEF CorrectRead
  <2> DEFINE next == [at |-> "correcting", todo |-> {f}, done |-> {}, row |-> read[1], seen |-> read[2]]
  <2>2. next \in Work /\ next.done = {}
    BY <1>0, WorkTyped DEF Work
  <2>3. work' = [work EXCEPT ![s] = next]
    BY <2>1
  <2> HIDE DEF next
  <2> QED BY <1>0, <1>a, <1>3, <2>2, <2>3, WorkTyped, ServerStep DEF CorrectRead
<1>4. ASSUME NEW s \in Servers, CorrectCommit(s) PROVE RepairInv'
  <2>1. failures' \in [Fields -> Failure]
    <3>1. \A f \in Fields : [failures[f] EXCEPT !.applied = TRUE] \in Failure
      BY <1>0 DEF MappingTypeOK, Failure
    <3> QED BY <1>0, <1>4, <3>1, WorkTyped DEF CorrectCommit
  <2>2. mappings' \in [MappingIds -> Mapping] /\ overwritten' \subseteq Fields /\ Learned \subseteq Learned'
    <3>1. CASE work[s].seen = {}
      <4>1. Written(work[s].row, {}, work[s].todo) /\ {} \in SUBSET Fields
        BY <1>4, <3>1 DEF CorrectCommit
      <4> QED BY <1>0, <4>1, WorkTyped, WrittenLearns
    <3>2. CASE work[s].seen # {}
      BY <1>0, <1>a, <1>4, <3>2, WorkTyped DEF CorrectCommit, InPlace
    <3> QED BY <3>1, <3>2
  <2> QED BY <1>0, <1>4, <2>1, <2>2, WorkTyped, ServerStep DEF CorrectCommit
<1>5. ASSUME NEW s \in Servers, HealStart(s) PROVE RepairInv'
  <2>1. PICK eligible \in SUBSET Fields : work' = [work EXCEPT ![s] = [NoWork EXCEPT !.at = "healing", !.todo = eligible]]
    BY <1>5 DEF HealStart
  <2> DEFINE next == [NoWork EXCEPT !.at = "healing", !.todo = eligible]
  <2>2. next \in Work /\ next.done = {}
    BY DEF Work, NoWork
  <2>3. work' = [work EXCEPT ![s] = next]
    BY <2>1
  <2> HIDE DEF next
  <2> QED BY <1>0, <1>a, <1>5, <2>2, <2>3, WorkTyped, ServerStep DEF HealStart
<1>6. ASSUME NEW s \in Servers, HealRead(s) PROVE RepairInv'
  <2>1. PICK read \in Readings : work' = [work EXCEPT ![s].at = "updating", ![s].row = read[1], ![s].seen = read[2]]
    BY <1>6 DEF HealRead
  <2> DEFINE next == [work[s] EXCEPT !.at = "updating", !.row = read[1], !.seen = read[2]]
  <2>2. next \in Work /\ next.done = work[s].done
    BY <1>0, WorkTyped DEF Work
  <2>3. work' = [work EXCEPT ![s] = next]
    BY <1>0, <2>1, WorkTyped DEF MappingTypeOK
  <2>4. work[s].done \subseteq Learned
    BY <1>0 DEF HandledIsLearned
  <2> HIDE DEF next
  <2> QED BY <1>0, <1>a, <1>6, <2>2, <2>3, <2>4, WorkTyped, ServerStep DEF HealRead
<1>7. ASSUME NEW s \in Servers, HealUpdate(s) PROVE RepairInv'
  <2>1. PICK f \in work[s].todo \ Foreign :
          /\ Written(work[s].row, work[s].seen, {f})
          /\ work' = [work EXCEPT ![s] = [NoWork EXCEPT !.at = "healing", !.todo = work[s].todo \ {f},
                                                        !.done = work[s].done \cup {f}]]
    BY <1>7 DEF HealUpdate, UpdateMapping
  <2> DEFINE next == [NoWork EXCEPT !.at = "healing", !.todo = work[s].todo \ {f}, !.done = work[s].done \cup {f}]
  <2>2. f \in Fields /\ {f} \in SUBSET Fields /\ work[s].seen \in SUBSET Fields
    BY <1>0, WorkTyped
  <2>3. mappings' \in [MappingIds -> Mapping] /\ overwritten' \subseteq Fields /\ Learned \cup {f} \subseteq Learned'
    BY <1>0, <2>1, <2>2, WorkTyped, WrittenLearns
  <2>4. next \in Work /\ next.done = work[s].done \cup {f}
    BY <1>0, <2>2, WorkTyped DEF Work, NoWork
  <2>5. next.done \subseteq Learned'
    BY <1>0, <2>3, <2>4 DEF HandledIsLearned
  <2>6. work' = [work EXCEPT ![s] = next]
    BY <2>1
  <2> HIDE DEF next
  <2> QED BY <1>0, <1>7, <2>3, <2>4, <2>5, <2>6, WorkTyped, ServerStep DEF HealUpdate
<1>8. ASSUME NEW s \in Servers, HealAborted(s) PROVE RepairInv'
  BY <1>0, <1>a, <1>8, WorkTyped, ServerStep DEF HealAborted
<1>9. ASSUME NEW s \in Servers, HealCommit(s) PROVE RepairInv'
  <2>1. failures' \in [Fields -> Failure]
    <3>1. \A f \in Fields : [failures[f] EXCEPT !.applied = TRUE] \in Failure
      BY <1>0 DEF MappingTypeOK, Failure
    <3> QED BY <1>0, <1>9, <3>1, WorkTyped DEF HealCommit
  <2> QED BY <1>0, <1>a, <1>9, <2>1, WorkTyped, ServerStep DEF HealCommit
<1>10. CASE UNCHANGED mappingVars
  BY <1>10 DEF mappingVars, RepairInv, MappingTypeOK, HandledIsLearned, HealedIsMapped, Learned, Mapped, Active
<1> QED BY <1>1, <1>2, <1>3, <1>4, <1>5, <1>6, <1>7, <1>8, <1>9, <1>10 DEF MappingNext

\* Reachable states of the mappings and their failures are well typed.
THEOREM MappingTypeCorrect == MappingSpec => []MappingTypeOK
<1>1. RepairInv => MappingTypeOK
  BY DEF RepairInv
<1> QED BY <1>1, InitRepairInv, RepairInvStep, PTL DEF MappingSpec

\* repair_loop commits its flags after the mappings and in another session, and it
\* may be cut short: what it has marked as applied is mapped, for any number of
\* servers, unless one that had read the row earlier wrote it since.
THEOREM HealedStaysMapped == MappingSpec => []HealedIsMapped
<1>1. RepairInv => HealedIsMapped
  BY DEF RepairInv
<1> QED BY <1>1, InitRepairInv, RepairInvStep, PTL DEF MappingSpec

-----------------------------------------------------------------------------
(* The three together *)

PartsInv == RunInv /\ GrantInv /\ RepairInv

LEMMA PartsStep == PartsInv /\ [PartsNext]_partVars => PartsInv'
<1> SUFFICES ASSUME PartsInv, [PartsNext]_partVars PROVE PartsInv'
  OBVIOUS
<1>1. [Next]_vars
  BY DEF PartsNext, RunMoves, CredentialMoves, MappingMoves, partVars
<1>2. [CredentialsNext]_credentialVars
  BY DEF PartsNext, RunMoves, CredentialMoves, MappingMoves, partVars
<1>3. [MappingNext]_mappingVars
  BY DEF PartsNext, RunMoves, CredentialMoves, MappingMoves, partVars
<1> QED BY <1>1, <1>2, <1>3, RunInvStep, GrantInvStep, RepairInvStep DEF PartsInv

\* Every variable of the three keeps its type, however their steps interleave.
THEOREM PartsTypeCorrect == PartsSpec => []PartsTypeOK
<1>1. PartsInit => PartsInv
  BY InitRunInv, InitGrantInv, InitRepairInv DEF PartsInit, PartsInv
<1>2. PartsInv => PartsTypeOK
  BY DEF PartsInv, PartsTypeOK, RunInv, GrantInv, RepairInv
<1> QED BY <1>1, <1>2, PartsStep, PTL DEF PartsSpec
=============================================================================
