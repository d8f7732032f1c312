--------------------------- MODULE JobLifecycle ---------------------------
(***************************************************************************)
(* What a lease-based queue promises about its jobs: a job is worked on at *)
(* most MaxTries times, one worker at a time, what it produces is sent     *)
(* once, and a settled job stays settled.  TaskQueue implements it as long *)
(* as no worker outlives its lease.  Several jobs may move in one step:    *)
(* when time passes, every lease that runs out hands its job back.         *)
(***************************************************************************)
EXTENDS Integers

CONSTANTS Jobs, MaxTries

VARIABLES
  phase,     \* where each job is
  tries,     \* how often a worker has taken it
  sent       \* how many messages it has produced

jobVars == <<phase, tries, sent>>

Phase == {"none", "waiting", "working", "done", "failed", "lost"}

JobInit ==
  /\ phase = [j \in Jobs |-> "none"]
  /\ tries = [j \in Jobs |-> 0]
  /\ sent = [j \in Jobs |-> 0]

\* One job moves from one phase to another.
Moves(j, from, to) == phase[j] = from /\ phase'[j] = to

Submit(j) == Moves(j, "none", "waiting") /\ tries'[j] = tries[j] /\ sent'[j] = sent[j]

Take(j) ==
  /\ Moves(j, "waiting", "working")
  /\ tries[j] < MaxTries[j] /\ tries'[j] = tries[j] + 1
  /\ sent'[j] = sent[j]

\* The try failed, or its worker was lost, and there is another one to come.
Return(j) ==
  /\ Moves(j, "working", "waiting")
  /\ tries[j] < MaxTries[j] /\ tries'[j] = tries[j]
  /\ sent'[j] = sent[j]

\* The job is done or given up, and its message, if it sends one, is sent.
Settle(j) ==
  /\ Moves(j, "working", "done") \/ Moves(j, "working", "failed")
  /\ tries'[j] = tries[j]
  /\ sent'[j] \in {sent[j], sent[j] + 1}

\* The worker of the last try was lost: nobody will take the job again.
Lose(j) ==
  /\ Moves(j, "working", "lost")
  /\ tries[j] = MaxTries[j] /\ tries'[j] = tries[j]
  /\ sent'[j] = sent[j]

Stays(j) == phase'[j] = phase[j] /\ tries'[j] = tries[j] /\ sent'[j] = sent[j]

JobNext ==
  \A j \in Jobs : Submit(j) \/ Take(j) \/ Return(j) \/ Settle(j) \/ Lose(j) \/ Stays(j)

JobSpec == JobInit /\ [][JobNext]_jobVars
=============================================================================
