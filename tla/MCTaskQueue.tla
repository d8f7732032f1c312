---------------------------- MODULE MCTaskQueue ----------------------------
(* TaskQueue with a translation task, a multi-agent task and two workers. *)
EXTENDS TaskQueue

CONSTANT Attempts   \* the same limit for every row

MCMaxAttempts == [t \in Tasks |-> Attempts]
=============================================================================
