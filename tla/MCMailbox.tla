----------------------------- MODULE MCMailbox -----------------------------
(* Mailbox with two messages of one task that was executed twice, and one    *)
(* queued by the EventListener.                                              *)
EXTENDS Mailbox

CONSTANT Attempts   \* the limit of every message but the EventListener's, which has one try

MCTaskOf == [m \in Messages |-> IF m = NumMessages THEN NumTasks ELSE 1]
MCMaxAttempts == [m \in Messages |-> IF m \in Events THEN 1 ELSE Attempts]
=============================================================================
