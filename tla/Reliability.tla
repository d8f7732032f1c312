---------------------------- MODULE Reliability ----------------------------
(***************************************************************************)
(* ReliabilityMiddleware (reliability/middleware.py), which wraps every    *)
(* routeTo call of a server process: a circuit breaker per destination, an *)
(* idempotency key per call, and up to three tries.                        *)
(*                                                                         *)
(* The calls are coroutines of one event loop.  What a call does before    *)
(* its first await (breaker check, key check) is one step, and so is what  *)
(* it does when the wrapped function answers; between the two, any number  *)
(* of other calls run.  The breaker lives in module globals and is lost at *)
(* a restart; the keys live in SQLite and are read back into the reasoner, *)
(* under a predicate that the key check does not ask for.                  *)
(***************************************************************************)
EXTENDS Integers, FiniteSets

CONSTANTS
  Callers,     \* coroutines that may be inside the middleware at one time
  Targets,     \* destinations; the breaker's keys
  Keys,        \* idempotency keys: payload hash, correlation id, retry count
  Threshold,   \* BREAKER_THRESHOLD
  Cooldown,    \* COOLDOWN_SECONDS, in ticks
  MaxTries,    \* stop_after_attempt
  HasReasoner  \* is pyswip installed?  Without it no key is ever found

ASSUME ReliabilityAssumption ==
  /\ IsFiniteSet(Callers)
  /\ Threshold \in Nat \ {0}
  /\ Cooldown \in Nat \ {0}
  /\ MaxTries \in Nat \ {0}
  /\ HasReasoner \in BOOLEAN

VARIABLES
  count,     \* _circuit_breaker: failures of a destination
  age,       \* ticks since _last_failure_time, up to Cooldown; Cooldown if there is none
  facts,     \* the middleware's facts in the reasoner: predicate and key
  saved,     \* the keys in the facts table; each belongs to a call that returned a result
  call,      \* the calls that are inside the wrapped function or its backoff
  half       \* history: cooled down after a trip, and no call has succeeded or failed since

vars == <<count, age, facts, saved, call, half>>

NoCall == [pc |-> "idle"]

InCall == [pc: {"trying", "backoff"}, target: Targets, key: Keys, try: 1 .. MaxTries, probe: BOOLEAN]

\* memory_backend.write files a value under what the semantic mapper makes of
\* its name in the protocol, here "INTERNAL", which the mapper does not know: it
\* returns an error message, and the part after the colon is the predicate.
Predicates == {"idempotency_key", " Unknown protocol 'INTERNAL'"}

RecordedAs(k) == <<" Unknown protocol 'INTERNAL'", k>>

TypeOK ==
  /\ count \in [Targets -> Nat]
  /\ age \in [Targets -> 0 .. Cooldown]
  /\ facts \subseteq Predicates \X Keys
  /\ saved \subseteq Keys
  /\ call \in [Callers -> InCall \cup {NoCall}]
  /\ \A c \in Callers : call[c].pc = "backoff" => call[c].try < MaxTries
  /\ half \in [Targets -> BOOLEAN]

Init ==
  /\ count = [t \in Targets |-> 0]
  /\ age = [t \in Targets |-> Cooldown]
  /\ facts = {}
  /\ saved = {}
  /\ call = [c \in Callers |-> NoCall]
  /\ half = [t \in Targets |-> FALSE]

InFlight(t) == {c \in Callers : call[c].pc # "idle" /\ call[c].target = t}

\* (mutant) One failure too many before the breaker trips.
TrippedLate(t) == count[t] > Threshold

Tripped(t) == count[t] >= Threshold

Open(t) == Tripped(t) /\ age[t] < Cooldown

\* memory_backend.check_exists('idempotency_key', ...), a query of the reasoner.
Known(k) == HasReasoner /\ <<"idempotency_key", k>> \in facts

-----------------------------------------------------------------------------
(* __call__ up to its first await *)

\* A closed breaker, or one whose cooldown has passed: in the second case the
\* count starts again from zero, whatever becomes of the call.
Reset(t) == IF Tripped(t) THEN [count EXCEPT ![t] = 0] ELSE count

\* A known key is answered "cached", without the earlier result; any other call
\* goes through to the wrapped function.
Call(c, t, k) ==
  /\ call[c].pc = "idle"
  /\ ~Open(t)
  /\ count' = Reset(t)
  /\ half' = [half EXCEPT ![t] = @ \/ Tripped(t)]
  /\ call' = IF Known(k) THEN call
             ELSE [call EXCEPT ![c] = [pc |-> "trying", target |-> t, key |-> k, try |-> 1, probe |-> half'[t]]]
  /\ UNCHANGED <<age, facts, saved>>

\* (mutant) A rejected call counts as a failure.
RejectRefreshes(c, t) ==
  /\ call[c].pc = "idle"
  /\ Open(t)
  /\ age' = [age EXCEPT ![t] = 0]
  /\ UNCHANGED <<count, facts, saved, call, half>>

\* The breaker is open: circuit_breaker_open, and nothing changes.
Reject(c, t) ==
  /\ call[c].pc = "idle"
  /\ Open(t)
  /\ UNCHANGED vars

-----------------------------------------------------------------------------
(* The wrapped function answers *)

Leave(c) == call' = [call EXCEPT ![c] = NoCall]

\* A result, which for routeTo may also carry a connector's error payload: the
\* key is recorded, in the table and in the reasoner, and the count forgotten.
Succeed(c) ==
  /\ call[c].pc = "trying"
  /\ facts' = facts \cup {RecordedAs(call[c].key)}
  /\ saved' = saved \cup {call[c].key}
  /\ count' = [count EXCEPT ![call[c].target] = 0]
  /\ half' = [half EXCEPT ![call[c].target] = FALSE]
  /\ Leave(c)
  /\ UNCHANGED age

\* A permanent or unexpected exception, one from the recording of the key, or
\* a transient one at the last try.
Fail(c) ==
  /\ call[c].pc = "trying"
  /\ count' = [count EXCEPT ![call[c].target] = @ + 1]
  /\ age' = [age EXCEPT ![call[c].target] = 0]
  /\ half' = [half EXCEPT ![call[c].target] = FALSE]
  /\ Leave(c)
  /\ UNCHANGED <<facts, saved>>

\* (mutant) One try too many.
BackOffAlways(c) ==
  /\ call[c].pc = "trying"
  /\ call' = [call EXCEPT ![c].pc = "backoff"]
  /\ UNCHANGED <<count, age, facts, saved, half>>

\* A transient exception below the last try: back off, then try again.
BackOff(c) ==
  /\ call[c].pc = "trying"
  /\ call[c].try < MaxTries
  /\ call' = [call EXCEPT ![c].pc = "backoff"]
  /\ UNCHANGED <<count, age, facts, saved, half>>

TryAgain(c) ==
  /\ call[c].pc = "backoff"
  /\ call' = [call EXCEPT ![c].pc = "trying", ![c].try = @ + 1]
  /\ UNCHANGED <<count, age, facts, saved, half>>

\* Expired token or invalid credentials: neither success nor failure.
AuthError(c) ==
  /\ call[c].pc = "trying"
  /\ Leave(c)
  /\ UNCHANGED <<count, age, facts, saved, half>>

-----------------------------------------------------------------------------
(* The environment *)

\* The call is cancelled (the client or the worker went away).
Cancel(c) ==
  /\ call[c].pc # "idle"
  /\ Leave(c)
  /\ UNCHANGED <<count, age, facts, saved, half>>

\* The process restarts: globals and calls are gone, and load_memory reads the
\* saved facts back, up to one it cannot assert, if there is one.
Restart ==
  /\ count' = [t \in Targets |-> 0]
  /\ age' = [t \in Targets |-> Cooldown]
  /\ call' = [c \in Callers |-> NoCall]
  /\ half' = [t \in Targets |-> FALSE]
  /\ \E loaded \in SUBSET saved : facts' = {RecordedAs(k) : k \in loaded}
  /\ UNCHANGED saved

Tick ==
  /\ age' = [t \in Targets |-> IF age[t] < Cooldown THEN age[t] + 1 ELSE Cooldown]
  /\ UNCHANGED <<count, facts, saved, call, half>>

Answer(c) == Succeed(c) \/ Fail(c) \/ BackOff(c) \/ TryAgain(c) \/ AuthError(c)

Next ==
  \/ \E c \in Callers, t \in Targets, k \in Keys : Call(c, t, k)
  \/ \E c \in Callers, t \in Targets : Reject(c, t)
  \/ \E c \in Callers : Answer(c) \/ Cancel(c)
  \/ Restart
  \/ Tick

Spec == Init /\ [][Next]_vars

\* Time passes, and an admitted call is answered: every await of the wrapped
\* function is a request with a timeout.  Nobody is obliged to call.
FairSpec == Spec /\ WF_vars(Tick) /\ \A c \in Callers : WF_vars(Answer(c))
-----------------------------------------------------------------------------
(* Properties *)

\* The breaker trips late by no more than the calls that were admitted before
\* it did: the failures counted and those still possible never exceed the
\* threshold by more than the number of concurrent callers, less one.
OvershootBounded ==
  \A t \in Targets : count[t] + Cardinality(InFlight(t)) < Threshold + Cardinality(Callers)

\* The breaker never stays open for ever: only failures of calls let through
\* before can prolong the cooldown, and a rejected call does not.
BreakerRecovers == \A t \in Targets : []<>~Open(t)

\* docs/18-reliability-middleware.md: in the half-open state a single probe
\* request is allowed.  The code starts counting afresh and lets every call in.
HalfOpenSingleProbe ==
  \A t \in Targets : Cardinality({c \in InFlight(t) : call[c].probe}) <= 1

\* docs/18-reliability-middleware.md: if the key was seen before, the call is not
\* executed again.  The key is saved under another predicate than it is looked
\* up by, so every call under it goes through, after a restart and before.
AnsweredNotReadmitted ==
  [][\A c \in Callers :
       call[c].pc = "idle" /\ call'[c].pc # "idle" => call'[c].key \notin saved]_vars
=============================================================================
