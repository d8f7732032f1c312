------------------------- MODULE ReliabilityProofs -------------------------
(***************************************************************************)
(* Proofs about Reliability, for any callers, destinations, keys,          *)
(* threshold, cooldown and number of tries.                                *)
(***************************************************************************)
EXTENDS Reliability, FiniteSetTheorems, TLAPS

\* A call stays well typed when it is admitted, backs off or tries once more.
LEMMA CallUpdate ==
  /\ NoCall \in InCall \cup {NoCall} /\ NoCall.pc = "idle"
  /\ \A t \in Targets, k \in Keys, b \in BOOLEAN :
       [pc |-> "trying", target |-> t, key |-> k, try |-> 1, probe |-> b] \in InCall
  /\ \A r \in InCall : [r EXCEPT !.pc = "backoff"] \in InCall
  /\ \A r \in InCall : [r EXCEPT !.pc = "backoff"].try = r.try
  /\ \A r \in InCall : \A n \in 1 .. MaxTries :
       [r EXCEPT !.pc = "trying", !.try = n] \in InCall /\ [r EXCEPT !.pc = "trying", !.try = n].pc = "trying"
<1>1. \A t \in Targets, k \in Keys, b \in BOOLEAN :
       [pc |-> "trying", target |-> t, key |-> k, try |-> 1, probe |-> b] \in InCall
  BY ReliabilityAssumption DEF InCall
<1>2. \A r \in InCall : [r EXCEPT !.pc = "backoff"] \in InCall
  BY DEF InCall
<1>3. \A r \in InCall : [r EXCEPT !.pc = "backoff"].try = r.try
  BY DEF InCall
<1>4. \A r \in InCall : \A n \in 1 .. MaxTries :
        [r EXCEPT !.pc = "trying", !.try = n] \in InCall /\ [r EXCEPT !.pc = "trying", !.try = n].pc = "trying"
  BY DEF InCall
<1> QED
  BY <1>1, <1>2, <1>3, <1>4 DEF NoCall

\* The age of a failure stays between 0 and Cooldown.
LEMMA Ages ==
  /\ 0 \in 0 .. Cooldown /\ Cooldown \in 0 .. Cooldown
  /\ \A a \in 0 .. Cooldown : (IF a < Cooldown THEN a + 1 ELSE Cooldown) \in 0 .. Cooldown
BY ReliabilityAssumption

\* A count stays a natural number when it grows.
LEMMA NatSucc == \A n \in Nat : n + 1 \in Nat
OBVIOUS

\* A caller that is not idle is in a call.
LEMMA CallTypes ==
  ASSUME TypeOK, NEW c \in Callers, call[c].pc # "idle"
  PROVE  /\ call[c] \in InCall /\ call[c].pc \in {"trying", "backoff"}
         /\ call[c].target \in Targets /\ call[c].key \in Keys /\ call[c].try \in 1 .. MaxTries
<1>1. call[c] \in InCall
  BY DEF TypeOK, NoCall
<1> QED
  BY <1>1 DEF InCall

LEMMA InitTypeOK == Init => TypeOK
<1> SUFFICES ASSUME Init PROVE TypeOK
  OBVIOUS
<1>1. count \in [Targets -> Nat] /\ half \in [Targets -> BOOLEAN] /\ facts \subseteq Predicates \X Keys /\ saved \subseteq Keys
  BY DEF Init
<1>2. age \in [Targets -> 0 .. Cooldown]
  BY Ages DEF Init
<1>3. /\ call \in [Callers -> InCall \cup {NoCall}]
      /\ \A c \in Callers : call[c].pc = "backoff" => call[c].try < MaxTries
  BY CallUpdate DEF Init
<1> QED
  BY <1>1, <1>2, <1>3 DEF TypeOK

\* A recorded key is a fact.
LEMMA RecordTyped == \A k \in Keys : RecordedAs(k) \in Predicates \X Keys
BY DEF RecordedAs, Predicates

LEMMA StepTypeOK == ASSUME TypeOK, [Next]_vars PROVE TypeOK'
<1>1. ASSUME NEW c \in Callers, NEW t \in Targets, NEW k \in Keys, Call(c, t, k) PROVE TypeOK'
  <2>1. half' \in [Targets -> BOOLEAN] /\ count' \in [Targets -> Nat]
    BY <1>1 DEF Call, Reset, TypeOK, Tripped
  <2>2. \/ call' = call
        \/ \E b \in BOOLEAN :
             call' = [call EXCEPT ![c] = [pc |-> "trying", target |-> t, key |-> k, try |-> 1, probe |-> b]]
    BY <1>1, <2>1 DEF Call
  <2>3. call' \in [Callers -> InCall \cup {NoCall}]
        /\ \A d \in Callers : call'[d].pc = "backoff" => call'[d].try < MaxTries
    <3>1. CASE call' = call
      BY <3>1 DEF TypeOK
    <3>2. ASSUME NEW b \in BOOLEAN,
                 call' = [call EXCEPT ![c] = [pc |-> "trying", target |-> t, key |-> k, try |-> 1, probe |-> b]]
          PROVE  /\ call' \in [Callers -> InCall \cup {NoCall}]
                 /\ \A d \in Callers : call'[d].pc = "backoff" => call'[d].try < MaxTries
      BY <3>2, CallUpdate DEF TypeOK
    <3> QED
      BY <2>2, <3>1, <3>2
  <2> QED
    BY <1>1, <2>1, <2>3 DEF Call, TypeOK
<1>2. ASSUME NEW c \in Callers, Succeed(c) PROVE TypeOK'
  <2>1. facts' \subseteq Predicates \X Keys /\ saved' \subseteq Keys
    <3>1. call[c].key \in Keys
      BY <1>2, CallTypes DEF Succeed
    <3> QED
      BY <1>2, <3>1, RecordTyped DEF Succeed, TypeOK
  <2>2. /\ call' \in [Callers -> InCall \cup {NoCall}]
        /\ \A d \in Callers : call'[d].pc = "backoff" => call'[d].try < MaxTries
    BY <1>2, CallUpdate DEF Succeed, Leave, TypeOK
  <2> QED
    BY <1>2, <2>1, <2>2 DEF Succeed, TypeOK
<1>3. ASSUME NEW c \in Callers, Fail(c) PROVE TypeOK'
  <2>1. PICK t \in Targets : t = call[c].target
    BY <1>3, CallTypes DEF Fail
  <2>2. count' \in [Targets -> Nat]
    <3>1. count' = [count EXCEPT ![t] = count[t] + 1]
      BY <1>3, <2>1 DEF Fail
    <3> QED
      BY <3>1, NatSucc DEF TypeOK
  <2>3. age' \in [Targets -> 0 .. Cooldown] /\ half' \in [Targets -> BOOLEAN]
    BY <1>3, Ages DEF Fail, TypeOK
  <2>4. /\ call' \in [Callers -> InCall \cup {NoCall}]
        /\ \A d \in Callers : call'[d].pc = "backoff" => call'[d].try < MaxTries
    BY <1>3, CallUpdate DEF Fail, Leave, TypeOK
  <2> QED
    BY <1>3, <2>2, <2>3, <2>4 DEF Fail, TypeOK
<1>4. ASSUME NEW c \in Callers, BackOff(c) PROVE TypeOK'
  <2>1. call[c] \in InCall /\ call[c].try < MaxTries
    BY <1>4, CallTypes DEF BackOff
  <2>2. call' = [call EXCEPT ![c] = [call[c] EXCEPT !.pc = "backoff"]]
    BY <1>4 DEF BackOff
  <2>3. /\ call' \in [Callers -> InCall \cup {NoCall}]
        /\ \A d \in Callers : call'[d].pc = "backoff" => call'[d].try < MaxTries
    BY <2>1, <2>2, CallUpdate DEF TypeOK
  <2> QED
    BY <1>4, <2>3 DEF BackOff, TypeOK
<1>5. ASSUME NEW c \in Callers, TryAgain(c) PROVE TypeOK'
  <2>1. call[c] \in InCall /\ call[c].try \in 1 .. MaxTries
    BY <1>5, CallTypes DEF TryAgain
  <2>2. PICK n \in 1 .. MaxTries : n = call[c].try + 1
    <3>1. call[c].try < MaxTries
      BY <1>5 DEF TryAgain, TypeOK
    <3> QED
      BY <2>1, <3>1, ReliabilityAssumption
  <2>3. call' = [call EXCEPT ![c] = [call[c] EXCEPT !.pc = "trying", !.try = n]]
    BY <1>5, <2>2 DEF TryAgain
  <2>4. /\ call' \in [Callers -> InCall \cup {NoCall}]
        /\ \A d \in Callers : call'[d].pc = "backoff" => call'[d].try < MaxTries
    BY <2>1, <2>3, CallUpdate DEF TypeOK
  <2> QED
    BY <1>5, <2>4 DEF TryAgain, TypeOK
<1>6. ASSUME NEW c \in Callers, AuthError(c) \/ Cancel(c) PROVE TypeOK'
  BY <1>6, CallUpdate DEF AuthError, Cancel, Leave, TypeOK
<1>7. ASSUME Restart PROVE TypeOK'
  <2>1. age' \in [Targets -> 0 .. Cooldown]
    BY <1>7, Ages DEF Restart
  <2>2. facts' \subseteq Predicates \X Keys /\ saved' \subseteq Keys
    <3>1. PICK loaded \in SUBSET saved : facts' = {RecordedAs(k) : k \in loaded}
      BY <1>7 DEF Restart
    <3>2. loaded \subseteq Keys
      BY DEF TypeOK
    <3>3. saved' \subseteq Keys
      BY <1>7 DEF Restart, TypeOK
    <3> QED
      BY <3>1, <3>2, <3>3, RecordTyped
  <2>3. call' \in [Callers -> InCall \cup {NoCall}] /\ \A d \in Callers : call'[d].pc = "idle"
    BY <1>7, CallUpdate DEF Restart
  <2>4. count' \in [Targets -> Nat] /\ half' \in [Targets -> BOOLEAN]
    BY <1>7 DEF Restart
  <2> QED
    BY <2>1, <2>2, <2>3, <2>4 DEF TypeOK
<1>8. ASSUME Tick PROVE TypeOK'
  <2>1. age' \in [Targets -> 0 .. Cooldown]
    BY <1>8, Ages DEF Tick, TypeOK
  <2> QED
    BY <1>8, <2>1 DEF Tick, TypeOK
<1>9. ASSUME UNCHANGED vars PROVE TypeOK'
  BY <1>9 DEF vars, TypeOK
<1> QED
  BY <1>1, <1>2, <1>3, <1>4, <1>5, <1>6, <1>7, <1>8, <1>9 DEF Next, Answer, Reject

\* Every reachable state of the middleware is well typed.
THEOREM TypeCorrect == Spec => []TypeOK
<1>1. Init => TypeOK
  BY InitTypeOK
<1>2. TypeOK /\ [Next]_vars => TypeOK'
  BY StepTypeOK
<1> QED
  BY <1>1, <1>2, PTL DEF Spec

-----------------------------------------------------------------------------
(* The breaker's overshoot *)

LEMMA CallerSets ==
  /\ Cardinality(Callers) \in Nat
  /\ \A S \in SUBSET Callers :
       IsFiniteSet(S) /\ Cardinality(S) \in Nat /\ Cardinality(S) <= Cardinality(Callers)
BY ReliabilityAssumption, FS_Subset, FS_CardinalityType

\* Whoever is inside cannot push the count over the bound by leaving, ...
LEMMA RoomShrinks ==
  ASSUME TypeOK, TypeOK', OvershootBounded, NEW t \in Targets,
         count'[t] <= count[t], InFlight(t)' \subseteq InFlight(t)
  PROVE  count'[t] + Cardinality(InFlight(t)') < Threshold + Cardinality(Callers)
<1> DEFINE A == InFlight(t)  B == InFlight(t)'
<1>1. A \subseteq Callers /\ B \subseteq A
  BY DEF InFlight
<1>2. count[t] + Cardinality(A) < Threshold + Cardinality(Callers)
  BY DEF OvershootBounded
<1>3. count[t] \in Nat /\ count'[t] \in Nat
  BY DEF TypeOK
<1> HIDE DEF A, B
<1>4. Cardinality(A) \in Nat /\ Cardinality(B) \in Nat /\ Cardinality(B) <= Cardinality(A)
  BY <1>1, CallerSets, FS_Subset
<1>5. count'[t] + Cardinality(B) < Threshold + Cardinality(Callers)
  BY <1>2, <1>3, <1>4, CallerSets, ReliabilityAssumption
<1> QED
  BY <1>5 DEF B

\* ... nor by entering while the count is below the threshold ...
LEMMA RoomBelow ==
  ASSUME TypeOK', NEW t \in Targets, count'[t] < Threshold
  PROVE  count'[t] + Cardinality(InFlight(t)') < Threshold + Cardinality(Callers)
<1> DEFINE B == InFlight(t)'
<1>1. B \in SUBSET Callers
  BY DEF InFlight
<1>2. count'[t] \in Nat
  BY DEF TypeOK
<1> HIDE DEF B
<1>3. Cardinality(B) \in Nat /\ Cardinality(B) <= Cardinality(Callers)
  BY <1>1, CallerSets
<1>4. count'[t] + Cardinality(B) < Threshold + Cardinality(Callers)
  BY <1>2, <1>3, CallerSets, ReliabilityAssumption
<1> QED
  BY <1>4 DEF B

\* ... nor by failing, which adds one to the count and takes one call away.
LEMMA RoomFails ==
  ASSUME TypeOK, TypeOK', OvershootBounded, NEW t \in Targets, NEW c \in InFlight(t),
         count'[t] = count[t] + 1, InFlight(t)' = InFlight(t) \ {c}
  PROVE  count'[t] + Cardinality(InFlight(t)') < Threshold + Cardinality(Callers)
<1> DEFINE A == InFlight(t)  B == InFlight(t)'
<1>1. A \in SUBSET Callers /\ c \in A /\ B = A \ {c}
  BY DEF InFlight
<1>2. count[t] + Cardinality(A) < Threshold + Cardinality(Callers)
  BY DEF OvershootBounded
<1>3. count[t] \in Nat
  BY DEF TypeOK
<1> HIDE DEF A, B
<1>4. Cardinality(A) \in Nat /\ Cardinality(B) = Cardinality(A) - 1
  BY <1>1, CallerSets, FS_RemoveElement
<1>5. count'[t] + Cardinality(B) < Threshold + Cardinality(Callers)
  BY <1>2, <1>3, <1>4, CallerSets, ReliabilityAssumption
<1> QED
  BY <1>5 DEF B

\* A call that is let in finds, or leaves, the count below the threshold.
LEMMA ResetBelow ==
  ASSUME TypeOK, NEW t \in Targets, ~Open(t), count' = Reset(t)
  PROVE  /\ count'[t] < Threshold
         /\ \A u \in Targets : u # t => count'[u] = count[u]
<1>1. CASE Tripped(t)
  <2>1. count' = [count EXCEPT ![t] = 0]
    BY <1>1 DEF Reset
  <2> QED
    BY <2>1, ReliabilityAssumption DEF TypeOK
<1>2. CASE ~Tripped(t)
  <2>1. count' = count
    BY <1>2 DEF Reset
  <2>2. count[t] \in Nat
    BY DEF TypeOK
  <2> QED
    BY <1>2, <2>1, <2>2, ReliabilityAssumption DEF Tripped
<1> QED
  BY <1>1, <1>2

LEMMA StepOvershoot ==
  ASSUME TypeOK, TypeOK', OvershootBounded, [Next]_vars PROVE OvershootBounded'
<1> SUFFICES ASSUME NEW u \in Targets
             PROVE  count'[u] + Cardinality(InFlight(u)') < Threshold + Cardinality(Callers)
  BY DEF OvershootBounded
<1>0. count[u] \in Nat
  BY DEF TypeOK
<1>1. ASSUME NEW c \in Callers, NEW t \in Targets, NEW k \in Keys, Call(c, t, k)
      PROVE  count'[u] + Cardinality(InFlight(u)') < Threshold + Cardinality(Callers)
  <2>1. count'[t] < Threshold /\ (u # t => count'[u] = count[u])
    BY <1>1, ResetBelow DEF Call
  <2>2. CASE u = t
    BY <2>1, <2>2, RoomBelow
  <2>3. CASE u # t
    <3>1. \A d \in Callers : call'[d] = call[d] \/ call'[d].target = t
      BY <1>1 DEF Call, TypeOK
    <3>2. InFlight(u)' \subseteq InFlight(u)
      BY <2>3, <3>1 DEF InFlight
    <3> QED
      BY <1>0, <2>1, <2>3, <3>2, RoomShrinks
  <2> QED
    BY <2>2, <2>3
<1>2. ASSUME NEW c \in Callers, Succeed(c)
      PROVE  count'[u] + Cardinality(InFlight(u)') < Threshold + Cardinality(Callers)
  <2>1. count'[u] <= count[u]
    BY <1>0, <1>2 DEF Succeed, TypeOK
  <2>2. InFlight(u)' \subseteq InFlight(u)
    BY <1>2 DEF Succeed, Leave, InFlight, NoCall, TypeOK
  <2> QED
    BY <2>1, <2>2, RoomShrinks
<1>3. ASSUME NEW c \in Callers, Fail(c)
      PROVE  count'[u] + Cardinality(InFlight(u)') < Threshold + Cardinality(Callers)
  <2>1. PICK t \in Targets : t = call[c].target
    BY <1>3, CallTypes DEF Fail
  <2>2. count' = [count EXCEPT ![t] = count[t] + 1] /\ call[c].pc # "idle" /\ call' = [call EXCEPT ![c] = NoCall]
    BY <1>3, <2>1 DEF Fail, Leave
  <2>3. CASE u = t
    <3>1. c \in InFlight(u) /\ InFlight(u)' = InFlight(u) \ {c}
      BY <2>1, <2>2, <2>3 DEF InFlight, NoCall, TypeOK
    <3>2. count'[u] = count[u] + 1
      BY <2>2, <2>3 DEF TypeOK
    <3> QED
      BY <3>1, <3>2, RoomFails
  <2>4. CASE u # t
    <3>1. InFlight(u)' \subseteq InFlight(u)
      BY <2>2 DEF InFlight, NoCall, TypeOK
    <3>2. count'[u] <= count[u]
      BY <1>0, <2>2, <2>4 DEF TypeOK
    <3> QED
      BY <3>1, <3>2, RoomShrinks
  <2> QED
    BY <2>3, <2>4
<1>4. ASSUME NEW c \in Callers, BackOff(c) \/ TryAgain(c)
      PROVE  count'[u] + Cardinality(InFlight(u)') < Threshold + Cardinality(Callers)
  <2>1. count'[u] <= count[u]
    BY <1>0, <1>4 DEF BackOff, TryAgain
  <2>2. call[c] \in InCall /\ call[c].pc # "idle"
    BY <1>4, CallTypes DEF BackOff, TryAgain
  <2>3. \A d \in Callers : call'[d].pc # "idle" => call[d].pc # "idle" /\ call'[d].target = call[d].target
    BY <1>4, <2>2 DEF BackOff, TryAgain, InCall, TypeOK
  <2>4. InFlight(u)' \subseteq InFlight(u)
    BY <2>3 DEF InFlight
  <2> QED
    BY <2>1, <2>4, RoomShrinks
<1>5. ASSUME NEW c \in Callers, AuthError(c) \/ Cancel(c)
      PROVE  count'[u] + Cardinality(InFlight(u)') < Threshold + Cardinality(Callers)
  <2>1. count'[u] <= count[u]
    BY <1>0, <1>5 DEF AuthError, Cancel
  <2>2. InFlight(u)' \subseteq InFlight(u)
    BY <1>5 DEF AuthError, Cancel, Leave, InFlight, NoCall, TypeOK
  <2> QED
    BY <2>1, <2>2, RoomShrinks
<1>6. ASSUME Restart
      PROVE  count'[u] + Cardinality(InFlight(u)') < Threshold + Cardinality(Callers)
  <2>1. count'[u] < Threshold
    BY <1>6, ReliabilityAssumption DEF Restart
  <2> QED
    BY <2>1, RoomBelow
<1>7. ASSUME UNCHANGED <<count, call>>
      PROVE  count'[u] + Cardinality(InFlight(u)') < Threshold + Cardinality(Callers)
  BY <1>0, <1>7, RoomShrinks DEF InFlight
<1> QED
  BY <1>1, <1>2, <1>3, <1>4, <1>5, <1>6, <1>7 DEF Next, Answer, Reject, Tick, vars

\* The breaker lets through no more failures than its threshold and the calls
\* that were under way, less one, whatever the callers and the restarts do.
THEOREM OvershootIsBounded == Spec => []OvershootBounded
<1>1. Init => TypeOK /\ OvershootBounded
  <2> SUFFICES ASSUME Init PROVE OvershootBounded
    BY InitTypeOK
  <2> SUFFICES ASSUME NEW t \in Targets
               PROVE  count[t] + Cardinality(InFlight(t)) < Threshold + Cardinality(Callers)
    BY DEF OvershootBounded
  <2>1. InFlight(t) = {}
    BY DEF Init, InFlight, NoCall
  <2>2. Cardinality(InFlight(t)) = 0
    BY <2>1, FS_EmptySet
  <2>3. count[t] = 0
    BY DEF Init
  <2> QED
    BY <2>2, <2>3, CallerSets, ReliabilityAssumption
<1>2. TypeOK /\ OvershootBounded /\ [Next]_vars => (TypeOK /\ OvershootBounded)'
  BY StepTypeOK, StepOvershoot
<1> QED
  BY <1>1, <1>2, PTL DEF Spec

=============================================================================
