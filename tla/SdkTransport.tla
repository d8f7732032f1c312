---------------------------- MODULE SdkTransport ----------------------------
(***************************************************************************)
(* One request of the Python SDK (engram_sdk/communication.py, auth.py):   *)
(* EngramTransport.request obtains an EAT if it has none, renews it once   *)
(* when the server refuses it, and obtains the EAT with a request of its   *)
(* own, which in turn renews the access token once.  The SDK is one        *)
(* sequential client; the nested calls are flattened into call.at.         *)
(***************************************************************************)
EXTENDS Identity

CONSTANT Sdk     \* the holder that is the SDK

ASSUME SdkAssumption == Sdk \in Holders /\ EatLife <= AccessLife

VARIABLES
  has,           \* which credentials the transport holds: its _token, its _eat
  call           \* the request under way

sdkVars == <<has, call>>

-----------------------------------------------------------------------------

\* goal: a request with the EAT, or generate_eat alone; resent, renewed: the
\* retries already spent; outage, aged: whether Redis was down meanwhile and
\* the ticks that passed (history).
Call == [goal: {"request", "generate"}, at: {"idle", "start", "generate", "login", "post", "send", "done"},
         resent: BOOLEAN, renewed: BOOLEAN, result: {"none", "ok", "refused", "failed"},
         outage: BOOLEAN, aged: 0 .. EatLife]

Idle == [goal |-> "request", at |-> "idle", resent |-> FALSE, renewed |-> FALSE, result |-> "none",
         outage |-> FALSE, aged |-> 0]

SdkInit == has = {} /\ call = Idle

\* request, generate_eat (narrow_eat): called by the control plane.
Begin(goal) == call' = [Idle EXCEPT !.goal = goal, !.outage = ~redisUp,
                                    !.at = IF goal = "request" THEN "start" ELSE "generate"]

Done(result) == call' = [call EXCEPT !.at = "done", !.result = result]
GoTo(at) == call' = [call EXCEPT !.at = at]

-----------------------------------------------------------------------------

\* request: ensure_eat.
UseEat ==
  /\ call.at = "start"
  /\ GoTo(IF "eat" \in has THEN "send" ELSE "generate")
  /\ UNCHANGED <<identityVars, has>>

\* generate_eat, refresh_eat: ensure_session_token is content with any token.
Generate ==
  /\ call.at = "generate"
  /\ call' = [call EXCEPT !.at = IF "token" \in has THEN "post" ELSE "login", !.renewed = FALSE]
  /\ UNCHANGED <<identityVars, has>>

\* AuthClient.login: create_session needs Redis.
LogIn ==
  /\ call.at = "login"
  /\ \/ /\ Login(Sdk) /\ has' = has \cup {"token"}
        /\ GoTo("post")
     \/ /\ ~redisUp
        /\ Done("failed")
        /\ UNCHANGED <<token, listLeft, has>>
  /\ UNCHANGED <<redisUp, eat, refresh, serving>>

\* (mutant) The session is not renewed when the server refuses it.
RenewNever == Done("refused")

\* (mutant) A login is tried as often as the server refuses.
RenewAgain == GoTo("login")

\* A refused access token is renewed once per generate_eat.
RenewOnce == IF call.renewed THEN Done("refused") ELSE call' = [call EXCEPT !.at = "login", !.renewed = TRUE]

\* POST /auth/tokens/generate-eat
PostGenerate ==
  /\ call.at = "post"
  /\ \/ /\ TokenAnswer(Sdk) = "ok"
        /\ ExtendSession(Sdk)
        /\ IssueEat(Sdk) /\ has' = has \cup {"eat"}
        /\ IF call.goal = "generate" THEN Done("ok") ELSE GoTo("send")
     \/ /\ TokenAnswer(Sdk) = "refused"
        /\ RenewOnce
        /\ UNCHANGED <<token, eat, has>>
     \/ /\ TokenAnswer(Sdk) = "failed"
        /\ Done("failed")
        /\ UNCHANGED <<token, eat, has>>
  /\ UNCHANGED <<redisUp, listLeft, refresh, serving>>

\* The request itself; refused, it is sent once more with a new EAT.
Send ==
  /\ call.at = "send"
  /\ \/ EatAnswer(Sdk) = "ok" /\ Done("ok")
     \/ /\ EatAnswer(Sdk) = "refused" /\ ~call.resent
        /\ call' = [call EXCEPT !.at = "generate", !.resent = TRUE]
     \/ EatAnswer(Sdk) = "refused" /\ call.resent /\ Done("refused")
  /\ UNCHANGED <<identityVars, has>>

\* No answer before the timeout, or a 5xx: no retry.
TransportFails ==
  /\ call.at \in {"login", "post", "send"}
  /\ Done("failed")
  /\ UNCHANGED <<identityVars, has>>

TransportStep == UseEat \/ Generate \/ LogIn \/ PostGenerate \/ Send \/ TransportFails

\* What time and Redis do to the history of the call.
CallAges == call' = IF call.at \in {"idle", "done"} \/ call.aged = EatLife THEN call
                    ELSE [call EXCEPT !.aged = @ + 1]
CallSeesOutage == call' = IF call.at \in {"idle", "done"} \/ redisUp' THEN call ELSE [call EXCEPT !.outage = TRUE]

-----------------------------------------------------------------------------

SdkTypeOK == has \subseteq {"token", "eat"} /\ call \in Call

\* However stale the credentials a request starts with, it ends in a refusal
\* only if Redis was down meanwhile or an EAT's whole life went by: the nested
\* renewals of EngramTransport.request replace whatever has expired.
RefusedOnlyWhenKilled == call.result = "refused" => call.outage \/ call.aged >= EatLife
=============================================================================
