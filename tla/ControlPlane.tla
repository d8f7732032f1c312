---------------------------- MODULE ControlPlane ----------------------------
(***************************************************************************)
(* ControlPlane.drive (engram_sdk/control_plane.py), with the validation   *)
(* and activation of each step's Scope (scope.py, routing.py) and the      *)
(* requests they make (SdkTransport), while the server's tokens expire and *)
(* its Redis comes and goes (Identity).                                    *)
(*                                                                         *)
(* Tool handlers are local functions (register_tool_handler); what they    *)
(* return is stored in the process-wide GlobalData under the step's name.  *)
(* The next step is the step's next_step or its own handler's choice, and  *)
(* may be one that was taken before: a drive need not end.                 *)
(***************************************************************************)
EXTENDS SdkTransport

CONSTANTS
  NumSteps,      \* steps of the workflow
  Tools,         \* tools of each step, perhaps none
  Named,         \* tools the registry knows under each step's name
  Follows,       \* steps that may come next: next_step, or what the step's handler may choose
  Needs,         \* preconditions of each step: steps whose output must exist
  Casts          \* sets of holders that may be running together

Steps == 1 .. NumSteps
ToolSets == {Tools[s] : s \in Steps} \cup {Named[s] : s \in Steps} \cup {{}}

\* No next step: the drive is over.  A handler that raises and a step that is
\* not defined end it as well.
NoStep == 0

ASSUME ControlPlaneAssumption ==
  /\ NumSteps \in Nat \ {0}
  /\ \A t \in ToolSets : IsFiniteSet(t)
  /\ Follows \in [Steps -> SUBSET (Steps \cup {NoStep})]
  /\ Needs \in [Steps -> SUBSET Steps]
  /\ Casts \subseteq SUBSET Holders

VARIABLES
  running,       \* the holders that are running
  drive,         \* where drive() is
  cache,         \* the scope cache: validation results by tool set, kept for ever
  data           \* steps whose output is in GlobalData

controlVars == <<running, drive, cache, data>>
vars == <<identityVars, sdkVars, controlVars>>

-----------------------------------------------------------------------------

\* tools: those of the Scope; left: how many the fallback of validate() has
\* still to check.
Drive == [stage: {"idle", "setup", "resolve", "enter", "activate", "narrow", "infer"}, step: Steps,
          tools: ToolSets, left: Nat]

NoDrive == [stage |-> "idle", step |-> 1, tools |-> {}, left |-> 0]

TypeOK ==
  /\ IdentityTypeOK /\ SdkTypeOK
  /\ running \in Casts
  /\ drive \in Drive
  /\ cache \in [ToolSets -> {"none", "poor", "full"}]
  /\ data \subseteq Steps

Init ==
  /\ IdentityInit /\ SdkInit
  /\ running \in Casts
  /\ drive = NoDrive
  /\ cache = [t \in ToolSets |-> "none"]
  /\ data = {}

-----------------------------------------------------------------------------

\* Entering a step: a missing precondition raises, and the drive is over.
Entered(step, outputs) ==
  IF step # NoStep /\ Needs[step] \subseteq outputs
  THEN [stage |-> "setup", step |-> step, tools |-> Tools[step], left |-> 0]
  ELSE NoDrive

StartDrive ==
  /\ Sdk \in running /\ drive = NoDrive
  /\ \E initial \in Steps : drive' = Entered(initial, data)
  /\ UNCHANGED <<identityVars, sdkVars, running, cache, data>>

\* reset_global_data, between drives.
ResetGlobalData ==
  /\ Sdk \in running /\ drive = NoDrive
  /\ data' = {}
  /\ UNCHANGED <<identityVars, sdkVars, running, drive, cache>>

-----------------------------------------------------------------------------
(* Scope.validate: first on a temporary scope (RoutingEngine.setup_step),  *)
(* then when the step's own scope is entered.                              *)

\* A Scope without tools asks the registry for those of its name.
AfterValidate ==
  [drive EXCEPT !.stage = CASE drive.stage = "enter" -> "activate"
                            [] drive.tools = {}      -> "resolve"
                            [] OTHER                 -> "enter",
                !.left = 0]

\* ScopeCache: its Redis failing is a miss, or a write that is lost.
Cached == redisUp /\ cache[drive.tools] # "none"
Remember(entry) == cache' = IF redisUp THEN [cache EXCEPT ![drive.tools] = entry] ELSE cache

Validating == drive.stage \in {"setup", "enter"} /\ drive.left = 0

ValidateFromCache ==
  /\ Validating /\ call.at = "idle" /\ Cached
  /\ drive' = AfterValidate
  /\ UNCHANGED <<identityVars, sdkVars, running, cache, data>>

AskToValidate ==
  /\ Validating /\ call.at = "idle" /\ ~Cached
  /\ Begin("request")
  /\ UNCHANGED <<identityVars, has, controlVars>>

\* Decisions and tool ids are remembered; any exception falls back to one
\* drift check per tool.
Validated ==
  /\ Validating /\ call.at = "done"
  /\ \/ /\ call.result = "ok"
        /\ Remember("full")
        /\ drive' = AfterValidate
     \/ /\ call.result # "ok" /\ drive.tools # {}
        /\ drive' = [drive EXCEPT !.left = Cardinality(drive.tools)]
        /\ UNCHANGED cache
     \/ /\ call.result # "ok" /\ drive.tools = {}
        /\ Remember("poor")
        /\ drive' = AfterValidate
  /\ call' = Idle
  /\ UNCHANGED <<identityVars, has, running, data>>

\* ToolRegistry.check_drift: an error counts as no drift.
CheckDrift ==
  /\ drive.left > 0 /\ call.at = "idle"
  /\ Begin("request")
  /\ UNCHANGED <<identityVars, has, controlVars>>

\* After the last tool an entry without ids and decisions is remembered.
DriftChecked ==
  /\ drive.left > 0 /\ call.at = "done"
  /\ call' = Idle
  /\ IF drive.left > 1
     THEN drive' = [drive EXCEPT !.left = @ - 1] /\ UNCHANGED cache
     ELSE drive' = AfterValidate /\ Remember("poor")
  /\ UNCHANGED <<identityVars, has, running, data>>

\* EngramSDK.scope: GET /registry/scope/{name}; failing, the Scope stays empty.
AskForTools ==
  /\ drive.stage = "resolve" /\ call.at = "idle"
  /\ Begin("request")
  /\ UNCHANGED <<identityVars, has, controlVars>>

ToolsFound ==
  /\ drive.stage = "resolve" /\ call.at = "done"
  /\ call' = Idle
  /\ \E found \in {{}} \cup (IF call.result = "ok" THEN {Named[drive.step]} ELSE {}) :
       drive' = [drive EXCEPT !.stage = "enter", !.tools = found]
  /\ UNCHANGED <<identityVars, has, running, cache, data>>

-----------------------------------------------------------------------------
(* Scope.activate: the scope is sent to the server and the EAT replaced;   *)
(* neither failure is noticed.                                             *)

Activate ==
  /\ drive.stage = "activate" /\ call.at = "idle"
  /\ Begin("request")
  /\ UNCHANGED <<identityVars, has, controlVars>>

Activated ==
  /\ drive.stage = "activate" /\ call.at = "done"
  /\ IF call.result = "ok"
     THEN Begin("generate") /\ drive' = [drive EXCEPT !.stage = "narrow"]
     ELSE call' = Idle /\ drive' = [drive EXCEPT !.stage = "infer"]
  /\ UNCHANGED <<identityVars, has, running, cache, data>>

Narrowed ==
  /\ drive.stage = "narrow" /\ call.at = "done"
  /\ call' = Idle
  /\ drive' = [drive EXCEPT !.stage = "infer"]
  /\ UNCHANGED <<identityVars, has, running, cache, data>>

\* The model proposes a tool of the step and its handler returns; an output of
\* None counts as missing.
ToolReturns ==
  /\ drive.stage = "infer" /\ Tools[drive.step] # {}
  /\ data' \in {data \cup {drive.step}, data \ {drive.step}}
  /\ \E next \in Follows[drive.step] : drive' = Entered(next, data')
  /\ UNCHANGED <<identityVars, sdkVars, running, cache>>

\* It proposes another tool (one the registry found included), there is no
\* handler, or the model or the handler raises.
DriveRaises ==
  /\ drive.stage = "infer"
  /\ drive' = NoDrive
  /\ UNCHANGED <<identityVars, sdkVars, running, cache, data>>

ClientStep ==
  \/ TransportStep /\ UNCHANGED controlVars
  \/ ValidateFromCache \/ AskToValidate \/ Validated \/ CheckDrift \/ DriftChecked
  \/ AskForTools \/ ToolsFound \/ Activate \/ Activated \/ Narrowed \/ ToolReturns \/ DriveRaises

-----------------------------------------------------------------------------
(* The user's other programs, time and Redis *)

BrowserLogin(h) == Login(h) /\ UNCHANGED <<redisUp, eat, refresh, serving>>

OtherPrograms ==
  \E h \in running \ {Sdk} :
    \/ BrowserLogin(h) \/ Logout(h) \/ ListSessions(h) \/ RevokeEat(h)
    \/ \E p \in Procs : ReadRefresh(p, h) \/ DeleteRefresh(p) \/ FinishRefresh(p, h)

Tick == Age /\ CallAges /\ UNCHANGED <<redisUp, serving, has>>

RedisFails ==
  /\ redisUp /\ redisUp' = FALSE
  /\ CallSeesOutage
  /\ UNCHANGED <<token, listLeft, eat, refresh, serving, has>>

\* Keys survive the outage.
RedisReturns ==
  /\ ~redisUp /\ redisUp' = TRUE
  /\ UNCHANGED <<token, listLeft, eat, refresh, serving, sdkVars>>

Next ==
  \/ ClientStep \/ StartDrive \/ ResetGlobalData
  \/ OtherPrograms /\ CallSeesOutage /\ UNCHANGED <<has, controlVars>>
  \/ (Tick \/ RedisFails \/ RedisReturns) /\ UNCHANGED controlVars

\* The client is one thread; the server answers or the client times out, and
\* the model and the tool handlers return.
Spec == Init /\ [][Next]_vars /\ WF_vars(ClientStep)

-----------------------------------------------------------------------------

\* A step that is entered reaches the model, or the drive is over, however often
\* the server refuses the SDK's tokens: the renewals nested in the transport, the
\* two validations of a step and the drift checks are bounded, although the
\* steps themselves may go round for ever (ControlPlane.drive).
StepsReachModel == []<>(drive.stage \in {"idle", "infer"})
=============================================================================
