------------------------- MODULE ControlPlaneProofs -------------------------
(***************************************************************************)
(* Proofs about ControlPlane, with the Identity and SdkTransport modules   *)
(* below it: for any holders, server processes, lives of tokens, steps and *)
(* tools.                                                                  *)
(***************************************************************************)
EXTENDS ControlPlane, FiniteSetTheorems, TLAPS

-----------------------------------------------------------------------------
(* The inductive invariants *)

\* No access token outlives the list of sessions; and one that can be used, is
\* listed, unless its logout failed halfway.
ListInv ==
  \A h \in Holders :
    /\ token[h].left <= listLeft
    /\ \/ token[h].left = 0 \/ token[h].session = 0 \/ token[h].ban >= token[h].left
       \/ token[h].listed \/ token[h].halfOut

Serving == {p \in Procs : serving[p] # "none"}

\* Once a process has consumed the refresh token, nobody finds it any more; and
\* the EATs it bought, and may still buy, are no more than the processes.
RefreshInv ==
  /\ refresh.left > 0 => refresh.used = 0 /\ \A p \in Procs : serving[p] # "consumed"
  /\ refresh.used + Cardinality(Serving) <= Cardinality(Procs)

\* Neither a failure of Redis nor an EAT's whole life since the call began.
Undisturbed == ~call.outage /\ call.aged < EatLife

\* In an undisturbed call a credential that has been renewed is as old as the
\* call at most, so it has not expired.
CallInv ==
  /\ token[Sdk].ban = 0
  /\ call.at \notin {"idle", "done"} /\ ~call.outage => redisUp
  /\ call.at = "start" => ~call.resent
  /\ Undisturbed /\ call.at = "post" /\ call.renewed =>
       token[Sdk].left >= AccessLife - call.aged /\ token[Sdk].session >= AccessLife - call.aged
  /\ Undisturbed /\ call.at = "send" /\ call.resent => eat[Sdk] >= EatLife - call.aged
  /\ RefusedOnlyWhenKilled

-----------------------------------------------------------------------------
(* Type correctness, but for the bound on what the refresh token bought *)

PartsTypeOK ==
  /\ redisUp \in BOOLEAN
  /\ token \in [Holders -> Token]
  /\ listLeft \in 0 .. AccessLife
  /\ eat \in [Holders -> 0 .. EatLife]
  /\ refresh \in [left: 0 .. RefreshLife, used: Nat]
  /\ serving \in [Procs -> {"none", "read", "consumed"}]
  /\ SdkTypeOK
  /\ running \in Casts
  /\ drive \in Drive
  /\ cache \in [ToolSets -> {"none", "poor", "full"}]
  /\ data \subseteq Steps

LEMMA Lives ==
  /\ AccessLife \in Nat /\ AccessLife > 0 /\ EatLife \in Nat /\ EatLife > 0 /\ RefreshLife \in Nat
  /\ 0 \in 0 .. AccessLife /\ AccessLife \in 0 .. AccessLife /\ 0 \in 0 .. EatLife /\ EatLife \in 0 .. EatLife
  /\ EatLife <= AccessLife /\ Sdk \in Holders
  /\ \A t \in 0 .. AccessLife : Less(t) \in 0 .. AccessLife
  /\ \A t \in 0 .. EatLife : Less(t) \in 0 .. EatLife
  /\ \A t \in 0 .. RefreshLife : Less(t) \in 0 .. RefreshLife
BY IdentityAssumption, SdkAssumption DEF Less

\* The parts of a token, and what an update of one of them makes.
LEMMA TokenParts ==
  \A r \in Token :
    /\ r.held \in BOOLEAN /\ r.left \in 0 .. AccessLife /\ r.session \in 0 .. AccessLife /\ r.ban \in 0 .. AccessLife
    /\ r.listed \in BOOLEAN /\ r.halfOut \in BOOLEAN
BY DEF Token

LEMMA TokenUpdates ==
  /\ \A r \in Token, n \in 0 .. AccessLife :
       [r EXCEPT !.left = n] \in Token /\ [r EXCEPT !.session = n] \in Token /\ [r EXCEPT !.ban = n] \in Token
  /\ \A r \in Token, b \in BOOLEAN : [r EXCEPT !.listed = b] \in Token /\ [r EXCEPT !.halfOut = b] \in Token
BY DEF Token

LEMMA CallUpdates ==
  /\ \A c \in Call, a \in {"idle", "start", "generate", "login", "post", "send", "done"} : [c EXCEPT !.at = a] \in Call
  /\ \A c \in Call, b \in BOOLEAN :
       [c EXCEPT !.resent = b] \in Call /\ [c EXCEPT !.renewed = b] \in Call /\ [c EXCEPT !.outage = b] \in Call
  /\ \A c \in Call, r \in {"none", "ok", "refused", "failed"} : [c EXCEPT !.result = r] \in Call
  /\ \A c \in Call, g \in {"request", "generate"} : [c EXCEPT !.goal = g] \in Call
  /\ \A c \in Call, n \in 0 .. EatLife : [c EXCEPT !.aged = n] \in Call
BY DEF Call

LEMMA CallParts ==
  \A c \in Call :
    /\ c.at \in {"idle", "start", "generate", "login", "post", "send", "done"}
    /\ c.resent \in BOOLEAN /\ c.renewed \in BOOLEAN /\ c.outage \in BOOLEAN
    /\ c.result \in {"none", "ok", "refused", "failed"} /\ c.aged \in 0 .. EatLife
BY DEF Call

LEMMA DriveUpdates ==
  /\ NoDrive \in Drive
  /\ \A d \in Drive, g \in {"idle", "setup", "resolve", "enter", "activate", "narrow", "infer"} : [d EXCEPT !.stage = g] \in Drive
  /\ \A d \in Drive, n \in Nat : [d EXCEPT !.left = n] \in Drive
  /\ \A d \in Drive, t \in ToolSets : [d EXCEPT !.stage = "enter", !.tools = t] \in Drive
  /\ \A d \in Drive : d.step \in Steps /\ d.left \in Nat /\ d.tools \in ToolSets
<1>1. {} \in ToolSets /\ 1 \in Steps
  BY ControlPlaneAssumption DEF ToolSets, Steps
<1> QED
  BY <1>1 DEF Drive, NoDrive

LEMMA IdleCall == Idle \in Call /\ Idle.at = "idle" /\ Idle.result = "none"
BY Lives DEF Idle, Call

LEMMA InitTypeOK == ASSUME Init PROVE PartsTypeOK
<1>1. NoToken \in Token
  BY Lives DEF NoToken, Token
<1>2. token \in [Holders -> Token] /\ listLeft \in 0 .. AccessLife /\ eat \in [Holders -> 0 .. EatLife]
  BY <1>1, Lives DEF Init, IdentityInit
<1>3. refresh \in [left: 0 .. RefreshLife, used: Nat]
  BY Lives DEF Init, IdentityInit
<1> QED
  BY <1>2, <1>3, IdleCall, DriveUpdates DEF Init, IdentityInit, SdkInit, PartsTypeOK, SdkTypeOK

\* What the small operators make of a call and a drive.
LEMMA CallTypes ==
  ASSUME PartsTypeOK
  PROVE  /\ call \in Call /\ has \subseteq {"token", "eat"}
         /\ \A r \in {"none", "ok", "refused", "failed"} : Done(r) => call' \in Call
         /\ \A a \in {"idle", "start", "generate", "login", "post", "send", "done"} : GoTo(a) => call' \in Call
         /\ \A g \in {"request", "generate"} : Begin(g) => call' \in Call
         /\ RenewOnce => call' \in Call
         /\ CallAges => call' \in Call
         /\ CallSeesOutage => call' \in Call
<1>0. call \in Call /\ has \subseteq {"token", "eat"} /\ redisUp \in BOOLEAN
  BY DEF PartsTypeOK, SdkTypeOK
<1>1. \A r \in {"none", "ok", "refused", "failed"} : Done(r) => call' \in Call
  BY <1>0 DEF Done, Call
<1>2. \A a \in {"idle", "start", "generate", "login", "post", "send", "done"} : GoTo(a) => call' \in Call
  BY <1>0, CallUpdates DEF GoTo
<1>3. \A g \in {"request", "generate"} : Begin(g) => call' \in Call
  <2>1. \A g \in {"request", "generate"}, a \in {"start", "generate"}, b \in BOOLEAN :
          [Idle EXCEPT !.goal = g, !.outage = b, !.at = a] \in Call
    BY IdleCall DEF Call
  <2> QED
    BY <1>0, <2>1 DEF Begin
<1>4. RenewOnce => call' \in Call
  <2>1. [call EXCEPT !.at = "login", !.renewed = TRUE] \in Call
    BY <1>0 DEF Call
  <2> QED
    BY <1>1, <2>1 DEF RenewOnce
<1>5. CallAges => call' \in Call
  <2>1. call.aged \in 0 .. EatLife
    BY <1>0, CallParts
  <2>2. call.aged # EatLife => call.aged + 1 \in 0 .. EatLife
    BY <2>1, Lives
  <2> QED
    BY <1>0, <2>2, CallUpdates DEF CallAges
<1>6. CallSeesOutage => call' \in Call
  BY <1>0, CallUpdates DEF CallSeesOutage
<1> QED
  BY <1>0, <1>1, <1>2, <1>3, <1>4, <1>5, <1>6

LEMMA DriveTypes ==
  ASSUME PartsTypeOK
  PROVE  /\ AfterValidate \in Drive
         /\ \A t \in Steps \cup {NoStep} : \A outputs : Entered(t, outputs) \in Drive
         /\ Cardinality(drive.tools) \in Nat /\ drive.tools \in ToolSets
         /\ \A e \in {"poor", "full"} : Remember(e) => cache' \in [ToolSets -> {"none", "poor", "full"}]
<1>0. drive \in Drive /\ drive.step \in Steps /\ cache \in [ToolSets -> {"none", "poor", "full"}]
  BY DriveUpdates DEF PartsTypeOK
<1>1. AfterValidate \in Drive
  BY <1>0 DEF AfterValidate, Drive
<1>2. \A t \in Steps \cup {NoStep} : \A outputs : Entered(t, outputs) \in Drive
  <2> SUFFICES ASSUME NEW t \in Steps \cup {NoStep}, NEW outputs PROVE Entered(t, outputs) \in Drive
    OBVIOUS
  <2>1. CASE t # NoStep /\ Needs[t] \subseteq outputs
    <3>1. Tools[t] \in ToolSets /\ t \in Steps
      BY <2>1 DEF ToolSets
    <3> QED
      BY <2>1, <3>1 DEF Entered, Drive
  <2>2. CASE ~(t # NoStep /\ Needs[t] \subseteq outputs)
    BY <2>2, DriveUpdates DEF Entered
  <2> QED
    BY <2>1, <2>2
<1>3. Cardinality(drive.tools) \in Nat /\ drive.tools \in ToolSets
  BY <1>0, DriveUpdates, ControlPlaneAssumption, FS_CardinalityType
<1>4. \A e \in {"poor", "full"} : Remember(e) => cache' \in [ToolSets -> {"none", "poor", "full"}]
  BY <1>0, <1>3 DEF Remember
<1> QED
  BY <1>1, <1>2, <1>3, <1>4

-----------------------------------------------------------------------------
(* What a step does to the server's state: every action of Next, whichever *)
(* program takes it, is one of these to the tokens, to the refresh token   *)
(* and to the EATs.                                                        *)

Extended(h) == TokenAnswer(h) = "ok" /\ ExtendSession(h) /\ UNCHANGED listLeft

TokenMoves ==
  \/ UNCHANGED <<token, listLeft>>
  \/ \E h \in Holders : Login(h) \/ Extended(h)
  \/ \E h \in Holders \ {Sdk} : Logout(h) \/ ListSessions(h)
  \/ Age

RefreshMoves ==
  \/ UNCHANGED <<refresh, serving>>
  \/ \E p \in Procs, h \in Holders : ReadRefresh(p, h) \/ DeleteRefresh(p) \/ FinishRefresh(p, h)
  \/ Age /\ UNCHANGED serving

EatMoves == UNCHANGED eat \/ (\E h \in Holders : IssueEat(h)) \/ Age

Moves == TokenMoves /\ RefreshMoves /\ EatMoves /\ redisUp' \in BOOLEAN

LEMMA NothingMoves == ASSUME UNCHANGED identityVars, redisUp \in BOOLEAN PROVE Moves
BY DEF identityVars, Moves, TokenMoves, RefreshMoves, EatMoves

LEMMA TransportMoves == ASSUME PartsTypeOK, TransportStep PROVE Moves
<1>0. redisUp \in BOOLEAN /\ Sdk \in Holders
  BY Lives DEF PartsTypeOK
<1>1. CASE UseEat \/ Generate \/ Send \/ TransportFails
  BY <1>0, <1>1, NothingMoves DEF UseEat, Generate, Send, TransportFails
<1>2. CASE LogIn
  BY <1>0, <1>2 DEF LogIn, Moves, TokenMoves, RefreshMoves, EatMoves
<1>3. CASE PostGenerate
  BY <1>0, <1>3 DEF PostGenerate, Moves, TokenMoves, RefreshMoves, EatMoves, Extended
<1> QED
  BY <1>1, <1>2, <1>3 DEF TransportStep

LEMMA ClientMoves == ASSUME PartsTypeOK, ClientStep PROVE Moves
<1>0. redisUp \in BOOLEAN
  BY DEF PartsTypeOK
<1>1. CASE TransportStep
  BY <1>1, TransportMoves
<1>2. CASE ValidateFromCache \/ AskToValidate \/ Validated \/ CheckDrift \/ DriftChecked
  BY <1>0, <1>2, NothingMoves DEF ValidateFromCache, AskToValidate, Validated, CheckDrift, DriftChecked
<1>3. CASE AskForTools \/ ToolsFound \/ Activate \/ Activated \/ Narrowed \/ ToolReturns \/ DriveRaises
  BY <1>0, <1>3, NothingMoves DEF AskForTools, ToolsFound, Activate, Activated, Narrowed, ToolReturns, DriveRaises
<1> QED
  BY <1>1, <1>2, <1>3 DEF ClientStep

LEMMA OthersMove == ASSUME PartsTypeOK, OtherPrograms PROVE Moves
<1>0. redisUp \in BOOLEAN /\ running \subseteq Holders
  BY ControlPlaneAssumption DEF PartsTypeOK
<1>1. PICK h \in Holders \ {Sdk} :
        \/ BrowserLogin(h) \/ Logout(h) \/ ListSessions(h) \/ RevokeEat(h)
        \/ \E p \in Procs : ReadRefresh(p, h) \/ DeleteRefresh(p) \/ FinishRefresh(p, h)
  BY <1>0 DEF OtherPrograms
<1>2. CASE BrowserLogin(h)
  BY <1>0, <1>2 DEF BrowserLogin, Moves, TokenMoves, RefreshMoves, EatMoves
<1>3. CASE Logout(h)
  <2>1. UNCHANGED <<eat, refresh, serving>> /\ redisUp' \in BOOLEAN
    BY <1>0, <1>3 DEF Logout
  <2> QED
    BY <1>3, <2>1 DEF Moves, TokenMoves, RefreshMoves, EatMoves
<1>4. CASE ListSessions(h)
  <2>1. UNCHANGED <<eat, refresh, serving>> /\ redisUp' \in BOOLEAN
    BY <1>0, <1>4 DEF ListSessions
  <2> QED
    BY <1>4, <2>1 DEF Moves, TokenMoves, RefreshMoves, EatMoves
<1>5. CASE RevokeEat(h)
  BY <1>0, <1>5 DEF RevokeEat, Moves, TokenMoves, RefreshMoves, EatMoves, Extended
<1>6. ASSUME NEW p \in Procs, ReadRefresh(p, h) PROVE Moves
  <2>1. Extended(h) /\ UNCHANGED eat /\ redisUp' \in BOOLEAN
    BY <1>0, <1>6 DEF ReadRefresh, Extended
  <2> QED
    BY <1>6, <2>1 DEF Moves, TokenMoves, RefreshMoves, EatMoves
<1>7. ASSUME NEW p \in Procs, DeleteRefresh(p) PROVE Moves
  <2>1. UNCHANGED <<redisUp, token, listLeft, eat>>
    BY <1>7 DEF DeleteRefresh
  <2> QED
    BY <1>0, <1>7, <2>1 DEF Moves, TokenMoves, RefreshMoves, EatMoves
<1>8. ASSUME NEW p \in Procs, FinishRefresh(p, h) PROVE Moves
  <2>1. UNCHANGED <<redisUp, token, listLeft>> /\ (IssueEat(h) \/ UNCHANGED eat)
    BY <1>8 DEF FinishRefresh
  <2> QED
    BY <1>0, <1>8, <2>1 DEF Moves, TokenMoves, RefreshMoves, EatMoves
<1> QED
  BY <1>1, <1>2, <1>3, <1>4, <1>5, <1>6, <1>7, <1>8

LEMMA StepMoves == ASSUME PartsTypeOK, [Next]_vars PROVE Moves
<1>0. redisUp \in BOOLEAN
  BY DEF PartsTypeOK
<1>1. CASE ClientStep
  BY <1>1, ClientMoves
<1>2. CASE StartDrive \/ ResetGlobalData
  BY <1>0, <1>2, NothingMoves DEF StartDrive, ResetGlobalData
<1>3. CASE OtherPrograms
  BY <1>3, OthersMove
<1>4. CASE Tick
  BY <1>0, <1>4 DEF Tick, Moves, TokenMoves, RefreshMoves, EatMoves
<1>5. CASE RedisFails \/ RedisReturns
  BY <1>0, <1>5 DEF RedisFails, RedisReturns, Moves, TokenMoves, RefreshMoves, EatMoves
<1>6. CASE UNCHANGED vars
  BY <1>0, <1>6, NothingMoves DEF vars
<1> QED
  BY <1>1, <1>2, <1>3, <1>4, <1>5, <1>6 DEF Next

-----------------------------------------------------------------------------
(* Every step keeps the types *)

LEMMA AgeTypes ==
  ASSUME PartsTypeOK, Age
  PROVE  /\ token' \in [Holders -> Token] /\ listLeft' \in 0 .. AccessLife
         /\ eat' \in [Holders -> 0 .. EatLife] /\ refresh' \in [left: 0 .. RefreshLife, used: Nat]
<1>1. ASSUME NEW h \in Holders
      PROVE  [token[h] EXCEPT !.left = Less(@), !.session = Less(@), !.ban = Less(@),
                              !.listed = @ /\ listLeft > 1] \in Token
  <2>1. token[h] \in Token
    BY DEF PartsTypeOK
  <2>2. /\ Less(token[h].left) \in 0 .. AccessLife /\ Less(token[h].session) \in 0 .. AccessLife
        /\ Less(token[h].ban) \in 0 .. AccessLife
    BY <2>1, TokenParts, Lives
  <2>3. (token[h].listed /\ listLeft > 1) \in BOOLEAN
    OBVIOUS
  <2> QED
    BY <2>1, <2>2, <2>3 DEF Token
<1>2. token' \in [Holders -> Token]
  BY <1>1 DEF Age
<1>3. listLeft' \in 0 .. AccessLife /\ eat' \in [Holders -> 0 .. EatLife]
  BY Lives DEF PartsTypeOK, Age
<1>4. refresh' \in [left: 0 .. RefreshLife, used: Nat]
  BY Lives DEF PartsTypeOK, Age
<1> QED
  BY <1>2, <1>3, <1>4

LEMMA TokenTypes ==
  ASSUME PartsTypeOK, TokenMoves PROVE token' \in [Holders -> Token] /\ listLeft' \in 0 .. AccessLife
<1>0. token \in [Holders -> Token] /\ listLeft \in 0 .. AccessLife
  BY DEF PartsTypeOK
<1>1. ASSUME NEW h \in Holders, Login(h) PROVE token' \in [Holders -> Token] /\ listLeft' \in 0 .. AccessLife
  <2>1. [held |-> TRUE, left |-> AccessLife, session |-> AccessLife, ban |-> 0, listed |-> TRUE, halfOut |-> FALSE] \in Token
    BY Lives DEF Token
  <2> QED
    BY <1>0, <1>1, <2>1, Lives DEF Login, ListLife
<1>2. ASSUME NEW h \in Holders, Extended(h) PROVE token' \in [Holders -> Token] /\ listLeft' \in 0 .. AccessLife
  <2>1. token' = [token EXCEPT ![h] = [token[h] EXCEPT !.session = AccessLife]]
    BY <1>0, <1>2 DEF Extended, ExtendSession
  <2>2. [token[h] EXCEPT !.session = AccessLife] \in Token
    BY <1>0, Lives, TokenUpdates
  <2> QED
    BY <1>0, <1>2, <2>1, <2>2 DEF Extended
<1>3. ASSUME NEW h \in Holders, Logout(h) PROVE token' \in [Holders -> Token] /\ listLeft' \in 0 .. AccessLife
  <2>0. token[h] \in Token
    BY <1>0
  <2>1. /\ [token[h] EXCEPT !.session = 0, !.listed = FALSE, !.ban = token[h].left] \in Token
        /\ [token[h] EXCEPT !.session = AccessLife, !.listed = FALSE, !.halfOut = TRUE] \in Token
    BY <2>0, Lives DEF Token
  <2>2. \/ token' = [token EXCEPT ![h] = [token[h] EXCEPT !.session = 0, !.listed = FALSE, !.ban = token[h].left]]
        \/ token' = [token EXCEPT ![h] = [token[h] EXCEPT !.session = AccessLife, !.listed = FALSE, !.halfOut = TRUE]]
    BY <1>0, <1>3 DEF Logout
  <2> QED
    BY <1>0, <1>3, <2>1, <2>2 DEF Logout
<1>4. ASSUME NEW h \in Holders, ListSessions(h) PROVE token' \in [Holders -> Token] /\ listLeft' \in 0 .. AccessLife
  <2>1. ASSUME NEW g \in Holders
        PROVE  [token[g] EXCEPT !.session = IF g = h THEN AccessLife ELSE @, !.listed = @ /\ token[g].session > 0] \in Token
    BY <1>0, Lives DEF Token
  <2> QED
    BY <1>0, <1>4, <2>1 DEF ListSessions
<1> QED
  BY <1>0, <1>1, <1>2, <1>3, <1>4, AgeTypes DEF TokenMoves

LEMMA RefreshTypes ==
  ASSUME PartsTypeOK, RefreshMoves
  PROVE  refresh' \in [left: 0 .. RefreshLife, used: Nat] /\ serving' \in [Procs -> {"none", "read", "consumed"}]
<1>0. refresh \in [left: 0 .. RefreshLife, used: Nat] /\ serving \in [Procs -> {"none", "read", "consumed"}]
  BY DEF PartsTypeOK
<1>1. ASSUME NEW p \in Procs, NEW h \in Holders, ReadRefresh(p, h) \/ DeleteRefresh(p) \/ FinishRefresh(p, h)
      PROVE  refresh' \in [left: 0 .. RefreshLife, used: Nat] /\ serving' \in [Procs -> {"none", "read", "consumed"}]
  BY <1>0, <1>1, Lives DEF ReadRefresh, DeleteRefresh, FinishRefresh
<1> QED
  BY <1>0, <1>1, AgeTypes DEF RefreshMoves

LEMMA EatTypes == ASSUME PartsTypeOK, EatMoves PROVE eat' \in [Holders -> 0 .. EatLife]
<1>0. eat \in [Holders -> 0 .. EatLife]
  BY DEF PartsTypeOK
<1>1. ASSUME NEW h \in Holders, IssueEat(h) PROVE eat' \in [Holders -> 0 .. EatLife]
  BY <1>0, <1>1, Lives DEF IssueEat
<1> QED
  BY <1>0, <1>1, AgeTypes DEF EatMoves

\* What a step does to the client's own state.
ClientTypes ==
  /\ SdkTypeOK
  /\ running \in Casts
  /\ drive \in Drive
  /\ cache \in [ToolSets -> {"none", "poor", "full"}]
  /\ data \subseteq Steps

LEMMA TransportTypes == ASSUME PartsTypeOK, TransportStep PROVE SdkTypeOK'
<1>0. call \in Call /\ has \subseteq {"token", "eat"}
  BY CallTypes
<1>1. CASE UseEat
  BY <1>0, <1>1, CallTypes DEF UseEat, SdkTypeOK
<1>2. CASE Generate
  <2>1. \A a \in {"post", "login"} : [call EXCEPT !.at = a, !.renewed = FALSE] \in Call
    BY <1>0 DEF Call
  <2> QED
    BY <1>0, <1>2, <2>1 DEF Generate, SdkTypeOK
<1>3. CASE LogIn
  BY <1>0, <1>3, CallTypes DEF LogIn, SdkTypeOK
<1>4. CASE PostGenerate
  BY <1>0, <1>4, CallTypes DEF PostGenerate, SdkTypeOK
<1>5. CASE Send
  <2>1. [call EXCEPT !.at = "generate", !.resent = TRUE] \in Call
    BY <1>0 DEF Call
  <2> QED
    BY <1>0, <1>5, <2>1, CallTypes DEF Send, SdkTypeOK
<1>6. CASE TransportFails
  BY <1>0, <1>6, CallTypes DEF TransportFails, SdkTypeOK
<1> QED
  BY <1>1, <1>2, <1>3, <1>4, <1>5, <1>6 DEF TransportStep

LEMMA DriverTypes == ASSUME PartsTypeOK, [Next]_vars PROVE ClientTypes'
<1>0. ClientTypes
  BY DEF PartsTypeOK, ClientTypes
<1>a. /\ call \in Call /\ has \subseteq {"token", "eat"} /\ Idle \in Call
      /\ drive \in Drive /\ drive.step \in Steps /\ drive.left \in Nat
  BY CallTypes, DriveUpdates, IdleCall DEF PartsTypeOK
<1>1. CASE TransportStep /\ UNCHANGED controlVars
  BY <1>0, <1>1, TransportTypes DEF controlVars, ClientTypes
<1>2. CASE ValidateFromCache
  BY <1>0, <1>2, DriveTypes DEF ValidateFromCache, sdkVars, ClientTypes, SdkTypeOK
<1>3. CASE AskToValidate \/ CheckDrift \/ AskForTools \/ Activate
  BY <1>0, <1>3, CallTypes DEF AskToValidate, CheckDrift, AskForTools, Activate, controlVars, ClientTypes, SdkTypeOK
<1>4. CASE Validated
  <2>1. drive' \in Drive
    BY <1>a, <1>4, DriveTypes, DriveUpdates DEF Validated
  <2>2. cache' \in [ToolSets -> {"none", "poor", "full"}]
    BY <1>0, <1>4, DriveTypes DEF Validated, ClientTypes
  <2> QED
    BY <1>0, <1>a, <1>4, <2>1, <2>2 DEF Validated, ClientTypes, SdkTypeOK
<1>5. CASE DriftChecked
  <2>0. drive.left > 0 => drive.left - 1 \in Nat
    BY <1>a
  <2>1. drive' \in Drive
    BY <1>a, <1>5, <2>0, DriveTypes, DriveUpdates DEF DriftChecked
  <2>2. cache' \in [ToolSets -> {"none", "poor", "full"}]
    BY <1>0, <1>5, DriveTypes DEF DriftChecked, ClientTypes
  <2> QED
    BY <1>0, <1>a, <1>5, <2>1, <2>2 DEF DriftChecked, ClientTypes, SdkTypeOK
<1>6. CASE Activated
  <2>1. drive' \in Drive
    BY <1>a, <1>6, DriveUpdates DEF Activated
  <2>2. call' \in Call
    BY <1>a, <1>6, CallTypes DEF Activated
  <2> QED
    BY <1>0, <1>6, <2>1, <2>2 DEF Activated, ClientTypes, SdkTypeOK
<1>7. CASE Narrowed
  BY <1>0, <1>a, <1>7, DriveUpdates DEF Narrowed, ClientTypes, SdkTypeOK
<1>8. CASE ToolReturns
  <2>1. Follows[drive.step] \subseteq Steps \cup {NoStep}
    BY <1>a, ControlPlaneAssumption
  <2>2. drive' \in Drive
    BY <1>8, <2>1, DriveTypes DEF ToolReturns
  <2> QED
    BY <1>0, <1>a, <1>8, <2>2 DEF ToolReturns, sdkVars, ClientTypes, SdkTypeOK
<1>9. CASE DriveRaises
  BY <1>0, <1>9, DriveUpdates DEF DriveRaises, sdkVars, ClientTypes, SdkTypeOK
<1>10. CASE StartDrive
  BY <1>0, <1>10, DriveTypes DEF StartDrive, sdkVars, ClientTypes, SdkTypeOK
<1>11. CASE ResetGlobalData
  BY <1>0, <1>11 DEF ResetGlobalData, sdkVars, ClientTypes, SdkTypeOK
<1>12. CASE OtherPrograms /\ CallSeesOutage /\ UNCHANGED <<has, controlVars>>
  BY <1>0, <1>12, CallTypes DEF controlVars, ClientTypes, SdkTypeOK
<1>13. CASE (Tick \/ RedisFails \/ RedisReturns) /\ UNCHANGED controlVars
  <2>1. UNCHANGED has /\ call' \in Call
    BY <1>a, <1>13, CallTypes DEF Tick, RedisFails, RedisReturns, sdkVars
  <2> QED
    BY <1>0, <1>13, <2>1 DEF controlVars, ClientTypes, SdkTypeOK
<1>14. CASE UNCHANGED vars
  BY <1>0, <1>14 DEF vars, sdkVars, controlVars, ClientTypes, SdkTypeOK
<1>15. CASE ToolsFound
  <2>1. Named[drive.step] \in ToolSets /\ {} \in ToolSets
    BY <1>a DEF ToolSets
  <2>2. drive' \in Drive
    <3>1. PICK found \in {{}, Named[drive.step]} : drive' = [drive EXCEPT !.stage = "enter", !.tools = found]
      BY <1>15 DEF ToolsFound
    <3> QED
      BY <1>a, <2>1, <3>1, DriveUpdates
  <2> QED
    BY <1>0, <1>a, <1>15, <2>2 DEF ToolsFound, ClientTypes, SdkTypeOK
<1> QED
  BY <1>1, <1>2, <1>3, <1>4, <1>5, <1>6, <1>7, <1>8, <1>9, <1>10, <1>11, <1>12, <1>13, <1>14, <1>15 DEF Next, ClientStep

LEMMA StepPartsTypeOK == ASSUME PartsTypeOK, [Next]_vars PROVE PartsTypeOK'
BY StepMoves, TokenTypes, RefreshTypes, EatTypes, DriverTypes DEF Moves, ClientTypes, PartsTypeOK

-----------------------------------------------------------------------------
(* A usable session is listed *)

LEMMA Answered ==
  ASSUME PartsTypeOK, NEW h \in Holders, TokenAnswer(h) = "ok"
  PROVE  redisUp /\ token[h].left > 0 /\ token[h].ban = 0 /\ token[h].session > 0
<1>1. token[h].left \in 0 .. AccessLife /\ token[h].session \in 0 .. AccessLife /\ token[h].ban \in 0 .. AccessLife
  BY TokenParts DEF PartsTypeOK
<1> QED
  BY <1>1, Lives DEF TokenAnswer, IsTokenRevoked

\* ListInv of one holder's token r, the list living for n.
Covered(r, n) ==
  /\ r.left <= n
  /\ \/ r.left = 0 \/ r.session = 0 \/ r.ban >= r.left
     \/ r.listed \/ r.halfOut

LEMMA StepListInv == ASSUME PartsTypeOK, ListInv, [Next]_vars PROVE ListInv'
<1>0. TokenMoves /\ token \in [Holders -> Token] /\ listLeft \in 0 .. AccessLife
  BY StepMoves DEF Moves, PartsTypeOK
<1>1. ASSUME NEW g \in Holders PROVE token[g] \in Token /\ Covered(token[g], listLeft)
  BY <1>0 DEF ListInv, Covered
<1>a. ASSUME \A g \in Holders : Covered(token'[g], listLeft') PROVE ListInv'
  BY <1>a DEF ListInv, Covered
<1>2. CASE UNCHANGED <<token, listLeft>>
  BY <1>1, <1>2, <1>a
<1>3. ASSUME NEW h \in Holders, Login(h), NEW g \in Holders PROVE Covered(token'[g], listLeft')
  <2>1. listLeft' = AccessLife /\ token[g].left \in 0 .. AccessLife
    BY <1>1, <1>3, TokenParts DEF Login, ListLife
  <2>2. CASE g = h
    BY <1>0, <1>3, <2>1, <2>2, Lives DEF Login, Covered
  <2>3. CASE g # h
    BY <1>0, <1>1, <1>3, <2>1, <2>3, Lives DEF Login, Covered
  <2> QED
    BY <2>2, <2>3
<1>4. ASSUME NEW h \in Holders, Extended(h), NEW g \in Holders PROVE Covered(token'[g], listLeft')
  <2>1. token[h].left > 0 /\ token[h].ban = 0 /\ token[h].session > 0
    BY <1>4, Answered DEF Extended
  <2>2. CASE g = h
    <3>1. token'[g] = [token[g] EXCEPT !.session = AccessLife]
      BY <1>0, <1>4, <2>2 DEF Extended, ExtendSession
    <3>2. /\ token'[g].left = token[g].left /\ token'[g].ban = token[g].ban
          /\ token'[g].listed = token[g].listed /\ token'[g].halfOut = token[g].halfOut
      BY <1>1, <3>1 DEF Token
    <3> QED
      BY <1>1, <1>4, <2>1, <2>2, <3>2 DEF Extended, Covered
  <2>3. CASE g # h
    BY <1>0, <1>1, <1>4, <2>3 DEF Extended, ExtendSession
  <2> QED
    BY <2>2, <2>3
<1>5. ASSUME NEW h \in Holders, Logout(h), NEW g \in Holders PROVE Covered(token'[g], listLeft')
  <2>1. CASE g = h
    <3>1. \/ token'[g] = [token[g] EXCEPT !.session = 0, !.listed = FALSE, !.ban = token[g].left]
          \/ token'[g] = [token[g] EXCEPT !.session = AccessLife, !.listed = FALSE, !.halfOut = TRUE]
      BY <1>0, <1>5, <2>1 DEF Logout
    <3>2. token'[g].left = token[g].left /\ (token'[g].session = 0 \/ token'[g].halfOut)
      BY <1>1, <3>1 DEF Token
    <3> QED
      BY <1>1, <1>5, <3>2 DEF Logout, Covered
  <2>2. CASE g # h
    BY <1>0, <1>1, <1>5, <2>2 DEF Logout
  <2> QED
    BY <2>1, <2>2
<1>6. ASSUME NEW h \in Holders, ListSessions(h), NEW g \in Holders PROVE Covered(token'[g], listLeft')
  <2>1. token[h].left > 0 /\ token[h].ban = 0 /\ token[h].session > 0
    BY <1>6, Answered DEF ListSessions
  <2>2. token'[g] = [token[g] EXCEPT !.session = IF g = h THEN AccessLife ELSE @, !.listed = @ /\ token[g].session > 0]
    BY <1>6 DEF ListSessions
  <2>3. /\ token'[g].left = token[g].left /\ token'[g].ban = token[g].ban /\ token'[g].halfOut = token[g].halfOut
        /\ token'[g].session = IF g = h THEN AccessLife ELSE token[g].session
        /\ token'[g].listed = (token[g].listed /\ token[g].session > 0)
    BY <1>1, <2>2 DEF Token
  <2>4. token[g].session \in 0 .. AccessLife /\ token[g].listed \in BOOLEAN /\ UNCHANGED listLeft
    BY <1>1, <1>6, TokenParts DEF ListSessions
  <2>5. CASE token[g].session > 0
    <3>1. token'[g].listed = token[g].listed
      BY <2>3, <2>4, <2>5
    <3> QED
      BY <1>1, <2>3, <2>4, <2>5, <3>1 DEF Covered
  <2>6. CASE token[g].session = 0
    <3>1. token'[g].session = 0
      BY <2>1, <2>3, <2>6
    <3> QED
      BY <1>1, <2>3, <2>4, <3>1 DEF Covered
  <2> QED
    BY <2>4, <2>5, <2>6
<1>7. ASSUME Age, NEW g \in Holders PROVE Covered(token'[g], listLeft')
  <2>0. /\ token[g].left \in 0 .. AccessLife /\ token[g].session \in 0 .. AccessLife /\ token[g].ban \in 0 .. AccessLife
        /\ token[g].listed \in BOOLEAN /\ token[g].halfOut \in BOOLEAN
    BY <1>1, TokenParts
  <2>1. /\ token'[g].left = Less(token[g].left) /\ token'[g].session = Less(token[g].session)
        /\ token'[g].ban = Less(token[g].ban) /\ token'[g].halfOut = token[g].halfOut
        /\ token'[g].listed = (token[g].listed /\ listLeft > 1)
    BY <1>1, <1>7 DEF Age, Token
  <2>2. listLeft' = Less(listLeft)
    BY <1>7 DEF Age
  <2>3. token'[g].left <= listLeft'
    BY <1>0, <1>1, <2>0, <2>1, <2>2, Lives DEF Less, Covered
  <2>4. CASE listLeft > 1
    BY <1>0, <1>1, <2>0, <2>1, <2>3, <2>4, Lives DEF Less, Covered
  <2>5. CASE ~(listLeft > 1)
    <3>1. token'[g].left = 0
      BY <1>0, <1>1, <2>0, <2>1, <2>5, Lives DEF Less, Covered
    <3> QED
      BY <2>3, <3>1 DEF Covered
  <2> QED
    BY <2>4, <2>5
<1> QED
  BY <1>0, <1>a, <1>2, <1>3, <1>4, <1>5, <1>6, <1>7 DEF TokenMoves

\* SessionService lists every session that can still be used, unless its logout
\* failed halfway: the list lives as long as the last session created, and no
\* access token longer (create_session, extend_session, get_user_sessions).
THEOREM SessionsAreListed == Spec => []UsableSessionListed
<1>1. Init => PartsTypeOK /\ ListInv
  <2>1. Init => ListInv
    BY DEF Init, IdentityInit, NoToken, ListInv
  <2> QED
    BY <2>1, InitTypeOK
<1>2. PartsTypeOK /\ ListInv /\ [Next]_vars => PartsTypeOK' /\ ListInv'
  BY StepPartsTypeOK, StepListInv
<1>3. PartsTypeOK /\ ListInv => UsableSessionListed
  <2>1. ASSUME PartsTypeOK, ListInv, NEW h \in Holders, Usable(h) PROVE token[h].listed \/ token[h].halfOut
    <3>1. token[h].left \in 0 .. AccessLife /\ token[h].session \in 0 .. AccessLife
      BY <2>1, TokenParts DEF PartsTypeOK
    <3> QED
      BY <2>1, <3>1, Lives DEF Usable, ListInv
  <2> QED
    BY <2>1 DEF UsableSessionListed
<1> QED
  BY <1>1, <1>2, <1>3, PTL DEF Spec

-----------------------------------------------------------------------------
(* The refresh token *)

LEMMA ServingParts == Serving \subseteq Procs /\ IsFiniteSet(Serving) /\ IsFiniteSet(Procs)
                      /\ Cardinality(Serving) \in Nat /\ Cardinality(Procs) \in Nat
<1>1. Serving \subseteq Procs
  BY DEF Serving
<1> QED
  BY <1>1, IdentityAssumption, FS_Subset, FS_CardinalityType

\* Processes that are done are no longer serving.
LEMMA FewerServe == ASSUME Serving' \subseteq Serving PROVE Cardinality(Serving') <= Cardinality(Serving)
BY ServingParts, FS_Subset

LEMMA StepRefreshInv == ASSUME PartsTypeOK, RefreshInv, [Next]_vars PROVE RefreshInv'
<1>0. RefreshMoves /\ refresh \in [left: 0 .. RefreshLife, used: Nat] /\ serving \in [Procs -> {"none", "read", "consumed"}]
  BY StepMoves DEF Moves, PartsTypeOK
<1>a. /\ Cardinality(Serving) \in Nat /\ Cardinality(Procs) \in Nat /\ refresh.used \in Nat /\ refresh.left \in 0 .. RefreshLife
      /\ Serving' \subseteq Procs /\ IsFiniteSet(Procs) /\ Cardinality(Serving') \in Nat
  <2>1. Serving' \subseteq Procs
    BY DEF Serving
  <2>2. IsFiniteSet(Procs) /\ IsFiniteSet(Serving')
    BY <2>1, IdentityAssumption, FS_Subset
  <2> QED
    BY <1>0, <2>1, <2>2, ServingParts, FS_CardinalityType
<1>1. CASE UNCHANGED <<refresh, serving>>
  BY <1>1 DEF RefreshInv, Serving
<1>2. ASSUME NEW p \in Procs, NEW h \in Holders, ReadRefresh(p, h) PROVE RefreshInv'
  <2>1. refresh' = refresh /\ refresh.left > 0 /\ refresh.used = 0
    BY <1>2 DEF ReadRefresh, RefreshInv
  <2>2. \A q \in Procs : serving'[q] # "consumed"
    BY <1>0, <1>2, <2>1 DEF ReadRefresh, RefreshInv
  <2>3. Cardinality(Serving') <= Cardinality(Procs)
    BY <1>a, FS_Subset
  <2> QED
    BY <1>a, <2>1, <2>2, <2>3 DEF RefreshInv
<1>3. ASSUME NEW p \in Procs, DeleteRefresh(p) PROVE RefreshInv'
  <2>1. refresh'.used = refresh.used /\ refresh'.left = IF redisUp THEN 0 ELSE refresh.left
    BY <1>0, <1>3 DEF DeleteRefresh
  <2>2. ~redisUp => serving' = [serving EXCEPT ![p] = "none"]
    BY <1>3 DEF DeleteRefresh
  <2>3. refresh'.left > 0 => refresh'.used = 0 /\ \A q \in Procs : serving'[q] # "consumed"
    BY <1>0, <2>1, <2>2 DEF RefreshInv
  <2>4. Serving' \subseteq Serving
    BY <1>0, <1>3 DEF DeleteRefresh, Serving
  <2>5. Cardinality(Serving') <= Cardinality(Serving)
    BY <2>4, FewerServe
  <2> QED
    BY <1>a, <2>1, <2>3, <2>5 DEF RefreshInv
<1>4. ASSUME NEW p \in Procs, NEW h \in Holders, FinishRefresh(p, h) PROVE RefreshInv'
  <2>1. refresh'.left = refresh.left /\ refresh'.used \in {refresh.used, refresh.used + 1}
    BY <1>0, <1>4 DEF FinishRefresh
  <2>2. ~(refresh.left > 0)
    BY <1>4 DEF FinishRefresh, RefreshInv
  <2>3. p \in Serving /\ Serving' = Serving \ {p}
    BY <1>0, <1>4 DEF FinishRefresh, Serving
  <2>4. Cardinality(Serving') = Cardinality(Serving) - 1
    BY <2>3, ServingParts, FS_RemoveElement
  <2> QED
    BY <1>a, <2>1, <2>2, <2>4 DEF RefreshInv
<1>5. CASE Age /\ UNCHANGED serving
  <2>1. refresh'.left = Less(refresh.left) /\ refresh'.used = refresh.used /\ Serving' = Serving
    BY <1>0, <1>5 DEF Age, Serving
  <2>2. refresh'.left > 0 => refresh.left > 0
    BY <1>a, <2>1, Lives DEF Less
  <2> QED
    BY <1>5, <2>1, <2>2 DEF RefreshInv
<1> QED
  BY <1>0, <1>1, <1>2, <1>3, <1>4, <1>5 DEF RefreshMoves

LEMMA RefreshCorrect == Spec => [](PartsTypeOK /\ RefreshInv)
<1>1. Init => PartsTypeOK /\ RefreshInv
  <2>1. ASSUME Init PROVE RefreshInv
    <3>1. refresh.used = 0 /\ \A p \in Procs : serving[p] = "none"
      BY <2>1 DEF Init, IdentityInit
    <3>2. Cardinality(Serving) <= Cardinality(Procs)
      BY ServingParts, FS_Subset
    <3> QED
      BY <3>1, <3>2, ServingParts DEF RefreshInv
  <2> QED
    BY <2>1, InitTypeOK
<1>2. PartsTypeOK /\ RefreshInv /\ [Next]_vars => PartsTypeOK' /\ RefreshInv'
  BY StepPartsTypeOK, StepRefreshInv
<1> QED
  BY <1>1, <1>2, PTL DEF Spec

\* Every variable of ControlPlane keeps its type; the refresh token buys at most
\* one EAT for each process of the server.
THEOREM TypeCorrect == Spec => []TypeOK
<1>1. ASSUME PartsTypeOK, RefreshInv PROVE TypeOK
  <2>1. refresh.used \in 0 .. Cardinality(Procs)
    BY <1>1, ServingParts DEF PartsTypeOK, RefreshInv
  <2> QED
    BY <1>1, <2>1 DEF PartsTypeOK, TypeOK, IdentityTypeOK
<1> QED
  BY <1>1, RefreshCorrect, PTL

\* _consume_refresh_token: a request that finds the refresh token does so
\* before any that found it has bought an EAT with it.
THEOREM RefreshIsUsedOnce == Spec => RefreshedOnce
<1>1. PartsTypeOK /\ RefreshInv /\ [Next]_vars =>
        [\A p \in Procs : serving[p] = "none" /\ serving'[p] = "read" => refresh.used = 0]_identityVars
  <2>1. ASSUME PartsTypeOK, RefreshInv, [Next]_vars, NEW p \in Procs, serving[p] = "none", serving'[p] = "read"
        PROVE  refresh.used = 0
    <3>0. RefreshMoves /\ serving \in [Procs -> {"none", "read", "consumed"}]
      BY <2>1, StepMoves DEF Moves, PartsTypeOK
    <3>1. PICK q \in Procs, h \in Holders : ReadRefresh(q, h) \/ DeleteRefresh(q) \/ FinishRefresh(q, h)
      BY <2>1, <3>0 DEF RefreshMoves
    <3>2. ~DeleteRefresh(q) /\ ~FinishRefresh(q, h)
      BY <2>1, <3>0 DEF DeleteRefresh, FinishRefresh
    <3> QED
      BY <2>1, <3>1, <3>2 DEF ReadRefresh, RefreshInv
  <2> QED
    BY <2>1
<1> QED
  BY <1>1, RefreshCorrect, PTL DEF Spec, RefreshedOnce

-----------------------------------------------------------------------------
(* A request is refused only when it had no chance *)

LEMMA CallFields ==
  ASSUME call \in Call
  PROVE  /\ \A r : Done(r) => /\ call'.at = "done" /\ call'.result = r
                              /\ call'.outage = call.outage /\ call'.aged = call.aged
         /\ \A a : GoTo(a) => /\ call'.at = a /\ call'.result = call.result
                              /\ call'.outage = call.outage /\ call'.aged = call.aged
                              /\ call'.resent = call.resent /\ call'.renewed = call.renewed
BY DEF Call, Done, GoTo

LEMMA BegunFields ==
  ASSUME NEW g \in {"request", "generate"}, Begin(g)
  PROVE  /\ call'.at \in {"start", "generate"} /\ call'.result = "none"
         /\ call'.outage = ~redisUp /\ ~call'.resent
BY DEF Begin, Idle

\* The SDK's own credentials and Redis, where a step leaves them alone.
SdkStill ==
  /\ token'[Sdk].left = token[Sdk].left /\ token'[Sdk].session = token[Sdk].session
  /\ token'[Sdk].ban = token[Sdk].ban /\ eat'[Sdk] = eat[Sdk]

LEMMA StillIfUnchanged == ASSUME UNCHANGED <<token, eat>> PROVE SdkStill
BY DEF SdkStill

LEMMA OthersStill == ASSUME PartsTypeOK, OtherPrograms PROVE SdkStill
<1>0. /\ token \in [Holders -> Token] /\ eat \in [Holders -> 0 .. EatLife]
      /\ Sdk \in Holders /\ running \subseteq Holders /\ token[Sdk] \in Token
  BY Lives, ControlPlaneAssumption DEF PartsTypeOK
<1>1. PICK h \in Holders \ {Sdk} :
        \/ BrowserLogin(h) \/ Logout(h) \/ ListSessions(h) \/ RevokeEat(h)
        \/ \E p \in Procs : ReadRefresh(p, h) \/ DeleteRefresh(p) \/ FinishRefresh(p, h)
  BY <1>0 DEF OtherPrograms
<1>2. CASE BrowserLogin(h) \/ Logout(h) \/ RevokeEat(h)
  <2>1. token'[Sdk] = token[Sdk] /\ eat' = eat
    BY <1>0, <1>1, <1>2 DEF BrowserLogin, Login, Logout, RevokeEat, ExtendSession
  <2> QED
    BY <2>1 DEF SdkStill
<1>3. CASE ListSessions(h)
  <2>1. token'[Sdk] = [token[Sdk] EXCEPT !.session = IF Sdk = h THEN AccessLife ELSE @,
                                         !.listed = @ /\ token[Sdk].session > 0]
    BY <1>0, <1>3 DEF ListSessions
  <2>2. /\ token'[Sdk].left = token[Sdk].left /\ token'[Sdk].session = token[Sdk].session
        /\ token'[Sdk].ban = token[Sdk].ban
    BY <1>0, <1>1, <2>1 DEF Token
  <2> QED
    BY <1>3, <2>2 DEF ListSessions, SdkStill
<1>4. ASSUME NEW p \in Procs, ReadRefresh(p, h) \/ DeleteRefresh(p) \/ FinishRefresh(p, h) PROVE SdkStill
  <2>1. token'[Sdk] = token[Sdk] /\ eat'[Sdk] = eat[Sdk]
    BY <1>0, <1>1, <1>4 DEF ReadRefresh, ExtendSession, DeleteRefresh, FinishRefresh, IssueEat
  <2> QED
    BY <2>1 DEF SdkStill
<1> QED
  BY <1>1, <1>2, <1>3, <1>4

\* A new access token and a new EAT are not refused before an EAT's life is over.
LEMMA FreshTokenAnswered ==
  ASSUME PartsTypeOK, CallInv, Undisturbed, call.at = "post", call.renewed PROVE TokenAnswer(Sdk) = "ok"
<1>1. call.aged \in 0 .. EatLife
  BY CallParts DEF PartsTypeOK, SdkTypeOK
<1>2. redisUp /\ token[Sdk].ban = 0
  BY DEF CallInv, Undisturbed
<1>3. token[Sdk].left >= AccessLife - call.aged /\ token[Sdk].session >= AccessLife - call.aged
  BY DEF CallInv
<1>4. AccessLife - call.aged > 0
  BY <1>1, Lives DEF Undisturbed
<1>5. token[Sdk].left \in 0 .. AccessLife /\ token[Sdk].session \in 0 .. AccessLife
  BY Lives, TokenParts DEF PartsTypeOK
<1>6. token[Sdk].left # 0 /\ token[Sdk].session # 0
  BY <1>1, <1>3, <1>4, <1>5, Lives
<1> QED
  BY <1>2, <1>6 DEF TokenAnswer, IsTokenRevoked

LEMMA FreshEatAnswered ==
  ASSUME PartsTypeOK, CallInv, Undisturbed, call.at = "send", call.resent PROVE EatAnswer(Sdk) = "ok"
<1>1. call.aged \in 0 .. EatLife
  BY CallParts DEF PartsTypeOK, SdkTypeOK
<1>2. redisUp
  BY DEF CallInv, Undisturbed
<1>3. eat[Sdk] >= EatLife - call.aged /\ eat[Sdk] \in 0 .. EatLife
  BY Lives DEF CallInv, PartsTypeOK
<1>4. eat[Sdk] # 0
  BY <1>1, <1>3, Lives DEF Undisturbed
<1> QED
  BY <1>2, <1>4 DEF EatAnswer, IsTokenRevoked

LEMMA CallInvTransport == ASSUME PartsTypeOK, CallInv, TransportStep PROVE CallInv'
<1>0. /\ call \in Call /\ call.aged \in 0 .. EatLife /\ call.result \in {"none", "ok", "refused", "failed"}
      /\ token \in [Holders -> Token] /\ token[Sdk] \in Token /\ eat \in [Holders -> 0 .. EatLife]
      /\ redisUp \in BOOLEAN
  BY Lives, CallParts DEF PartsTypeOK, SdkTypeOK
<1>1. CASE UseEat
  <2>1. SdkStill /\ redisUp' = redisUp /\ ~call.resent
    BY <1>1, StillIfUnchanged DEF UseEat, identityVars, CallInv
  <2>2. call.at = "start" /\ \E a \in {"send", "generate"} : GoTo(a)
    BY <1>1 DEF UseEat
  <2> QED
    BY <1>0, <2>1, <2>2, CallFields DEF SdkStill, CallInv, Undisturbed, RefusedOnlyWhenKilled
<1>2. CASE Generate
  <2>1. SdkStill /\ redisUp' = redisUp
    BY <1>2, StillIfUnchanged DEF Generate, identityVars
  <2>2. /\ call.at = "generate" /\ call'.at \in {"post", "login"} /\ ~call'.renewed /\ call'.result = call.result
        /\ call'.outage = call.outage /\ call'.aged = call.aged
    BY <1>0, <1>2 DEF Generate, Call
  <2> QED
    BY <2>1, <2>2 DEF SdkStill, CallInv, Undisturbed, RefusedOnlyWhenKilled
<1>3. CASE LogIn
  <2>0. call.at = "login" /\ redisUp' = redisUp /\ eat' = eat
    BY <1>3 DEF LogIn
  <2>1. CASE Login(Sdk) /\ GoTo("post")
    <3>1. token'[Sdk].left = AccessLife /\ token'[Sdk].session = AccessLife /\ token'[Sdk].ban = 0
      BY <1>0, <2>1, Lives DEF Login
    <3>2. AccessLife >= AccessLife - call.aged
      BY <1>0, Lives
    <3> QED
      BY <1>0, <2>0, <2>1, <3>1, <3>2, CallFields DEF CallInv, Undisturbed, RefusedOnlyWhenKilled
  <2>2. CASE Done("failed") /\ UNCHANGED token
    BY <1>0, <2>0, <2>2, CallFields DEF CallInv, Undisturbed, RefusedOnlyWhenKilled
  <2> QED
    BY <1>3, <2>1, <2>2 DEF LogIn
<1>4. CASE PostGenerate
  <2>0. call.at = "post" /\ redisUp' = redisUp
    BY <1>4 DEF PostGenerate
  <2>1. CASE ExtendSession(Sdk) /\ IssueEat(Sdk) /\ (Done("ok") \/ GoTo("send"))
    <3>1. eat'[Sdk] = EatLife
      BY <1>0, <2>1, Lives DEF IssueEat
    <3>2. token'[Sdk].ban = token[Sdk].ban
      <4>1. token'[Sdk] = [token[Sdk] EXCEPT !.session = AccessLife]
        BY <1>0, <2>1, Lives DEF ExtendSession
      <4> QED
        BY <1>0, <4>1 DEF Token
    <3>3. EatLife >= EatLife - call.aged
      BY <1>0, Lives
    <3>4. CASE Done("ok")
      BY <1>0, <3>2, <3>4, CallFields DEF CallInv, Undisturbed, RefusedOnlyWhenKilled
    <3>5. CASE GoTo("send")
      BY <1>0, <2>0, <3>1, <3>2, <3>3, <3>5, CallFields DEF CallInv, Undisturbed, RefusedOnlyWhenKilled
    <3> QED
      BY <2>1, <3>4, <3>5
  <2>2. CASE TokenAnswer(Sdk) = "refused" /\ RenewOnce /\ UNCHANGED <<token, eat>>
    <3>1. CASE call.renewed
      <4>1. ~Undisturbed
        BY <2>0, <2>2, <3>1, FreshTokenAnswered
      <4> QED
        BY <1>0, <2>2, <3>1, <4>1, CallFields, Lives DEF RenewOnce, CallInv, Undisturbed, RefusedOnlyWhenKilled
    <3>2. CASE ~call.renewed
      <4>1. call'.at = "login" /\ call'.result = call.result /\ call'.outage = call.outage /\ call'.aged = call.aged
        BY <1>0, <2>2, <3>2 DEF RenewOnce, Call
      <4> QED
        BY <2>0, <2>2, <4>1 DEF CallInv, Undisturbed, RefusedOnlyWhenKilled
    <3> QED
      BY <3>1, <3>2
  <2>3. CASE Done("failed") /\ UNCHANGED <<token, eat>>
    BY <1>0, <2>0, <2>3, CallFields DEF CallInv, Undisturbed, RefusedOnlyWhenKilled
  <2> QED
    BY <1>4, <2>1, <2>2, <2>3 DEF PostGenerate
<1>5. CASE Send
  <2>0. call.at = "send" /\ SdkStill /\ redisUp' = redisUp
    BY <1>5, StillIfUnchanged DEF Send, identityVars
  <2>1. CASE Done("ok")
    BY <1>0, <2>0, <2>1, CallFields DEF SdkStill, CallInv, Undisturbed, RefusedOnlyWhenKilled
  <2>2. CASE call' = [call EXCEPT !.at = "generate", !.resent = TRUE]
    <3>1. call'.at = "generate" /\ call'.result = call.result /\ call'.outage = call.outage /\ call'.aged = call.aged
      BY <1>0, <2>2 DEF Call
    <3> QED
      BY <2>0, <3>1 DEF SdkStill, CallInv, Undisturbed, RefusedOnlyWhenKilled
  <2>3. CASE EatAnswer(Sdk) = "refused" /\ call.resent /\ Done("refused")
    <3>1. ~Undisturbed
      BY <2>0, <2>3, FreshEatAnswered
    <3> QED
      BY <1>0, <2>0, <2>3, <3>1, CallFields, Lives DEF SdkStill, CallInv, Undisturbed, RefusedOnlyWhenKilled
  <2> QED
    BY <1>5, <2>1, <2>2, <2>3 DEF Send
<1>6. CASE TransportFails
  <2>1. SdkStill /\ Done("failed")
    BY <1>6, StillIfUnchanged DEF TransportFails, identityVars
  <2> QED
    BY <1>0, <2>1, CallFields DEF SdkStill, CallInv, Undisturbed, RefusedOnlyWhenKilled
<1> QED
  BY <1>1, <1>2, <1>3, <1>4, <1>5, <1>6 DEF TransportStep

\* A call begins, or is over, or is left alone.
LEMMA CallInvDriver ==
  ASSUME PartsTypeOK, CallInv, UNCHANGED identityVars,
         (\E g \in {"request", "generate"} : Begin(g)) \/ call' = Idle \/ UNCHANGED call
  PROVE  CallInv'
<1>0. SdkStill /\ redisUp' = redisUp /\ redisUp \in BOOLEAN
  BY StillIfUnchanged DEF identityVars, PartsTypeOK
<1>1. CASE \E g \in {"request", "generate"} : Begin(g)
  BY <1>0, <1>1, BegunFields DEF SdkStill, CallInv, Undisturbed, RefusedOnlyWhenKilled
<1>2. CASE call' = Idle
  BY <1>0, <1>2, IdleCall DEF SdkStill, CallInv, Undisturbed, RefusedOnlyWhenKilled
<1>3. CASE UNCHANGED call
  BY <1>0, <1>3 DEF SdkStill, CallInv, Undisturbed, RefusedOnlyWhenKilled
<1> QED
  BY <1>1, <1>2, <1>3

LEMMA CallInvClient == ASSUME PartsTypeOK, CallInv, ClientStep PROVE CallInv'
<1>1. CASE TransportStep
  BY <1>1, CallInvTransport
<1>2. CASE ValidateFromCache \/ AskToValidate \/ Validated \/ CheckDrift \/ DriftChecked
  BY <1>2, CallInvDriver DEF ValidateFromCache, AskToValidate, Validated, CheckDrift, DriftChecked, sdkVars
<1>3. CASE AskForTools \/ ToolsFound \/ Activate \/ Activated \/ Narrowed \/ ToolReturns \/ DriveRaises
  BY <1>3, CallInvDriver DEF AskForTools, ToolsFound, Activate, Activated, Narrowed, ToolReturns, DriveRaises, sdkVars
<1> QED
  BY <1>1, <1>2, <1>3 DEF ClientStep

\* Redis goes down, and the call remembers; or it comes back.
LEMMA CallInvOutage ==
  ASSUME PartsTypeOK, CallInv, SdkStill, CallSeesOutage \/ (UNCHANGED call /\ redisUp'), redisUp' \in BOOLEAN
  PROVE  CallInv'
<1>0. call \in Call
  BY DEF PartsTypeOK, SdkTypeOK
<1>1. CASE UNCHANGED call /\ (redisUp' \/ call.at \in {"idle", "done"})
  BY <1>1 DEF SdkStill, CallInv, Undisturbed, RefusedOnlyWhenKilled
<1>2. CASE call' = [call EXCEPT !.outage = TRUE]
  <2>1. call'.outage /\ call'.at = call.at /\ call'.resent = call.resent
    BY <1>0, <1>2 DEF Call
  <2> QED
    BY <2>1 DEF SdkStill, CallInv, Undisturbed, RefusedOnlyWhenKilled
<1> QED
  BY <1>1, <1>2 DEF CallSeesOutage

LEMMA CallInvTick == ASSUME PartsTypeOK, CallInv, Tick PROVE CallInv'
<1>0. /\ call \in Call /\ call.aged \in 0 .. EatLife /\ token[Sdk] \in Token /\ Sdk \in Holders
      /\ token[Sdk].left \in 0 .. AccessLife /\ token[Sdk].session \in 0 .. AccessLife /\ token[Sdk].ban = 0
      /\ eat[Sdk] \in 0 .. EatLife /\ redisUp' = redisUp
  BY Lives, CallParts, TokenParts DEF PartsTypeOK, SdkTypeOK, CallInv, Tick
<1>1. /\ token'[Sdk].left = Less(token[Sdk].left) /\ token'[Sdk].session = Less(token[Sdk].session)
      /\ token'[Sdk].ban = Less(token[Sdk].ban) /\ eat'[Sdk] = Less(eat[Sdk])
  <2>1. token'[Sdk] = [token[Sdk] EXCEPT !.left = Less(@), !.session = Less(@), !.ban = Less(@),
                                         !.listed = @ /\ listLeft > 1]
    BY <1>0 DEF Tick, Age
  <2> QED
    BY <1>0, <2>1 DEF Tick, Age, Token
<1>2. token'[Sdk].ban = 0
  BY <1>0, <1>1 DEF Less
<1>3. CASE call.at \in {"idle", "done"} /\ UNCHANGED call
  BY <1>0, <1>2, <1>3 DEF CallInv, Undisturbed, RefusedOnlyWhenKilled
<1>4. CASE call.aged = EatLife /\ UNCHANGED call
  <2>1. ~Undisturbed'
    BY <1>4, Lives DEF Undisturbed
  <2> QED
    BY <1>0, <1>2, <1>4, <2>1 DEF CallInv, RefusedOnlyWhenKilled
<1>5. CASE call.at \notin {"idle", "done"} /\ call' = [call EXCEPT !.aged = @ + 1]
  <2>1. /\ call'.aged = call.aged + 1 /\ call'.at = call.at /\ call'.outage = call.outage /\ call'.resent = call.resent
        /\ call'.renewed = call.renewed /\ call'.result = call.result
    BY <1>0, <1>5 DEF Call
  <2>2. Undisturbed' => Undisturbed
    BY <1>0, <2>1, Lives DEF Undisturbed
  <2>3. token[Sdk].left >= AccessLife - call.aged => token'[Sdk].left >= AccessLife - call'.aged
    BY <1>0, <1>1, <2>1, Lives DEF Less
  <2>4. token[Sdk].session >= AccessLife - call.aged => token'[Sdk].session >= AccessLife - call'.aged
    BY <1>0, <1>1, <2>1, Lives DEF Less
  <2>5. eat[Sdk] >= EatLife - call.aged => eat'[Sdk] >= EatLife - call'.aged
    BY <1>0, <1>1, <2>1, Lives DEF Less
  <2>6. RefusedOnlyWhenKilled'
    BY <1>0, <2>1, Lives DEF CallInv, RefusedOnlyWhenKilled
  <2> QED
    BY <1>0, <1>2, <2>1, <2>2, <2>3, <2>4, <2>5, <2>6 DEF CallInv
<1> QED
  BY <1>3, <1>4, <1>5 DEF Tick, CallAges

LEMMA StepCallInv == ASSUME PartsTypeOK, CallInv, [Next]_vars PROVE CallInv'
<1>0. redisUp \in BOOLEAN /\ redisUp' \in BOOLEAN
  BY StepMoves DEF Moves, PartsTypeOK
<1>1. CASE ClientStep
  BY <1>1, CallInvClient
<1>2. CASE StartDrive \/ ResetGlobalData
  BY <1>2, CallInvDriver DEF StartDrive, ResetGlobalData, sdkVars
<1>3. CASE OtherPrograms /\ CallSeesOutage
  BY <1>0, <1>3, OthersStill, CallInvOutage
<1>4. CASE Tick
  BY <1>4, CallInvTick
<1>5. CASE RedisFails
  BY <1>0, <1>5, StillIfUnchanged, CallInvOutage DEF RedisFails
<1>6. CASE RedisReturns
  BY <1>0, <1>6, StillIfUnchanged, CallInvOutage DEF RedisReturns, sdkVars
<1>7. CASE UNCHANGED vars
  BY <1>7, CallInvDriver DEF vars, sdkVars
<1> QED
  BY <1>1, <1>2, <1>3, <1>4, <1>5, <1>6, <1>7 DEF Next

\* EngramTransport.request ends in a refusal only if Redis was down meanwhile or
\* an EAT's whole life went by, whatever the user's other programs do.
THEOREM RefusalsAreJustified == Spec => []RefusedOnlyWhenKilled
<1>1. Init => PartsTypeOK /\ CallInv
  <2>1. ASSUME Init PROVE CallInv
    <3>1. token[Sdk].ban = 0
      BY <2>1, Lives DEF Init, IdentityInit, NoToken
    <3> QED
      BY <2>1, <3>1, IdleCall DEF Init, SdkInit, CallInv, RefusedOnlyWhenKilled
  <2> QED
    BY <2>1, InitTypeOK
<1>2. PartsTypeOK /\ CallInv /\ [Next]_vars => PartsTypeOK' /\ CallInv'
  BY StepPartsTypeOK, StepCallInv
<1>3. CallInv => RefusedOnlyWhenKilled
  BY DEF CallInv
<1> QED
  BY <1>1, <1>2, <1>3, PTL DEF Spec
=============================================================================
