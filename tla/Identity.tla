------------------------------ MODULE Identity ------------------------------
(***************************************************************************)
(* What the server knows of a user's credentials: access tokens and their  *)
(* sessions (app/core/security.py, app/services/session.py), Engram Access *)
(* Tokens (EATs) and their refresh tokens (app/services/eat_identity.py),  *)
(* as the endpoints of app/api/v1/auth.py use them.                        *)
(*                                                                         *)
(* Each holder is one client program of the user.  Of the tokens it was    *)
(* given only the last one is kept: the older ones expire by themselves.   *)
(* Sessions, the list of a user's sessions, revocations and refresh tokens *)
(* are Redis keys that time out; ages are in ticks.                        *)
(***************************************************************************)
EXTENDS Integers, FiniteSets

CONSTANTS
  Holders,       \* client programs of one user
  Procs,         \* server processes that may serve a refresh
  AccessLife,    \* ACCESS_TOKEN_EXPIRE_MINUTES, also the life of a session
  EatLife,       \* EAT_ACCESS_TOKEN_EXPIRE_MINUTES
  RefreshLife,   \* EAT_REFRESH_TOKEN_EXPIRE_MINUTES
  FailClosed     \* AUTH_FAIL_CLOSED, outside development

ASSUME IdentityAssumption ==
  /\ AccessLife \in Nat \ {0} /\ EatLife \in Nat \ {0} /\ RefreshLife \in Nat \ {0}
  /\ FailClosed \in BOOLEAN
  /\ IsFiniteSet(Procs)

VARIABLES
  redisUp,       \* whether Redis answers
  token,         \* the access token of each holder, with its session and revocation
  listLeft,      \* the life of the user's set of sessions
  eat,           \* what is left of each holder's EAT; 0: expired, or none
  refresh,       \* the refresh token: its life, and how many EATs it bought (history)
  serving        \* what each process is doing with the refresh token

identityVars == <<redisUp, token, listLeft, eat, refresh, serving>>

-----------------------------------------------------------------------------

\* left: until exp; session: the session key's TTL; ban: the revocation key's
\* TTL; listed: whether the session is in the user's set; halfOut: a logout
\* took it off the set and failed before it deleted the session (history).
Token == [held: BOOLEAN, left: 0 .. AccessLife, session: 0 .. AccessLife, ban: 0 .. AccessLife,
          listed: BOOLEAN, halfOut: BOOLEAN]

NoToken == [held |-> FALSE, left |-> 0, session |-> 0, ban |-> 0, listed |-> FALSE, halfOut |-> FALSE]

IdentityTypeOK ==
  /\ redisUp \in BOOLEAN
  /\ token \in [Holders -> Token]
  /\ listLeft \in 0 .. AccessLife
  /\ eat \in [Holders -> 0 .. EatLife]
  /\ refresh \in [left: 0 .. RefreshLife, used: 0 .. Cardinality(Procs)]
  /\ serving \in [Procs -> {"none", "read", "consumed"}]

IdentityInit ==
  /\ redisUp = TRUE
  /\ token = [h \in Holders |-> NoToken]
  /\ listLeft = 0
  /\ eat = [h \in Holders |-> 0]
  /\ refresh = [left |-> RefreshLife, used |-> 0]
  /\ serving = [p \in Procs |-> "none"]

-----------------------------------------------------------------------------
(* is_token_revoked, get_current_principal *)

\* A revocation that cannot be looked up counts as one, if so configured.
IsTokenRevoked(ban) == IF redisUp THEN ban > 0 ELSE FailClosed

\* The answer to a request made with an access token.  Only a 401 makes the
\* SDK renew its token; an exception of Redis ends in a 500.
TokenAnswer(h) ==
  IF token[h].left = 0 \/ IsTokenRevoked(token[h].ban) THEN "refused"
  ELSE IF ~redisUp THEN "failed"
  ELSE IF token[h].session = 0 THEN "refused" ELSE "ok"

\* An EAT has no session; no endpoint ever revokes one (see RevokeEat).
EatAnswer(h) == IF eat[h] = 0 \/ IsTokenRevoked(0) THEN "refused" ELSE "ok"

\* extend_session: the session slides, the list and the token's exp do not.
ExtendSession(h) == token' = [token EXCEPT ![h].session = AccessLife]

-----------------------------------------------------------------------------
(* POST /auth/login: create_session, then the access token.  Redis lists   *)
(* the session and lets the whole list live as long as this session.       *)

\* (mutant) The list's life is set when the list is created only.
ListLifeAtFirst == IF listLeft = 0 THEN AccessLife ELSE listLeft

ListLife == AccessLife

Login(h) ==
  /\ redisUp
  /\ token' = [token EXCEPT ![h] =
       [held |-> TRUE, left |-> AccessLife, session |-> AccessLife, ban |-> 0, listed |-> TRUE, halfOut |-> FALSE]]
  /\ listLeft' = ListLife

\* POST /auth/logout.  revoke_session takes the session off the list before
\* it deletes it; Redis may fail in between, and then nothing is revoked.
Logout(h) ==
  /\ token[h].held /\ TokenAnswer(h) = "ok"
  /\ \/ /\ token' = [token EXCEPT ![h].session = 0, ![h].listed = FALSE, ![h].ban = token[h].left]
        /\ UNCHANGED redisUp
     \/ /\ token' = [token EXCEPT ![h].session = AccessLife, ![h].listed = FALSE, ![h].halfOut = TRUE]
        /\ redisUp' = FALSE
  /\ UNCHANGED <<listLeft, eat, refresh, serving>>

\* GET /auth/sessions prunes the list of sessions that expired.
ListSessions(h) ==
  /\ token[h].held /\ TokenAnswer(h) = "ok"
  /\ token' = [g \in Holders |->
       [token[g] EXCEPT !.session = IF g = h THEN AccessLife ELSE @,
                        !.listed = @ /\ token[g].session > 0]]
  /\ UNCHANGED <<redisUp, listLeft, eat, refresh, serving>>

-----------------------------------------------------------------------------
(* EATs *)

\* issue_token, after whatever let the request in.
IssueEat(h) == eat' = [eat EXCEPT ![h] = EatLife]

\* POST /auth/tokens/revoke-eat decodes the token without naming an audience,
\* which PyJWT refuses for every token create_access_token makes: the answer
\* is 400 and nothing changes but the requester's session.
RevokeEat(h) ==
  /\ token[h].held /\ TokenAnswer(h) = "ok"
  /\ ExtendSession(h)
  /\ UNCHANGED <<redisUp, listLeft, eat, refresh, serving>>

\* POST /auth/tokens/refresh-eat, _consume_refresh_token: read ...
ReadRefresh(p, h) ==
  /\ serving[p] = "none"
  /\ token[h].held /\ TokenAnswer(h) = "ok"
  /\ refresh.left > 0
  /\ serving' = [serving EXCEPT ![p] = "read"]
  /\ ExtendSession(h)
  /\ UNCHANGED <<redisUp, listLeft, eat, refresh>>

\* (mutant) The refresh token is not deleted.
KeepRefresh(p) ==
  /\ serving[p] = "read"
  /\ serving' = [serving EXCEPT ![p] = IF redisUp THEN "consumed" ELSE "none"]
  /\ UNCHANGED <<redisUp, token, listLeft, eat, refresh>>

\* ... and delete.  If Redis fails here the request is refused and the token
\* may be used again.
DeleteRefresh(p) ==
  /\ serving[p] = "read"
  /\ serving' = [serving EXCEPT ![p] = IF redisUp THEN "consumed" ELSE "none"]
  /\ refresh' = [refresh EXCEPT !.left = IF redisUp THEN 0 ELSE @]
  /\ UNCHANGED <<redisUp, token, listLeft, eat>>

\* The new EAT; the old one stays valid.  If the audit row cannot be committed
\* the client gets an error and has lost its refresh token.
FinishRefresh(p, h) ==
  /\ serving[p] = "consumed"
  /\ serving' = [serving EXCEPT ![p] = "none"]
  /\ \/ /\ IssueEat(h)
        /\ refresh' = [refresh EXCEPT !.used = @ + 1]
     \/ UNCHANGED <<eat, refresh>>
  /\ UNCHANGED <<redisUp, token, listLeft>>

-----------------------------------------------------------------------------
(* Time and Redis *)

Less(t) == IF t = 0 THEN 0 ELSE t - 1

Age ==
  /\ token' = [h \in Holders |->
       [token[h] EXCEPT !.left = Less(@), !.session = Less(@), !.ban = Less(@),
                        !.listed = @ /\ listLeft > 1]]
  /\ listLeft' = Less(listLeft)
  /\ eat' = [h \in Holders |-> Less(eat[h])]
  /\ refresh' = [refresh EXCEPT !.left = Less(@)]

-----------------------------------------------------------------------------
(* Properties *)

Usable(h) == token[h].left > 0 /\ token[h].ban = 0 /\ token[h].session > 0

\* A session that can still be used can be seen in the user's list, unless a
\* logout failed halfway: sessions slide with every request and the list does
\* not, but no access token outlives the list's last renewal
\* (SessionService.create_session, extend_session, get_user_sessions).
UsableSessionListed == \A h \in Holders : Usable(h) => token[h].listed \/ token[h].halfOut

\* Who presents a refresh token that already bought an EAT is refused, unless
\* the two requests overlapped (_consume_refresh_token reads and deletes in two
\* calls): a request that finds the token does so before any has finished.
RefreshedOnce ==
  [][\A p \in Procs : serving[p] = "none" /\ serving'[p] = "read" => refresh.used = 0]_identityVars
=============================================================================
