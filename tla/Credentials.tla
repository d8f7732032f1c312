---------------------------- MODULE Credentials ----------------------------
(***************************************************************************)
(* The credential a user has stored for one provider, and the calls that   *)
(* use, save and delete it (app/services/credentials.py).  A connector     *)
(* that asks for the active token may refresh it with the provider first.  *)
(*                                                                         *)
(* A refresh token is a number, in the order the provider issued them; 0   *)
(* is none.  Providers may rotate: the answer to a refresh then holds a    *)
(* new refresh token and the one that was sent is used up.  The database   *)
(* has no uniqueness constraint on user and provider.                      *)
(***************************************************************************)
EXTENDS Integers

CONSTANTS
  Callers,     \* requests of the user, and the connectors that act for them
  MaxRows,     \* bound: rows ever created
  MaxIssued    \* bound: refresh tokens ever issued

ASSUME BoundAssumption == MaxRows \in Nat /\ MaxIssued \in Nat

VARIABLES
  rows,        \* table provider_credentials, by id
  newest,      \* the last refresh token issued
  accepted,    \* the refresh tokens the provider takes
  calls,       \* what each caller is doing
  forfeited    \* history: tokens used up by a refresh whose answer was not stored

credentialVars == <<rows, newest, accepted, calls, forfeited>>

RowIds == 1 .. MaxRows
Tokens == 1 .. MaxIssued

\* refresh: encrypted_refresh_token; due: expires_at is less than a minute away.
Row == [exists: BOOLEAN, refresh: Tokens \cup {0}, due: BOOLEAN]
NoRow == [exists |-> FALSE, refresh |-> 0, due |-> FALSE]

\* row: the row that was read, 0 for none; got: the refresh token that came back.
Call == [at: {"idle", "posting", "answered", "saving"}, row: RowIds \cup {0},
         sent: Tokens \cup {0}, got: Tokens \cup {0}]
Idle == [at |-> "idle", row |-> 0, sent |-> 0, got |-> 0]

CredentialsTypeOK ==
  /\ rows \in [RowIds -> Row]
  /\ newest \in Tokens \cup {0}
  /\ accepted \subseteq 1 .. newest
  /\ calls \in [Callers -> Call]
  /\ forfeited \subseteq 1 .. newest

CredentialsInit ==
  /\ rows = [r \in RowIds |-> NoRow]
  /\ newest = 0
  /\ accepted = {}
  /\ calls = [c \in Callers |-> Idle]
  /\ forfeited = {}

-----------------------------------------------------------------------------

Stored == {r \in RowIds : rows[r].exists}

\* get_credential_by_provider: some row of the user and provider.
Found == IF Stored = {} THEN {0} ELSE Stored

Done(c) == calls' = [calls EXCEPT ![c] = Idle]

\* save_credential looks for a row, and writes at the next commit.
SaveRead(c) ==
  /\ calls[c].at = "idle"
  /\ \E r \in Found : calls' = [calls EXCEPT ![c] = [Idle EXCEPT !.at = "saving", !.row = r]]
  /\ UNCHANGED <<rows, newest, accepted, forfeited>>

\* Update the row that was found or create one; a row that was deleted in the
\* meantime makes the commit fail.  The user brings a refresh token the
\* provider has just issued, or none.
SaveWrite(c) ==
  /\ calls[c].at = "saving"
  /\ LET found == calls[c].row IN
     \/ /\ found \in RowIds /\ found \notin Stored
        /\ UNCHANGED <<rows, newest, accepted>>
     \/ \E r \in IF found = 0 THEN {x \in RowIds : \A y \in RowIds : y < x <=> rows[y] # NoRow} ELSE Stored \cap {found} :
        \E new \in {0} \cup (Tokens \cap {newest + 1}), due \in BOOLEAN :
          /\ rows' = [rows EXCEPT ![r] = [exists |-> TRUE, refresh |-> new, due |-> due]]
          /\ newest' = IF new = 0 THEN newest ELSE new
          /\ accepted' = accepted \cup ({new} \ {0})
  /\ Done(c)
  /\ UNCHANGED forfeited

\* delete_credential: one row; the id is not used again.
Delete(c) ==
  /\ calls[c].at = "idle"
  /\ \E r \in Stored : rows' = [rows EXCEPT ![r] = [exists |-> FALSE, refresh |-> 0, due |-> TRUE]]
  /\ UNCHANGED <<newest, accepted, calls, forfeited>>

\* get_active_token: only a credential that is due and has a refresh token
\* leads to more than the stored token.
GetActiveToken(c) ==
  /\ calls[c].at = "idle"
  /\ \E r \in Stored :
       /\ rows[r].due /\ rows[r].refresh # 0
       /\ calls' = [calls EXCEPT ![c] = [Idle EXCEPT !.at = "posting", !.row = r, !.sent = rows[r].refresh]]
  /\ UNCHANGED <<rows, newest, accepted, forfeited>>

\* The provider refreshes, and may rotate.
ProviderAnswers(c) ==
  /\ calls[c].at = "posting" /\ calls[c].sent \in accepted
  /\ \/ /\ calls' = [calls EXCEPT ![c].at = "answered"]
        /\ UNCHANGED <<newest, accepted>>
     \/ /\ newest < MaxIssued
        /\ newest' = newest + 1
        /\ accepted' = (accepted \ {calls[c].sent}) \cup {newest + 1}
        /\ calls' = [calls EXCEPT ![c].at = "answered", ![c].got = newest + 1]
  /\ UNCHANGED <<rows, forfeited>>

\* No token_url, a refusal or an error of the network: None, and the caller is
\* handed the token that has expired.
NotRefreshed(c) ==
  /\ calls[c].at = "posting"
  /\ Done(c)
  /\ UNCHANGED <<rows, newest, accepted, forfeited>>

\* (mutant) Only the access token is taken from the answer.
AccessTokenOnly(row, got, expires) == [row EXCEPT !.due = IF expires THEN FALSE ELSE @]

\* What the commit of a refresh writes: the expiry only if the answer has one.
Refreshed(row, got, expires) ==
  [row EXCEPT !.refresh = IF got = 0 THEN @ ELSE got, !.due = IF expires THEN FALSE ELSE @]

\* The commit of refresh_oauth_token, over whatever was saved since.
StoreRefreshed(c) ==
  /\ calls[c].at = "answered" /\ calls[c].row \in Stored
  /\ \E expires \in BOOLEAN : rows' = [rows EXCEPT ![calls[c].row] = Refreshed(@, calls[c].got, expires)]
  /\ Done(c)
  /\ UNCHANGED <<newest, accepted, forfeited>>

\* The answer is lost on its way, the row is gone, the commit fails, or the
\* process dies: the provider has moved on and the row has not.
AnswerLost(c) ==
  /\ calls[c].at = "answered"
  /\ forfeited' = IF calls[c].got = 0 THEN forfeited ELSE forfeited \cup {calls[c].sent}
  /\ Done(c)
  /\ UNCHANGED <<rows, newest, accepted>>

ExpiryNears(r) ==
  /\ r \in Stored /\ ~rows[r].due
  /\ rows' = [rows EXCEPT ![r].due = TRUE]
  /\ UNCHANGED <<newest, accepted, calls, forfeited>>

CredentialsNext ==
  \/ \E c \in Callers :
       \/ SaveRead(c) \/ SaveWrite(c) \/ Delete(c) \/ GetActiveToken(c) \/ ProviderAnswers(c)
       \/ NotRefreshed(c) \/ StoreRefreshed(c) \/ AnswerLost(c)
  \/ \E r \in RowIds : ExpiryNears(r)

CredentialsSpec == CredentialsInit /\ [][CredentialsNext]_credentialVars
-----------------------------------------------------------------------------

InFlight == {calls[c].sent : c \in {x \in Callers : calls[x].at = "answered" /\ calls[x].got # 0}}

\* However refreshes, saves and deletions overlap, a stored refresh token is one
\* the provider takes, or its successor is on its way to the row, unless an
\* answer was lost: refreshing does not log the user out of the provider.
GrantKept == \A r \in Stored : rows[r].refresh \in accepted \cup InFlight \cup forfeited \cup {0}
=============================================================================
