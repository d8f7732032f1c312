---------------------------- MODULE SemanticAuth ----------------------------
(***************************************************************************)
(* What a token lets its bearer do with a tool: the semantic scopes of     *)
(* app/core/semantic_auth.py, the narrowing of an EAT to an active scope   *)
(* and check_permissions (app/core/security.py), and the permission        *)
(* profiles of app/api/v1/permissions.py.                                  *)
(*                                                                         *)
(* A scope is written "action:concept"; here it is [action, concept], with *)
(* "" for a part that is missing.  The ontology is [sub |-> concept ->     *)
(* descendants, itself included, eq |-> concept -> equivalents] for the    *)
(* concepts it knows; upper case, and _ for -, in their names are left     *)
(* out.  Arguments are the set of their keys.                              *)
(***************************************************************************)
EXTENDS Integers, Sequences, FiniteSets

Aliases == [call |-> "execute", run |-> "execute", invoke |-> "execute",
            get |-> "read", list |-> "read", query |-> "read", search |-> "read",
            update |-> "write", create |-> "write", delete |-> "write"]

NormalizeAction(action) == IF action \in DOMAIN Aliases THEN Aliases[action] ELSE action

\* _parse_scope, leaving out what is no scope
Parsed(scopes) == {[s EXCEPT !.action = NormalizeAction(@)] : s \in {t \in scopes : t.action # "" /\ t.concept # ""}}

AnyAction == {"*", "all"}

-----------------------------------------------------------------------------
(* SemanticAuthorizationService *)

Expanded(onto, c) == {c} \cup (IF c \in DOMAIN onto.sub THEN onto.sub[c] \cup onto.eq[c] ELSE {})

AllowedConcepts(onto, scopes, action) ==
  UNION {Expanded(onto, s.concept) : s \in {t \in Parsed(scopes) : t.action \in {NormalizeAction(action)} \cup AnyAction}}

\* A tool is [name, id, required |-> scopes, needs |-> semantic_requirements,
\* params |-> semantic_parameter_map, meta]; meta is "none" without execution
\* metadata, "dict" if the object's metadata attribute is a dict, and "row" if
\* it is a row of the database, whose metadata attribute is the table
\* catalogue of the ORM and has no get.
Requirements(tool) ==
  LET named == Parsed(tool.required) \cup (IF tool.meta = "dict" THEN Parsed(tool.needs) ELSE {})
  IN IF named = {} THEN {[action |-> "execute", concept |-> "tool-invocation"]} ELSE named

\* Requirements for other actions are not asked for; that may leave none.
RequiredScopes(tool, action) ==
  {s \in Requirements(tool) : s.action \in {NormalizeAction(action), "execute"} \cup AnyAction}

SafeArgKeys == {"limit", "page", "offset", "sort", "order", "direction", "fields"}

\* The concept of an argument, or "none"
ConceptOfArg(onto, tool, key) ==
  IF tool.meta = "dict" /\ key \in DOMAIN tool.params THEN tool.params[key]
  ELSE IF key \in DOMAIN onto.sub THEN key ELSE "none"

\* _filter_args: who has no concept at all is denied none.
DeniedArgs(onto, tool, args, allowed) ==
  {k \in args \ SafeArgKeys : allowed # {} /\ ConceptOfArg(onto, tool, k) \notin allowed \cup {"none"}}

Refused == [refused |-> TRUE]
NoGet == [raised |-> "AttributeError"]

\* enforce.  A claim is [tools |-> allowed_tools, limited |-> whether the token
\* has that list, scopes |-> semantic_scopes].
Enforce(onto, claim, tool, action, args, failClosed) ==
  LET allowed == AllowedConcepts(onto, claim.scopes, action)
      required == RequiredScopes(tool, action)
      denied == DeniedArgs(onto, tool, args, allowed)
  IN IF claim.limited /\ {tool.name, tool.id} \cap claim.tools = {} THEN Refused
     ELSE IF tool.meta = "row" THEN NoGet
     ELSE IF required # {} /\ (\A s \in required : s.concept \notin allowed) /\ failClosed THEN Refused
     ELSE IF "tool-invocation" \in allowed \/ denied = {} THEN [args |-> args]
     ELSE IF NormalizeAction(action) = "read" THEN [args |-> args \ denied]
     ELSE Refused

-----------------------------------------------------------------------------
(* verify_engram_token with a scope_id: active is the set of tools of the  *)
(* active scope; found says whether Redis has it and could be asked.  The  *)
(* permissions are tool -> scopes.                                         *)

Narrowed(token, found, active) ==
  IF ~found THEN token
  ELSE [token EXCEPT !.limited = TRUE, !.tools = IF token.limited THEN @ \cap active ELSE {},
                     !.permissions = [t \in DOMAIN @ \cap active |-> @[t]]]

-----------------------------------------------------------------------------
(* Permission profiles *)

NoProfile == [missing |-> TRUE]

\* check_permissions: an EAT may say so itself; else the profile is asked.
PermissionAnswer(token, profile, tool, scope) ==
  LET grants(p) == tool \in DOMAIN p /\ scope \in p[tool] IN
  IF token.eat /\ grants(token.permissions) THEN "ok"
  ELSE IF ~token.subject THEN "401"
  ELSE IF profile = NoProfile THEN "403"
  ELSE IF grants(profile.permissions) THEN "ok" ELSE "403"

\* PUT /permissions/{user_id}: the permissions are replaced, not merged.
UpdatePermissions(profile, permissions) ==
  IF profile = NoProfile THEN profile ELSE [profile EXCEPT !.permissions = permissions]
=============================================================================
