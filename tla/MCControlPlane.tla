--------------------------- MODULE MCControlPlane ---------------------------
(* A workflow of two steps: the first has two tools and may come again; the  *)
(* second needs its output, has no tools but the one registered under its    *)
(* name.  Or two programs with browser sessions and one refresh token.       *)
EXTENDS ControlPlane, RoutingChecks

CONSTANTS h1, h2

MCTools == <<{"t1", "t2"}, {}>>
MCNamed == <<{}, {"t1"}>>
MCFollows == <<{NoStep, 1, 2}, {NoStep}>>
MCNeeds == <<{}, {1}>>
MCCasts == {{Sdk}, {h1, h2}}
=============================================================================
