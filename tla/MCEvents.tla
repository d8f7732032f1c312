------------------------------ MODULE MCEvents ------------------------------
(* Events with two servers, two agents and events of one entity; the last    *)
(* one names a tool that is not registered.                                  *)
EXTENDS Events

CONSTANTS a1, a2

MCAgents == {a1, a2}
MCProtocols == {"MCP", "CLI", "ACP"}
MCSpeaks == [a \in MCAgents |-> IF a = a1 THEN {"MCP"} ELSE {"CLI"}]
MCMappings == {<<"ACP", "MCP">>, <<"MCP", "CLI">>}
MCKeyOf == [e \in Events |-> "entity"]
MCTargetOf == [e \in Events |-> IF e = 2 THEN {a2} ELSE {}]
MCKnown == Events \ {NumEvents}

-----------------------------------------------------------------------------
(* Discovery's matching, for every assignment of protocols and mappings. *)

D(speaks, mappings) == INSTANCE Discovery WITH Speaks <- speaks, Mappings <- mappings

Instances == [Agents -> SUBSET Protocols] \X SUBSET (Protocols \X {"MCP", "CLI"})

\* A full score means that each of the agent's protocols is shared or one
\* mapping away; and whoever has any score is also found by POST /discovery/.
ASSUME ScoreIsCoverage ==
  \A i \in Instances, sources \in SUBSET Protocols :
    LET reach == sources \cup D(i[1], i[2])!MappableTargets(sources) IN
    /\ \A a \in Agents :
         a \in D(i[1], i[2])!Collaborators(Agents, sources, 100) <=> i[1][a] # {} /\ i[1][a] \subseteq reach
    /\ D(i[1], i[2])!Collaborators(Agents, sources, 1) \subseteq D(i[1], i[2])!Discovered(sources)

\* Waiting messages count against an agent: its success rate is full only when
\* every message ever sent to it is acknowledged.
ASSUME RateCountsWaiting ==
  \A st \in [1 .. 3 -> {"PENDING", "LEASED", "ACKED"}] :
    (SuccessRate(st, <<1, 1>>)[1] = SuccessRate(st, <<1, 1>>)[2]) <=> \A m \in 1 .. 3 : st[m] = "ACKED"

\* A round of pings can leave any set of agents active, whoever was active
\* before: what ResolveTargets relies on.
ASSUME RoundsReachEverySet ==
  \A active \in SUBSET Agents : PingRound(active) = SUBSET Agents
=============================================================================
