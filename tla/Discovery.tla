----------------------------- MODULE Discovery -----------------------------
(***************************************************************************)
(* The agent registry as DiscoveryService keeps it                         *)
(* (app/services/discovery.py): a loop pings every agent and records who   *)
(* answered; figures derived from the messages feed the routing; and       *)
(* collaborators are the active agents whose protocols can be served.      *)
(***************************************************************************)
EXTENDS Integers, FiniteSets

CONSTANTS
  Agents,        \* rows of agent_registry
  Protocols,     \* protocol names, upper-cased
  Speaks,        \* supported_protocols of each agent
  Mappings       \* protocol_mappings: pairs <<source, target>>

ASSUME DiscoveryAssumption ==
  /\ Speaks \in [Agents -> SUBSET Protocols]
  /\ Mappings \subseteq Protocols \X Protocols
  /\ IsFiniteSet(Protocols)

-----------------------------------------------------------------------------
(* _ping_agents_loop.  The statuses of one round are committed together,   *)
(* after the slowest answer.  An agent is active if it answered 200; a     *)
(* failure while its documentation is synchronised leaves the row alone    *)
(* (gather collects the exception).                                        *)

\* is_active of an agent after _ping_agent.
Pinged(wasActive, answered200, raised) == IF raised THEN wasActive ELSE answered200

\* What a round may leave of the agents that were active: only an agent that
\* answered is synchronised, so only its handler can raise.
PingRound(active) ==
  UNION {{{a \in Agents : Pinged(a \in active, a \in up, a \in raised)} : raised \in SUBSET up} : up \in SUBSET Agents}

-----------------------------------------------------------------------------
(* update_agent_metrics: the success rate counts every message ever sent   *)
(* to the agent, waiting and leased ones included.                         *)

AckedOf(statuses) == {m \in DOMAIN statuses : statuses[m] = "ACKED"}

\* success_rate as <<acked, total>>; old when the agent has no messages.
SuccessRate(statuses, old) ==
  IF DOMAIN statuses = {} THEN old ELSE <<Cardinality(AckedOf(statuses)), Cardinality(DOMAIN statuses)>>

-----------------------------------------------------------------------------
(* find_collaborators *)

\* Protocols a source can be translated into, by one mapping.
MappableTargets(sources) == {p \in Protocols : \E s \in sources : <<s, p>> \in Mappings}

Shared(sources, a) == sources \cap Speaks[a]
MappableOf(sources, a) == (Speaks[a] \cap MappableTargets(sources)) \ sources

\* The numerator of the compatibility score; its denominator is the number of
\* protocols the agent speaks.
Served(sources, a) == Cardinality(Shared(sources, a)) + Cardinality(MappableOf(sources, a))

\* The score is compared in per cent.
ScoreAtLeast(sources, a, minPercent) ==
  100 * Served(sources, a) >= minPercent * Cardinality(Speaks[a])

Collaborators(active, sources, minPercent) ==
  {a \in active : Speaks[a] # {} /\ ScoreAtLeast(sources, a, minPercent)}

\* The API's own search (POST /discovery/): one common protocol is enough, and
\* inactive agents are found as well.
Discovered(requested) ==
  {a \in Agents : Speaks[a] \cap (requested \cup MappableTargets(requested)) # {}}
=============================================================================
