-------------------------- MODULE MCMultiAgentRun --------------------------
(***************************************************************************)
(* MultiAgentRun with no plan, one step, a plan with a step that names no  *)
(* agent, and a plan that asks an agent twice; and what its hand-offs draw *)
(* on, the user's credential for a provider and the mapping of two         *)
(* protocols.  The three share no variable, so each behaviour moves one of *)
(* them: the states add up instead of multiplying.                         *)
(***************************************************************************)
EXTENDS OrchestratorParts, TranslationChecks, RegistryChecks, MemoryChecks, TLC

CONSTANTS claude, perplexity, slack, f, g, h

VARIABLE moving

MCPlans == {<<>>, <<slack>>, <<claude, NoAgent>>, <<claude, perplexity, claude, slack>>}

\* Confidence of the suggestions for f, g and the foreign h, up to exchanging f
\* and g; below 0.70 a failure waits for a correction.
MCBands ==
  {(f :> b[1]) @@ (g :> b[2]) @@ (h :> "likely") :
     b \in {<<"likely", "likely">>, <<"likely", "sure">>, <<"sure", "sure">>, <<"unsure", "sure">>}}

mcVars == <<partVars, moving>>

MCInit ==
  /\ moving \in {"run", "credential", "mapping"}
  /\ PartsInit
  /\ moving # "run" => plan = <<>> /\ stored = Nothing
  /\ [x \in Fields |-> failures[x].band] \in MCBands
  /\ moving # "mapping" => mappings[1] = NoMapping /\ failures[f].band = "unsure"

MCNext ==
  /\ UNCHANGED moving
  /\ \/ moving = "run" /\ RunMoves
     \/ moving = "credential" /\ CredentialMoves
     \/ moving = "mapping" /\ MappingMoves

MCSpec ==
  /\ MCInit /\ [][MCNext]_mcVars
  /\ WF_mcVars(moving = "run" /\ Proceed /\ UNCHANGED <<plan, moving, credentialVars, mappingVars>>)
=============================================================================
