-------------------------- MODULE OrchestratorParts --------------------------
(***************************************************************************)
(* A call of execute_task side by side with what its hand-offs draw on:    *)
(* the user's credential for a provider, which connectors look up and      *)
(* refresh, and the mapping of two protocols, which translations use and   *)
(* failures repair.  What a look-up answers is any of the outcomes that    *)
(* MultiAgentRun lets a hand-off have; so the three share no variable.     *)
(***************************************************************************)
EXTENDS MultiAgentRun, Credentials, MappingRepair

partVars == <<vars, credentialVars, mappingVars>>

PartsInit == Init /\ CredentialsInit /\ MappingInit

RunMoves == Next /\ UNCHANGED <<credentialVars, mappingVars>>
CredentialMoves == CredentialsNext /\ UNCHANGED <<vars, mappingVars>>
MappingMoves == MappingNext /\ UNCHANGED <<vars, credentialVars>>

PartsNext == RunMoves \/ CredentialMoves \/ MappingMoves

PartsSpec == PartsInit /\ [][PartsNext]_partVars

PartsTypeOK == TypeOK /\ CredentialsTypeOK /\ MappingTypeOK
=============================================================================
