------------------------------- MODULE MCRecovery -------------------------------
(* What the gateways of a group learn from Agents, from each other and from the         *)
(* Administration, each part on its own: a behaviour moves one of the three parts and   *)
(* leaves the others at rest, where none of their steps is due.                         *)
EXTENDS AgentState, SecretStore, AdminPush

VARIABLE focus

recoveryVars == <<focus, agentVars, secretVars, pushVars>>

\* What is not moved begins in one state of its initial ones.
RecoveryInit ==
  /\ focus \in {"agents", "secrets", "pushes"}
  /\ AgentInit /\ SecretInit /\ PushInit
  /\ focus # "agents" => running = {}
  /\ focus # "pushes" => document = CHOOSE d \in Document : TRUE

Only(part) == focus = part /\ UNCHANGED focus

RecoveryNext ==
  \/ Only("agents") /\ AgentNext /\ UNCHANGED <<secretVars, pushVars>>
  \/ Only("secrets") /\ SecretNext /\ UNCHANGED <<agentVars, pushVars>>
  \/ Only("pushes") /\ PushNext /\ UNCHANGED <<agentVars, secretVars>>

RecoverySpec ==
  RecoveryInit /\ [][RecoveryNext]_recoveryVars
  /\ AgentFairness /\ SecretFairness /\ PushFairness

\* The type invariants of the three parts.
RecoveryTypeOK == AgentTypeOK /\ SecretTypeOK /\ PushTypeOK

=================================================================================
