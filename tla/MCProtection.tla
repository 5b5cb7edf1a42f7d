------------------------------ MODULE MCProtection ------------------------------
(* What keeps requests from reaching where they should not go: banned addresses and     *)
(* broken backends.  A behaviour moves one of the two parts.                            *)
EXTENDS Bans, Upstream

VARIABLE focus

protectionVars == <<focus, banVars, upstreamVars>>

\* One backend may be down at first, or its circuit open, and it does not matter which.
ProtectionInit ==
  /\ focus \in {"bans", "backends"}
  /\ BansInit /\ UpstreamInit
  /\ \A b \in Backend : ~works[b] \/ circuit[b].state = "open" =>
       focus = "backends" /\ b = CHOOSE first \in Backend : TRUE

Only(part) == focus = part /\ UNCHANGED focus

ProtectionNext ==
  \/ Only("bans") /\ BansNext /\ UNCHANGED upstreamVars
  \/ Only("backends") /\ UpstreamNext /\ UNCHANGED banVars

ProtectionSpec ==
  ProtectionInit /\ [][ProtectionNext]_protectionVars /\ BansFairness /\ UpstreamFairness

\* The type invariants of the two parts.
ProtectionTypeOK == BansTypeOK /\ UpstreamTypeOK

=================================================================================
