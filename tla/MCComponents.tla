------------------------------ MODULE MCComponents ------------------------------
(* Five parts that run beside each other and share no state: the routing table, the     *)
(* Agents' links and the revisions of a gateway, the deployment engine and the executor *)
(* of a group.  A behaviour moves one of them.                                          *)
EXTENDS RoutingTable, AgentLink, ProxyPipeline, Deploy, RuleExecutor

VARIABLE focus

componentVars == <<focus, tableVars, linkVars, pipelineVars, deployVars, execVars>>

\* Two revisions of the first proxy, one of the second; two claim the same host.
Owner == [r \in Rev |-> IF r = "r3" THEN "p2" ELSE "p1"]
Hosts == [r \in Rev |-> IF r = "r2" THEN {"other"} ELSE {"shared"}]

\* Two deployments share a network and a volume; the second has the name of a container
\* that may exist.
TheNetworks == [d \in Deployment |-> <<"net">>]
TheVolumes == [d \in Deployment |-> IF d = "d1" THEN <<"v1">> ELSE <<"v1", "v2">>]
TheContainers == [d \in Deployment |-> IF d = "d1" THEN <<"c1", "c2">> ELSE <<"c3">>]
TheExisting == {Net("net"), Vol("v1"), Ctr("c3")}

\* What is not moved begins in one state of its initial ones.
ComponentsInit ==
  /\ focus \in {"table", "link", "pipeline", "deploy", "executor"}
  /\ TableInit /\ LinkInit /\ PipelineInit /\ DeployInit /\ ExecInit
  /\ focus # "link" => ~preApproved
  /\ focus # "deploy" => host = <<>>
  /\ focus # "executor" => hub = {}

Only(part) == focus = part /\ UNCHANGED focus

ComponentsNext ==
  \/ Only("table") /\ TableNext /\ UNCHANGED <<linkVars, pipelineVars, deployVars, execVars>>
  \/ Only("link") /\ LinkNext /\ UNCHANGED <<tableVars, pipelineVars, deployVars, execVars>>
  \/ Only("pipeline") /\ PipelineNext /\ UNCHANGED <<tableVars, linkVars, deployVars, execVars>>
  \/ Only("deploy") /\ DeployNext /\ UNCHANGED <<tableVars, linkVars, pipelineVars, execVars>>
  \/ Only("executor") /\ ExecNext /\ UNCHANGED <<tableVars, linkVars, pipelineVars, deployVars>>

ComponentsSpec == ComponentsInit /\ [][ComponentsNext]_componentVars

\* The type invariants of the five parts.
ComponentsTypeOK == TableTypeOK /\ LinkTypeOK /\ PipelineTypeOK /\ DeployTypeOK /\ ExecTypeOK

=================================================================================
