------------------------------- MODULE AgentState -------------------------------
(***************************************************************************)
(* The routes an Agent feeds into the gateways of a group: the discovery of *)
(* containers (internal/agent/docker/discovery.go), its generations         *)
(* (agent/statepub), the handlers of a gateway (internal/edge/agentstate.go *)
(* and agenthandlers.go) and the exchange of states between gateways        *)
(* (agentstate_replica.go).                                                 *)
(*                                                                         *)
(* An event of one container reaches the Agent's current gateway only.  The *)
(* full state follows, with a generation, and gateways pass it on to each   *)
(* other.  A container stands for its route: pools do not mix Agents here.  *)
(* Docker's calls may fail and its stream of events may break: neither is    *)
(* made up for before the next scan.                                        *)
(***************************************************************************)
EXTENDS Naturals, FiniteSets, Sequences

CONSTANTS
  Gateway,     \* members of the group
  Container,   \* containers with labels
  FirstEdge,   \* the gateway the Agent is configured with
  MaxChange,   \* bound: how often a container starts or stops
  MaxFault,    \* bound: lost calls, broken streams, restarts and changes of gateway together
  Overlap      \* TRUE: scans, and the states a gateway applies, may overlap

ASSUME AgentAssumption == FirstEdge \in Gateway /\ IsFiniteSet(Gateway)
ASSUME AgentBoundAssumption ==
  MaxChange \in Nat /\ MaxFault \in Nat /\ Overlap \in BOOLEAN

VARIABLES
  running,   \* containers that run
  changes,   \* how often that has changed
  events,    \* Docker's events, not yet handled
  handling,  \* the event handleEvent is in the middle of
  known,     \* Discovery.known
  due,       \* scans due: "dirty" is looked at now and then, "soon" is stateTimer or a new
             \* connection
  stateOK,   \* Discovery.stateOK
  last,      \* Publisher.last, kept on disk
  scans,     \* scans under way
  edge,      \* the gateway the Agent uses
  faults,    \* how many faults so far
  accepted,  \* agentGenerations.last of each gateway
  kept,      \* agentStateStore.states of each gateway
  pool,      \* the containers each gateway routes to
  calls,     \* states being applied by a gateway
  missed     \* history: something was lost on the Agent's side, and no scan has listed since

docker == <<running, changes, events>>
agentSide == <<docker, handling, known, last, scans, edge, faults, missed>>
gatewaySide == <<accepted, kept, calls>>
agentVars == <<agentSide, due, stateOK, gatewaySide, pool>>

---------------------------------------------------------------------------
(* Data *)

\* A container started or stopped.
Event == [start : BOOLEAN, of : Container]

\* before: what was known and is not yet compared; gone: reported as stopped next; routes:
\* what Docker listed.
Scan == [pc : {"list", "compare", "publish"}, before : SUBSET Container,
         gone : SUBSET Container, routes : SUBSET Container]

State == [gen : Nat, routes : SUBSET Container]
NoState == [gen |-> 0, routes |-> {}]

\* todo: routes not yet applied.
Call == [at : Gateway, gen : Nat, routes : SUBSET Container,
         todo : SUBSET Container, by : {"agent", "peer"}]

\* contentHash of the state kept, none if there is none.
Digest(g) == IF kept[g] = NoState THEN {} ELSE {kept[g].routes}

Busy(g) == \E c \in calls : c.at = g

\* Fault: any generation is taken.
Accept_any(g, gen) == gen # accepted[g]

\* Generations of one key only grow: an older one is refused.
Accept(g, gen) == gen > accepted[g]

\* The Agent's first state has reached every gateway.
AgentInit ==
  /\ running \in SUBSET Container
  /\ changes = 0 /\ events = <<>> /\ handling = {} /\ missed = FALSE
  /\ known = running /\ due = {} /\ stateOK = TRUE /\ last = 1
  /\ scans = {}
  /\ edge = FirstEdge /\ faults = 0
  /\ accepted = [g \in Gateway |-> 1]
  /\ kept = [g \in Gateway |-> [gen |-> 1, routes |-> running]]
  /\ pool = [g \in Gateway |-> running]
  /\ calls = {}

---------------------------------------------------------------------------
(* The Agent *)

\* A container starts or stops (external): Docker reports it.
Change(c) ==
  /\ changes < MaxChange
  /\ changes' = changes + 1
  /\ running' = IF c \in running THEN running \ {c} ELSE running \cup {c}
  /\ events' = Append(events, [start |-> c \notin running, of |-> c])
  /\ UNCHANGED <<handling, known, last, scans, edge, faults, missed, due, stateOK, gatewaySide, pool>>

\* A call of the Agent to its gateway: it is served, or fails and counts as a fault.
Reaches(served, lost) ==
  \/ served /\ UNCHANGED faults
  \/ faults < MaxFault /\ faults' = faults + 1 /\ lost

\* A call to Docker, or its stream of events, fails: what was to be learnt is not.
DockerFails == faults < MaxFault /\ faults' = faults + 1 /\ missed' = TRUE

\* report and reportStop: a failure is remembered.
Tell(routes) ==
  Reaches(pool' = [pool EXCEPT ![edge] = routes] /\ UNCHANGED due,
          due' = due \cup {"dirty"} /\ UNCHANGED pool)

\* scheduleState, when the gateway is known to take states.
Scheduled == IF stateOK THEN due \cup {"soon"} ELSE due

\* handleEvent, a start: the container is inspected and its route announced.  When the
\* inspection fails the event is dropped, as it is for one that was removed since.
EventStart ==
  LET e == Head(events) IN
  /\ handling = {} /\ events # <<>> /\ e.start
  /\ events' = Tail(events)
  /\ \/ handling' = {e} /\ Tell(pool[edge] \cup {e.of}) /\ UNCHANGED missed
     \/ e.of \notin running /\ UNCHANGED <<handling, pool, due, faults, missed>>
     \/ DockerFails /\ UNCHANGED <<handling, pool, due>>
  /\ UNCHANGED <<running, changes, known, stateOK, last, scans, edge, gatewaySide>>

\* Then the container is known, and the state scheduled.
EventStarted(e) ==
  /\ e.start
  /\ handling' = {}
  /\ known' = known \cup {e.of} /\ due' = Scheduled
  /\ UNCHANGED <<docker, last, scans, edge, faults, missed, stateOK, gatewaySide, pool>>

\* handleEvent, a stop: only for a container that is known.  One that a scan has listed and
\* is not known yet will be published although it stopped.
EventStop ==
  LET e == Head(events) IN
  /\ handling = {} /\ events # <<>> /\ ~e.start
  /\ events' = Tail(events)
  /\ known' = known \ {e.of}
  /\ handling' = {e} \cap [start : {FALSE}, of : known]
  /\ missed' = (missed \/ (e.of \notin known /\ \E s \in scans : e.of \in s.routes))
  /\ UNCHANGED <<running, changes, due, stateOK, last, scans, edge, faults, gatewaySide, pool>>

\* Then it is reported, and the state scheduled.
EventStopped(e) ==
  /\ ~e.start
  /\ handling' = {}
  /\ \/ pool' = [pool EXCEPT ![edge] = @ \ {e.of}] /\ due' = Scheduled /\ UNCHANGED faults
     \/ faults < MaxFault /\ faults' = faults + 1 /\ due' = Scheduled \cup {"dirty"} /\ UNCHANGED pool
  /\ UNCHANGED <<docker, known, last, scans, edge, missed, stateOK, gatewaySide>>

\* Start: the stream of events breaks, and is not read again from where it broke.
BreakStream ==
  /\ events # <<>> /\ events' = <<>>
  /\ DockerFails
  /\ UNCHANGED <<running, changes, handling, known, due, stateOK, last, scans, edge, gatewaySide, pool>>

\* ScanAll begins: what made it due is over, and the known containers are noted.
ScanStart(t) ==
  /\ t \in due /\ (Overlap \/ scans = {})
  /\ due' = due \ {t}
  /\ scans' = scans \cup {[pc |-> "list", before |-> known, gone |-> {}, routes |-> {}]}
  /\ UNCHANGED <<docker, handling, known, last, edge, faults, missed, stateOK, gatewaySide, pool>>

\* Fault: a list that fails passes for an empty one.
ScanList_empty(s) ==
  /\ s.pc = "list"
  /\ Reaches(/\ scans' = (scans \ {s}) \cup {[s EXCEPT !.pc = "compare", !.routes = running]}
             /\ missed' = FALSE,
             /\ scans' = (scans \ {s}) \cup {[s EXCEPT !.pc = "compare"]}
             /\ UNCHANGED missed)
  /\ UNCHANGED <<docker, handling, known, last, edge, due, stateOK, gatewaySide, pool>>

\* The containers are listed; a list that fails ends the scan, which is not due any more.
ScanList(s) ==
  /\ s.pc = "list"
  /\ \/ /\ scans' = (scans \ {s}) \cup {[s EXCEPT !.pc = "compare", !.routes = running]}
        /\ missed' = FALSE /\ UNCHANGED faults
     \/ scans' = scans \ {s} /\ DockerFails
  /\ UNCHANGED <<docker, handling, known, last, edge, due, stateOK, gatewaySide, pool>>

\* One that was known and is not listed is forgotten,
ForgetGone(s, c) ==
  /\ s.pc = "compare" /\ s.gone = {} /\ c \in s.before \ s.routes
  /\ known' = known \ {c}
  /\ scans' = (scans \ {s}) \cup {[s EXCEPT !.before = @ \ {c}, !.gone = {c} \cap known]}
  /\ UNCHANGED <<docker, handling, last, edge, faults, missed, due, stateOK, gatewaySide, pool>>

\* and reported as stopped unless something else forgot it meanwhile.
StopGone(s) ==
  /\ s.gone # {}
  /\ scans' = (scans \ {s}) \cup {[s EXCEPT !.gone = {}]}
  /\ Tell(pool[edge] \ s.gone)
  /\ UNCHANGED <<docker, handling, known, last, edge, missed, stateOK, gatewaySide>>

\* Those that are listed are known.
TrackListed(s) ==
  /\ s.pc = "compare" /\ s.gone = {} /\ s.before \subseteq s.routes
  /\ known' = known \cup s.routes
  /\ scans' = (scans \ {s}) \cup {[s EXCEPT !.pc = "publish", !.before = {}]}
  /\ UNCHANGED <<docker, handling, last, edge, faults, missed, due, stateOK, gatewaySide, pool>>

\* publishState takes a generation and sends the state; validate and accept at the gateway.
Publish(s) ==
  LET gen == last + 1 IN
  /\ s.pc = "publish"
  /\ Overlap \/ ~Busy(edge)
  /\ last' = gen
  /\ scans' = scans \ {s}
  /\ Reaches(
       IF Accept(edge, gen)
       THEN /\ accepted' = [accepted EXCEPT ![edge] = gen]
            /\ calls' = calls \cup {[at |-> edge, gen |-> gen, routes |-> s.routes,
                                     todo |-> s.routes, by |-> "agent"]}
            /\ UNCHANGED <<due, stateOK>>
       ELSE stateOK' = TRUE /\ UNCHANGED <<accepted, calls, due>>,
       due' = due \cup {"dirty"} /\ UNCHANGED <<accepted, calls, stateOK>>)
  /\ UNCHANGED <<docker, handling, known, edge, missed, kept, pool>>

\* switchEdge and onEdgeSwitch: another member of the group, and everything again.
SwitchEdge(g) ==
  /\ g # edge
  /\ faults < MaxFault /\ faults' = faults + 1
  /\ edge' = g /\ due' = due \cup {"soon"}
  /\ UNCHANGED <<docker, handling, known, last, scans, missed, stateOK, gatewaySide, pool>>

---------------------------------------------------------------------------
(* A gateway *)

\* applyAgentRoute, one route of the state.
ApplyRoute(c, r) ==
  /\ r \in c.todo
  /\ pool' = [pool EXCEPT ![c.at] = @ \cup {r}]
  /\ calls' = (calls \ {c}) \cup {[c EXCEPT !.todo = @ \ {r}]}
  /\ UNCHANGED <<agentSide, due, stateOK, accepted, kept>>

\* pruneAgentSource: what the state does not declare goes.
Pruned(c) == pool[c.at] \cap c.routes

\* Fault: a state is not kept for the peers.
Put_not(c) == kept[c.at]

\* put: the newest state is kept.
Put(c) == IF kept[c.at].gen >= c.gen THEN kept[c.at] ELSE [gen |-> c.gen, routes |-> c.routes]

\* The gateways a changed state is pushed to reach it or not; one that does not accept
\* it drops it.  What a peer sent is not sent on.
PushTo(c) == IF Put(c) # kept[c.at] /\ {Put(c).routes} # Digest(c.at) /\ c.by = "agent"
             THEN {g \in Gateway \ {c.at} : Accept(g, c.gen) /\ (Overlap \/ ~Busy(g))} ELSE {}

\* The end of acceptAgentState; the Agent has its answer, or not.
Finish(c) ==
  /\ c.todo = {}
  /\ pool' = [pool EXCEPT ![c.at] = Pruned(c)]
  /\ kept' = [kept EXCEPT ![c.at] = Put(c)]
  /\ \E to \in SUBSET PushTo(c) :
       /\ accepted' = [g \in Gateway |-> IF g \in to THEN c.gen ELSE accepted[g]]
       /\ calls' = (calls \ {c}) \cup {[at |-> g, gen |-> c.gen, routes |-> c.routes,
                                        todo |-> c.routes, by |-> "peer"] : g \in to}
  /\ IF c.by = "agent"
     THEN Reaches(stateOK' = TRUE /\ UNCHANGED due,
                  due' = due \cup {"dirty"} /\ UNCHANGED stateOK)
     ELSE UNCHANGED <<stateOK, due, faults>>
  /\ UNCHANGED <<docker, handling, known, last, scans, edge, missed>>

\* syncAgentStateFromPeer: a peer whose states have another content is asked for them.
Pull(g, p) ==
  /\ p # g /\ Digest(p) # Digest(g) /\ kept[p] # NoState
  /\ Overlap \/ ~Busy(g)
  /\ Accept(g, kept[p].gen)
  /\ accepted' = [accepted EXCEPT ![g] = kept[p].gen]
  /\ calls' = calls \cup {[at |-> g, gen |-> kept[p].gen, routes |-> kept[p].routes,
                           todo |-> kept[p].routes, by |-> "peer"]}
  /\ UNCHANGED <<agentSide, due, stateOK, kept, pool>>

\* A gateway restarts: generations, states and handlers are gone, the routes come back
\* from its cache.  The Agent connects again, and a call of its that was cut failed.
RestartGateway(g) ==
  /\ faults < MaxFault /\ faults' = faults + 1
  /\ accepted' = [accepted EXCEPT ![g] = 0]
  /\ kept' = [kept EXCEPT ![g] = NoState]
  /\ calls' = {c \in calls : c.at # g}
  /\ due' = due \cup (IF g = edge THEN {"soon"} ELSE {})
                \cup (IF \E c \in calls : c.at = g /\ c.by = "agent" THEN {"dirty"} ELSE {})
  /\ UNCHANGED <<docker, handling, known, last, scans, edge, missed, stateOK, pool>>

GatewayStep(g) ==
  \/ \E c \in calls : c.at = g /\ (Finish(c) \/ \E r \in c.todo : ApplyRoute(c, r))
  \/ \E p \in Gateway : Pull(g, p)

EventStep == EventStart \/ EventStop \/ \E e \in handling : EventStarted(e) \/ EventStopped(e)

ScanStep ==
  \E s \in scans : \/ ScanList(s) \/ StopGone(s) \/ TrackListed(s) \/ Publish(s)
                   \/ \E c \in s.before : ForgetGone(s, c)

AgentNext ==
  \/ \E c \in Container : Change(c)
  \/ EventStep \/ BreakStream
  \/ \E t \in due : ScanStart(t)
  \/ ScanStep
  \/ \E g \in Gateway : RestartGateway(g)
  \/ \E c \in calls : Finish(c) \/ \E r \in c.todo : ApplyRoute(c, r)
  \/ \E g, p \in Gateway : Pull(g, p)

\* Events are read, a due scan is made, and a gateway with a state to apply, or a peer to
\* ask (it does every fifteen seconds), goes on.
AgentFairness ==
  /\ WF_agentVars(EventStep) /\ WF_agentVars(ScanStep)
  /\ WF_agentVars(\E t \in due : ScanStart(t))
  /\ \A g \in Gateway : WF_agentVars(GatewayStep(g))

AgentSpec == AgentInit /\ [][AgentNext]_agentVars /\ AgentFairness

\* The Agent may also move to another gateway.
FailoverSpec ==
  /\ AgentInit /\ [][AgentNext \/ \E g \in Gateway : SwitchEdge(g)]_agentVars
  /\ AgentFairness

---------------------------------------------------------------------------
(* Properties *)

\* A gateway keeps and applies only generations it has accepted, which the Agent has given.
AgentTypeOK ==
  /\ running \subseteq Container /\ known \subseteq Container
  /\ changes \in 0..MaxChange /\ faults \in 0..MaxFault
  /\ events \in Seq(Event) /\ handling \subseteq Event
  /\ due \subseteq {"dirty", "soon"} /\ stateOK \in BOOLEAN /\ missed \in BOOLEAN
  /\ last \in Nat /\ edge \in Gateway
  /\ scans \subseteq Scan
  /\ accepted \in [Gateway -> Nat] /\ kept \in [Gateway -> State]
  /\ pool \in [Gateway -> SUBSET Container]
  /\ calls \subseteq Call
  /\ \A c \in calls : c.todo \subseteq c.routes /\ c.gen <= accepted[c.at]
  /\ \A g \in Gateway : kept[g].gen <= accepted[g] /\ accepted[g] <= last

\* Every copy of a state: the one each gateway keeps, the ones being applied.
Copies == {NoState} \cup {kept[g] : g \in Gateway}
            \cup {[gen |-> c.gen, routes |-> c.routes] : c \in calls}

\* A generation stands for one set of routes on all gateways, whatever was lost or restarted.
OneState == \A v, w \in Copies : v.gen = w.gen => v = w

\* The newest state a gateway has accepted is kept for its peers, or is being applied.
NewestKept == \A g \in Gateway :
  accepted[g] = kept[g].gen \/ \E c \in calls : c.at = g /\ c.gen = accepted[g]

\* Gateways that apply nothing, and none of which has anything to ask of another, keep the
\* same routes for their peers.
StatesAgree ==
  /\ calls = {}
  /\ \A g, p \in Gateway :
       kept[p] # NoState /\ Digest(p) # Digest(g) => ~Accept(g, kept[p].gen)
  => \A g, p \in Gateway : Digest(g) = Digest(p)

\* Of such gateways, those that no event of the Agent reaches and that have accepted a state
\* since they started route to the same containers.
FollowersAlike ==
  /\ calls = {}
  /\ \A g, p \in Gateway :
       kept[p] # NoState /\ Digest(p) # Digest(g) => ~Accept(g, kept[p].gen)
  => \A g, p \in Gateway \ {FirstEdge} : accepted[g] > 0 /\ accepted[p] > 0 => pool[g] = pool[p]

\* A gateway that no event of the Agent reaches, and that is applying nothing, routes to the
\* containers of the newest state it has accepted since it started.
RoutesAreKept == \A g \in Gateway \ {FirstEdge} :
  ~Busy(g) /\ accepted[g] > 0 => kept[g].gen = accepted[g] /\ pool[g] = kept[g].routes

\* States are applied one after the other, each newer than the one kept; what is applied of
\* one stays until its end.
InTurn ==
  /\ edge = FirstEdge
  /\ \A c, d \in calls : c.at = d.at => c = d
  /\ \A c \in calls : c.gen > kept[c.at].gen /\ c.gen = accepted[c.at]
  /\ \A c \in calls : c.at # FirstEdge => c.routes \ c.todo \subseteq pool[c.at]

\* Once containers no longer change, every gateway ends with a route for each one that
\* runs and for no other, whatever calls, restarts or changes of gateway came between,
\* provided that what Docker failed to tell was made up for by a later scan.
RoutesFollow == <>[](missed \/ \A g \in Gateway : pool[g] = running)

\* The same without that proviso, which the code does not keep: a failed list or inspection, a
\* broken stream, or a container that is listed and gone before its start is handled leave
\* the routes behind (see the README).
RoutesAlwaysFollow == <>[](\A g \in Gateway : pool[g] = running)

=================================================================================
