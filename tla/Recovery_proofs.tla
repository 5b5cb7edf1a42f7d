----------------------------- MODULE Recovery_proofs -----------------------------
(***************************************************************************)
(* Proofs about AgentState: what the gateways of a group keep and apply of   *)
(* an Agent's states, for any gateways, containers, changes and faults; and  *)
(* the types of the states, secrets and documents side by side.             *)
(***************************************************************************)
EXTENDS MCRecovery, SecretStore_proofs, AdminPush_proofs, TLAPS

---------------------------------------------------------------------------
(* Types *)

\* AgentTypeOK in three parts: the Agent, the gateways, and the order of generations.
AgentSideTypes ==
  /\ running \subseteq Container /\ known \subseteq Container
  /\ changes \in 0..MaxChange /\ faults \in 0..MaxFault
  /\ events \in Seq(Event) /\ handling \subseteq Event
  /\ due \subseteq {"dirty", "soon"} /\ stateOK \in BOOLEAN /\ missed \in BOOLEAN
  /\ last \in Nat /\ edge \in Gateway
  /\ scans \subseteq Scan
GatewayTypes ==
  /\ accepted \in [Gateway -> Nat] /\ kept \in [Gateway -> State]
  /\ pool \in [Gateway -> SUBSET Container]
  /\ calls \subseteq Call
Generations ==
  /\ \A c \in calls : c.todo \subseteq c.routes /\ c.gen <= accepted[c.at]
  /\ \A g \in Gateway : kept[g].gen <= accepted[g] /\ accepted[g] <= last

LEMMA AgentTypeParts == AgentTypeOK <=> AgentSideTypes /\ GatewayTypes /\ Generations
BY DEF AgentTypeOK, AgentSideTypes, GatewayTypes, Generations

LEMMA CallFields ==
  ASSUME NEW c \in Call
  PROVE  /\ c.at \in Gateway /\ c.gen \in Nat /\ c.routes \in SUBSET Container
         /\ c.todo \in SUBSET Container /\ c.by \in {"agent", "peer"}
BY DEF Call

LEMMA StateFields ==
  ASSUME NEW s \in State
  PROVE  s.gen \in Nat /\ s.routes \in SUBSET Container /\ s = [gen |-> s.gen, routes |-> s.routes]
BY DEF State

\* What the gateways accept, keep and apply does not change.
GatewaySame == UNCHANGED <<accepted, kept, calls>>

LEMMA EventFields ==
  ASSUME NEW e \in Event
  PROVE  e.start \in BOOLEAN /\ e.of \in Container
BY DEF Event

LEMMA ScanFields ==
  ASSUME NEW s \in Scan
  PROVE  /\ s.pc \in {"list", "compare", "publish"} /\ s.before \in SUBSET Container
         /\ s.gone \in SUBSET Container /\ s.routes \in SUBSET Container
BY DEF Scan

\* A call of the Agent, or of Docker, that fails counts.
LEMMA FaultTypes ==
  ASSUME AgentSideTypes, faults' = faults \/ (faults < MaxFault /\ faults' = faults + 1)
  PROVE  faults' \in 0..MaxFault
BY AgentBoundAssumption DEF AgentSideTypes

\* What is told to the gateway leaves its pools' type, and may make a scan due.
LEMMA TellTypes ==
  ASSUME AgentSideTypes, GatewayTypes, NEW routes \in SUBSET Container, Tell(routes)
  PROVE  /\ faults' \in 0..MaxFault /\ due' \subseteq {"dirty", "soon"}
         /\ pool' \in [Gateway -> SUBSET Container]
<1>1. /\ faults' = faults \/ (faults < MaxFault /\ faults' = faults + 1)
      /\ due' = due \/ due' = due \cup {"dirty"}
      /\ pool' = pool \/ pool' = [pool EXCEPT ![edge] = routes]
  BY DEF Tell, Reaches
<1> QED BY <1>1, FaultTypes DEF AgentSideTypes, GatewayTypes

LEMMA ScheduledTypes ==
  ASSUME AgentSideTypes
  PROVE  Scheduled \subseteq {"dirty", "soon"}
BY DEF AgentSideTypes, Scheduled

LEMMA ChangeTypes ==
  ASSUME AgentSideTypes, NEW c \in Container, Change(c)
  PROVE  AgentSideTypes' /\ GatewaySame /\ pool' = pool /\ last' = last
<1>1. [start |-> c \notin running, of |-> c] \in Event
  BY DEF Event
<1>2. events' \in Seq(Event)
  BY <1>1 DEF AgentSideTypes, Change
<1>3. changes' \in 0..MaxChange
  BY AgentBoundAssumption DEF AgentSideTypes, Change
<1>4. running' \subseteq Container
  BY DEF AgentSideTypes, Change
<1> QED BY <1>2, <1>3, <1>4 DEF AgentSideTypes, Change, GatewaySame, gatewaySide

LEMMA HeadTypes ==
  ASSUME AgentSideTypes, events # <<>>
  PROVE  Head(events) \in Event /\ Tail(events) \in Seq(Event) /\ Head(events).of \in Container
<1>1. events \in Seq(Event)
  BY DEF AgentSideTypes
<1>2. Head(events) \in Event /\ Tail(events) \in Seq(Event)
  BY <1>1
<1> QED BY <1>2, EventFields

LEMMA EventTypes ==
  ASSUME AgentSideTypes, GatewayTypes, EventStep
  PROVE  /\ AgentSideTypes' /\ GatewaySame /\ last' = last
         /\ pool' \in [Gateway -> SUBSET Container]
<1>1. CASE EventStart
  <2> DEFINE e == Head(events)
  <2>1. /\ events # <<>> /\ events' = Tail(events)
        /\ UNCHANGED <<running, changes, known, stateOK, last, scans, edge, accepted, kept, calls>>
    BY <1>1 DEF EventStart, gatewaySide
  <2>2. e \in Event /\ Tail(events) \in Seq(Event) /\ e.of \in Container
    BY <2>1, HeadTypes
  <2>3. pool[edge] \cup {e.of} \in SUBSET Container
    BY <2>2 DEF AgentSideTypes, GatewayTypes
  <2>4. \/ handling' = {e} /\ Tell(pool[edge] \cup {e.of}) /\ missed' = missed
        \/ UNCHANGED <<handling, pool, due, faults, missed>>
        \/ /\ faults < MaxFault /\ faults' = faults + 1 /\ missed' = TRUE
           /\ UNCHANGED <<handling, pool, due>>
    BY <1>1 DEF EventStart, DockerFails
  <2> HIDE DEF e
  <2>5. /\ handling' \subseteq Event /\ missed' \in BOOLEAN /\ faults' \in 0..MaxFault
        /\ due' \subseteq {"dirty", "soon"} /\ pool' \in [Gateway -> SUBSET Container]
    BY <2>2, <2>3, <2>4, TellTypes, FaultTypes DEF AgentSideTypes, GatewayTypes
  <2> QED BY <2>1, <2>2, <2>5 DEF AgentSideTypes, GatewaySame
<1>2. CASE EventStop
  <2> DEFINE e == Head(events)
  <2>1. /\ events # <<>> /\ events' = Tail(events) /\ known' = known \ {e.of}
        /\ handling' \subseteq [start : {FALSE}, of : known]
        /\ missed' \in BOOLEAN
        /\ UNCHANGED <<running, changes, due, stateOK, last, scans, edge, faults, accepted, kept, calls, pool>>
    BY <1>2, Zenon DEF EventStop, gatewaySide, AgentSideTypes
  <2>2. Tail(events) \in Seq(Event)
    BY <2>1, HeadTypes
  <2>3. [start : {FALSE}, of : known] \subseteq Event
    BY DEF AgentSideTypes, Event
  <2> QED BY <2>1, <2>2, <2>3 DEF AgentSideTypes, GatewayTypes, GatewaySame
<1>3. ASSUME NEW e \in handling, EventStarted(e)
      PROVE  AgentSideTypes' /\ GatewaySame /\ last' = last /\ pool' = pool
  <2>1. /\ handling' = {} /\ known' = known \cup {e.of} /\ due' = Scheduled
        /\ UNCHANGED <<running, changes, events, last, scans, edge, faults, missed, stateOK,
                       accepted, kept, calls, pool>>
    BY <1>3 DEF EventStarted, docker, gatewaySide
  <2>2. e.of \in Container
    BY EventFields DEF AgentSideTypes
  <2> QED BY <2>1, <2>2, ScheduledTypes DEF AgentSideTypes, GatewaySame
<1>4. ASSUME NEW e \in handling, EventStopped(e)
      PROVE  /\ AgentSideTypes' /\ GatewaySame /\ last' = last
             /\ pool' \in [Gateway -> SUBSET Container]
  <2>1. /\ handling' = {}
        /\ due' = Scheduled \/ due' = Scheduled \cup {"dirty"}
        /\ UNCHANGED <<running, changes, events, known, last, scans, edge, missed, stateOK,
                       accepted, kept, calls>>
    BY <1>4 DEF EventStopped, docker, gatewaySide
  <2>2. /\ faults' = faults \/ (faults < MaxFault /\ faults' = faults + 1)
        /\ pool' = pool \/ pool' = [pool EXCEPT ![edge] = pool[edge] \ {e.of}]
    BY <1>4 DEF EventStopped
  <2>3. pool' \in [Gateway -> SUBSET Container]
    BY <2>2 DEF AgentSideTypes, GatewayTypes
  <2>4. due' \subseteq {"dirty", "soon"} /\ handling' \subseteq Event
    BY <2>1, <1>4, ScheduledTypes DEF EventStopped
  <2>5. faults' \in 0..MaxFault
    BY <2>2, FaultTypes
  <2> QED BY <2>1, <2>3, <2>4, <2>5 DEF AgentSideTypes, GatewaySame
<1>5. pool \in [Gateway -> SUBSET Container]
  BY DEF GatewayTypes
<1> QED BY <1>1, <1>2, <1>3, <1>4, <1>5 DEF EventStep

LEMMA BreakTypes ==
  ASSUME AgentSideTypes, BreakStream
  PROVE  AgentSideTypes' /\ GatewaySame /\ pool' = pool /\ last' = last
<1>1. /\ events' = <<>> /\ missed' = TRUE /\ faults < MaxFault /\ faults' = faults + 1
      /\ UNCHANGED <<running, changes, handling, known, due, stateOK, last, scans, edge,
                     accepted, kept, calls, pool>>
  BY DEF BreakStream, DockerFails, gatewaySide
<1>2. events' \in Seq(Event) /\ faults' \in 0..MaxFault
  BY <1>1, FaultTypes
<1> QED BY <1>1, <1>2 DEF AgentSideTypes, GatewaySame

\* One scan replaced by another keeps the type of the scans.
LEMMA ReplaceScan ==
  ASSUME AgentSideTypes, NEW s \in scans, NEW n \in Scan,
         scans' = (scans \ {s}) \cup {n}
  PROVE  scans' \subseteq Scan
BY DEF AgentSideTypes

LEMMA ScanStartTypes ==
  ASSUME AgentSideTypes, NEW t \in due, ScanStart(t)
  PROVE  AgentSideTypes' /\ GatewaySame /\ pool' = pool /\ last' = last
<1> DEFINE n == [pc |-> "list", before |-> known, gone |-> {}, routes |-> {}]
<1>1. /\ due' = due \ {t} /\ scans' = scans \cup {n}
      /\ UNCHANGED <<running, changes, events, handling, known, last, edge, faults, missed,
                     stateOK, accepted, kept, calls, pool>>
  BY DEF ScanStart, docker, gatewaySide
<1>2. n \in Scan
  BY DEF AgentSideTypes, Scan
<1> HIDE DEF n
<1>3. scans' \subseteq Scan
  BY <1>1, <1>2 DEF AgentSideTypes
<1> QED BY <1>1, <1>3 DEF AgentSideTypes, GatewaySame

\* The steps of a scan up to the one that publishes.
Scanning(s) == \/ ScanList(s) \/ StopGone(s) \/ TrackListed(s)
               \/ \E c \in s.before : ForgetGone(s, c)

LEMMA ScanTypes ==
  ASSUME AgentSideTypes, GatewayTypes, NEW s \in scans, Scanning(s)
  PROVE  /\ AgentSideTypes' /\ GatewaySame /\ last' = last
         /\ pool' \in [Gateway -> SUBSET Container]
<1>0. /\ s \in Scan /\ s.before \in SUBSET Container /\ s.gone \in SUBSET Container
      /\ s.routes \in SUBSET Container /\ running \in SUBSET Container
      /\ known \in SUBSET Container /\ pool \in [Gateway -> SUBSET Container]
  BY ScanFields DEF AgentSideTypes, GatewayTypes
<1>1. CASE ScanList(s)
  <2> DEFINE n == [s EXCEPT !.pc = "compare", !.routes = running]
  <2>1. /\ \/ scans' = (scans \ {s}) \cup {n} /\ missed' = FALSE /\ faults' = faults
           \/ /\ scans' = scans \ {s} /\ missed' = TRUE
              /\ faults < MaxFault /\ faults' = faults + 1
        /\ UNCHANGED <<running, changes, events, handling, known, last, edge, due, stateOK,
                       accepted, kept, calls, pool>>
    BY <1>1 DEF ScanList, DockerFails, docker, gatewaySide
  <2>2. n \in Scan
    BY <1>0 DEF Scan
  <2> HIDE DEF n
  <2>3. scans' \subseteq Scan /\ missed' \in BOOLEAN /\ faults' \in 0..MaxFault
    BY <2>1, <2>2, ReplaceScan, FaultTypes DEF AgentSideTypes
  <2> QED BY <1>0, <2>1, <2>3 DEF AgentSideTypes, GatewaySame
<1>2. CASE StopGone(s)
  <2> DEFINE n == [s EXCEPT !.gone = {}]
  <2>1. /\ scans' = (scans \ {s}) \cup {n} /\ Tell(pool[edge] \ s.gone)
        /\ UNCHANGED <<running, changes, events, handling, known, last, edge, missed, stateOK,
                       accepted, kept, calls>>
    BY <1>2 DEF StopGone, docker, gatewaySide
  <2>2. n \in Scan
    BY <1>0 DEF Scan
  <2> HIDE DEF n
  <2>3. scans' \subseteq Scan
    BY <2>1, <2>2, ReplaceScan
  <2>4. pool[edge] \ s.gone \in SUBSET Container
    BY <1>0 DEF AgentSideTypes
  <2>5. /\ faults' \in 0..MaxFault /\ due' \subseteq {"dirty", "soon"}
        /\ pool' \in [Gateway -> SUBSET Container]
    BY <2>1, <2>4, TellTypes
  <2> QED BY <2>1, <2>3, <2>5 DEF AgentSideTypes, GatewaySame
<1>3. CASE TrackListed(s)
  <2> DEFINE n == [s EXCEPT !.pc = "publish", !.before = {}]
  <2>1. /\ scans' = (scans \ {s}) \cup {n} /\ known' = known \cup s.routes
        /\ UNCHANGED <<running, changes, events, handling, last, edge, faults, missed, due,
                       stateOK, accepted, kept, calls, pool>>
    BY <1>3 DEF TrackListed, docker, gatewaySide
  <2>2. n \in Scan
    BY <1>0 DEF Scan
  <2> HIDE DEF n
  <2>3. scans' \subseteq Scan
    BY <2>1, <2>2, ReplaceScan
  <2> QED BY <1>0, <2>1, <2>3 DEF AgentSideTypes, GatewaySame
<1>4. ASSUME NEW c \in s.before, ForgetGone(s, c)
      PROVE  AgentSideTypes' /\ GatewaySame /\ last' = last /\ pool' = pool
  <2> DEFINE n == [s EXCEPT !.before = s.before \ {c}, !.gone = {c} \cap known]
  <2>1. /\ scans' = (scans \ {s}) \cup {n} /\ known' = known \ {c}
        /\ UNCHANGED <<running, changes, events, handling, last, edge, faults, missed, due,
                       stateOK, accepted, kept, calls, pool>>
    BY <1>4 DEF ForgetGone, docker, gatewaySide
  <2>2. n \in Scan
    BY <1>0 DEF Scan
  <2> HIDE DEF n
  <2>3. scans' \subseteq Scan
    BY <2>1, <2>2, ReplaceScan
  <2> QED BY <1>0, <2>1, <2>3 DEF AgentSideTypes, GatewaySame
<1> QED BY <1>0, <1>1, <1>2, <1>3, <1>4 DEF Scanning

LEMMA SwitchTypes ==
  ASSUME AgentSideTypes, NEW g \in Gateway, SwitchEdge(g)
  PROVE  AgentSideTypes' /\ GatewaySame /\ pool' = pool /\ last' = last
<1>1. /\ faults < MaxFault /\ faults' = faults + 1 /\ edge' = g /\ due' = due \cup {"soon"}
      /\ UNCHANGED <<running, changes, events, handling, known, last, scans, missed, stateOK,
                     accepted, kept, calls, pool>>
  BY DEF SwitchEdge, docker, gatewaySide
<1>2. faults' \in 0..MaxFault
  BY <1>1, FaultTypes
<1> QED BY <1>1, <1>2 DEF AgentSideTypes, GatewaySame

\* A step that leaves alone what gateways accept, keep and apply keeps the types.
LEMMA SameGenerations ==
  ASSUME AgentTypeOK, AgentSideTypes', GatewaySame, last' = last,
         pool' \in [Gateway -> SUBSET Container]
  PROVE  AgentTypeOK'
BY AgentTypeParts DEF AgentTypeOK, AgentSideTypes, GatewaySame

LEMMA PublishTypes ==
  ASSUME AgentTypeOK, NEW s \in scans, Publish(s)
  PROVE  AgentTypeOK'
<1>1. /\ last' = last + 1 /\ scans' = scans \ {s}
      /\ UNCHANGED <<running, changes, events, handling, known, edge, missed, kept, pool>>
  BY DEF Publish, docker
<1>2. faults' \in 0..MaxFault /\ due' \subseteq {"dirty", "soon"} /\ stateOK' \in BOOLEAN
  <2>1. faults' = faults \/ (faults < MaxFault /\ faults' = faults + 1)
    BY DEF Publish, Reaches
  <2>2. (due' = due \/ due' = due \cup {"dirty"}) /\ (stateOK' = stateOK \/ stateOK' = TRUE)
    BY Zenon DEF Publish, Reaches
  <2>3. faults' \in 0..MaxFault
    BY <2>1, AgentBoundAssumption DEF AgentTypeOK
  <2>4. due' \subseteq {"dirty", "soon"}
    BY <2>2 DEF AgentTypeOK
  <2>5. stateOK' \in BOOLEAN
    <3>1. stateOK \in BOOLEAN
      BY DEF AgentTypeOK
    <3> QED BY <3>1, <2>2, Zenon
  <2> QED BY <2>3, <2>4, <2>5
<1>3. AgentSideTypes'
  BY <1>1, <1>2 DEF AgentTypeOK, AgentSideTypes
<1>4. CASE UNCHANGED <<accepted, calls>>
  <2>1. GatewayTypes'
    BY <1>1, <1>4 DEF AgentTypeOK, GatewayTypes
  <2>2. Generations'
    BY <1>1, <1>4 DEF AgentTypeOK, Generations
  <2> QED BY <1>3, <2>1, <2>2 DEF AgentTypeOK, AgentSideTypes, GatewayTypes, Generations
<1>5. CASE ~UNCHANGED <<accepted, calls>>
  <2> DEFINE new == [at |-> edge, gen |-> last + 1, routes |-> s.routes,
                     todo |-> s.routes, by |-> "agent"]
  <2>1. /\ accepted' = [accepted EXCEPT ![edge] = last + 1]
        /\ calls' = calls \cup {new}
    BY <1>5 DEF Publish, Reaches
  <2>2. s.routes \in SUBSET Container /\ edge \in Gateway /\ last + 1 \in Nat
    BY ScanFields DEF AgentTypeOK
  <2>3. /\ new \in Call /\ new.at = edge /\ new.gen = last + 1
        /\ new.todo = s.routes /\ new.routes = s.routes
    BY <2>2 DEF Call
  <2> HIDE DEF new
  <2>4. GatewayTypes'
    BY <1>1, <2>1, <2>2, <2>3 DEF AgentTypeOK, GatewayTypes
  <2>5. \A g \in Gateway : accepted[g] <= accepted'[g] /\ accepted'[g] <= last + 1
    BY <2>1, <2>2 DEF AgentTypeOK
  <2>6. Generations'
    <3>1. \A c \in calls' : c.todo \subseteq c.routes /\ c.gen <= accepted'[c.at]
      <4> TAKE c \in calls'
      <4>1. CASE c = new
        BY <4>1, <2>1, <2>2, <2>3 DEF AgentTypeOK
      <4>2. CASE c # new
        <5>1. c \in calls /\ c \in Call
          BY <4>2, <2>1 DEF AgentTypeOK
        <5>2. c.gen \in Nat /\ accepted[c.at] \in Nat /\ accepted'[c.at] \in Nat /\ c.at \in Gateway
          BY <5>1, <2>4, CallFields DEF AgentTypeOK, GatewayTypes
        <5> QED BY <5>1, <5>2, <2>5 DEF AgentTypeOK
      <4> QED BY <4>1, <4>2
    <3>2. \A g \in Gateway : kept'[g].gen <= accepted'[g] /\ accepted'[g] <= last'
      <4> TAKE g \in Gateway
      <4>1. accepted[g] \in Nat /\ accepted'[g] \in Nat /\ kept[g].gen \in Nat
        BY <2>4 DEF AgentTypeOK, GatewayTypes, State
      <4> QED BY <4>1, <1>1, <2>5 DEF AgentTypeOK
    <3> QED BY <3>1, <3>2 DEF Generations
  <2> QED BY <1>3, <2>4, <2>6 DEF AgentTypeOK, AgentSideTypes, GatewayTypes, Generations
<1> QED BY <1>4, <1>5

\* A route applied changes what is left to do of one state, and nothing else of it.
LEMMA ApplyRouteFacts ==
  ASSUME AgentTypeOK, NEW c \in calls, NEW r \in c.todo, ApplyRoute(c, r)
  PROVE  \E n \in Call :
           /\ calls' = (calls \ {c}) \cup {n}
           /\ n.at = c.at /\ n.gen = c.gen /\ n.routes = c.routes /\ n.todo = c.todo \ {r}
<1> DEFINE n == [c EXCEPT !.todo = @ \ {r}]
<1>1. c \in Call
  BY DEF AgentTypeOK
<1>2. /\ n \in Call
      /\ n.at = c.at /\ n.gen = c.gen /\ n.routes = c.routes /\ n.todo = c.todo \ {r}
  BY <1>1 DEF Call
<1>3. calls' = (calls \ {c}) \cup {n}
  BY DEF ApplyRoute
<1> QED BY <1>2, <1>3

LEMMA ApplyRouteTypes ==
  ASSUME AgentTypeOK, NEW c \in calls, NEW r \in c.todo, ApplyRoute(c, r)
  PROVE  AgentTypeOK'
<1>1. PICK n \in Call :
        /\ calls' = (calls \ {c}) \cup {n}
        /\ n.at = c.at /\ n.gen = c.gen /\ n.routes = c.routes /\ n.todo = c.todo \ {r}
  BY ApplyRouteFacts
<1>2. UNCHANGED <<running, changes, events, handling, known, last, scans, edge, faults, missed,
                  due, stateOK, accepted, kept>>
  BY DEF ApplyRoute, agentSide, docker
<1>3. c \in Call /\ c.at \in Gateway /\ c.routes \in SUBSET Container
  BY CallFields DEF AgentTypeOK
<1>4. c.todo \subseteq c.routes /\ c.gen <= accepted[c.at]
  BY DEF AgentTypeOK
<1>5. pool' \in [Gateway -> SUBSET Container]
  BY <1>3, <1>4 DEF AgentTypeOK, ApplyRoute
<1>6. GatewayTypes'
  BY <1>1, <1>2, <1>5 DEF AgentTypeOK, GatewayTypes
<1>7. \A d \in calls' : d.todo \subseteq d.routes /\ d.gen <= accepted[d.at]
  <2> TAKE d \in calls'
  <2>1. CASE d = n
    BY <2>1, <1>1, <1>4
  <2>2. CASE d # n
    BY <2>2, <1>1 DEF AgentTypeOK
  <2> QED BY <2>1, <2>2
<1>8. Generations'
  BY <1>2, <1>7 DEF AgentTypeOK, Generations
<1>9. AgentSideTypes'
  BY <1>2 DEF AgentTypeOK, AgentSideTypes
<1> QED BY <1>6, <1>8, <1>9 DEF AgentTypeOK, AgentSideTypes, GatewayTypes, Generations

\* The end of a state: it may go to the peers that accept it, and its call is over.
LEMMA FinishFacts ==
  ASSUME AgentTypeOK, NEW c \in calls, Finish(c)
  PROVE  \E to \in SUBSET (Gateway \ {c.at}) :
           /\ \A g \in to : c.gen > accepted[g] /\ (Overlap \/ ~Busy(g))
           /\ accepted' = [g \in Gateway |-> IF g \in to THEN c.gen ELSE accepted[g]]
           /\ calls' \subseteq Call
           /\ calls \ {c} \subseteq calls'
           /\ \A d \in calls' \ (calls \ {c}) :
                d.at \in to /\ d.gen = c.gen /\ d.routes = c.routes /\ d.todo = c.routes
           /\ \A g \in to : \E d \in calls' : d.at = g /\ d.gen = c.gen
           /\ \A d, e \in calls' \ (calls \ {c}) : d.at = e.at => d = e
<1>1. PICK to \in SUBSET PushTo(c) :
        /\ accepted' = [g \in Gateway |-> IF g \in to THEN c.gen ELSE accepted[g]]
        /\ calls' = (calls \ {c}) \cup {[at |-> g, gen |-> c.gen, routes |-> c.routes,
                                         todo |-> c.routes, by |-> "peer"] : g \in to}
  BY DEF Finish
<1>2. /\ to \in SUBSET (Gateway \ {c.at})
      /\ \A g \in to : c.gen > accepted[g] /\ (Overlap \/ ~Busy(g))
  BY <1>1 DEF PushTo, Accept
<1> DEFINE sent(g) == [at |-> g, gen |-> c.gen, routes |-> c.routes,
                       todo |-> c.routes, by |-> "peer"]
<1>3. c \in Call /\ c.gen \in Nat /\ c.routes \in SUBSET Container
  BY CallFields DEF AgentTypeOK
<1>4. \A g \in Gateway : /\ sent(g) \in Call /\ sent(g).at = g /\ sent(g).gen = c.gen
                         /\ sent(g).routes = c.routes /\ sent(g).todo = c.routes
  BY <1>3 DEF Call
<1>5. calls' = (calls \ {c}) \cup {sent(g) : g \in to}
  BY <1>1
<1> HIDE DEF sent
<1>6. \A d \in calls' \ (calls \ {c}) : \E g \in to : d = sent(g)
  BY <1>5
<1>7. calls' \subseteq Call
  BY <1>2, <1>4, <1>5, <1>6 DEF AgentTypeOK
<1>8. \A d \in calls' \ (calls \ {c}) :
        d.at \in to /\ d.gen = c.gen /\ d.routes = c.routes /\ d.todo = c.routes
  BY <1>2, <1>4, <1>6
<1>9. \A g \in to : \E d \in calls' : d.at = g /\ d.gen = c.gen
  BY <1>2, <1>4, <1>5
<1>10. \A d, e \in calls' \ (calls \ {c}) : d.at = e.at => d = e
  BY <1>2, <1>4, <1>6
<1>11. calls \ {c} \subseteq calls'
  BY <1>5
<1> QED BY <1>1, <1>2, <1>7, <1>8, <1>9, <1>10, <1>11

\* What a gateway keeps is a state, no older than before and no newer than what was applied.
LEMMA PutState ==
  ASSUME AgentTypeOK, NEW c \in calls
  PROVE  /\ Put(c) \in State
         /\ Put(c) = kept[c.at] \/ Put(c) = [gen |-> c.gen, routes |-> c.routes]
         /\ Put(c).gen >= kept[c.at].gen /\ Put(c).gen >= c.gen /\ Put(c).gen <= accepted[c.at]
<1>1. c \in Call /\ c.at \in Gateway /\ c.gen \in Nat /\ c.routes \in SUBSET Container
  BY CallFields DEF AgentTypeOK
<1>2. kept[c.at] \in State /\ kept[c.at].gen \in Nat
  BY <1>1, StateFields DEF AgentTypeOK
<1>3. [gen |-> c.gen, routes |-> c.routes] \in State
  BY <1>1 DEF State
<1>4. c.gen <= accepted[c.at] /\ kept[c.at].gen <= accepted[c.at] /\ accepted[c.at] \in Nat
  BY <1>1 DEF AgentTypeOK
<1>5. CASE kept[c.at].gen >= c.gen
  BY <1>5, <1>2, <1>4, <1>1 DEF Put
<1>6. CASE ~(kept[c.at].gen >= c.gen)
  <2>1. Put(c) = [gen |-> c.gen, routes |-> c.routes] /\ Put(c).gen = c.gen
    BY <1>6 DEF Put
  <2> QED BY <2>1, <1>6, <1>1, <1>2, <1>3, <1>4
<1> QED BY <1>5, <1>6

LEMMA FinishTypes ==
  ASSUME AgentTypeOK, NEW c \in calls, Finish(c)
  PROVE  AgentTypeOK'
<1>1. PICK to \in SUBSET (Gateway \ {c.at}) :
        /\ \A g \in to : c.gen > accepted[g]
        /\ accepted' = [g \in Gateway |-> IF g \in to THEN c.gen ELSE accepted[g]]
        /\ calls' \subseteq Call
        /\ \A d \in calls' \ (calls \ {c}) :
             d.at \in to /\ d.gen = c.gen /\ d.routes = c.routes /\ d.todo = c.routes
  BY FinishFacts
<1>2. /\ kept' = [kept EXCEPT ![c.at] = Put(c)] /\ pool' = [pool EXCEPT ![c.at] = Pruned(c)]
      /\ UNCHANGED <<running, changes, events, handling, known, last, scans, edge, missed>>
  BY DEF Finish, docker
<1>3. c \in Call /\ c.at \in Gateway /\ c.gen \in Nat /\ c.gen <= accepted[c.at]
  BY CallFields DEF AgentTypeOK
<1>4. faults' \in 0..MaxFault /\ due' \subseteq {"dirty", "soon"} /\ stateOK' \in BOOLEAN
  <2>1. faults' = faults \/ (faults < MaxFault /\ faults' = faults + 1)
    BY DEF Finish, Reaches
  <2>2. (due' = due \/ due' = due \cup {"dirty"}) /\ (stateOK' = stateOK \/ stateOK' = TRUE)
    BY Zenon DEF Finish, Reaches
  <2>3. faults' \in 0..MaxFault
    BY <2>1, AgentBoundAssumption DEF AgentTypeOK
  <2>4. due' \subseteq {"dirty", "soon"}
    BY <2>2 DEF AgentTypeOK
  <2>5. stateOK' \in BOOLEAN
    <3>1. stateOK \in BOOLEAN
      BY DEF AgentTypeOK
    <3> QED BY <3>1, <2>2, Zenon
  <2> QED BY <2>3, <2>4, <2>5
<1>5. AgentSideTypes'
  BY <1>2, <1>4 DEF AgentTypeOK, AgentSideTypes
<1>6. GatewayTypes'
  <2>1. accepted' \in [Gateway -> Nat]
    BY <1>1, <1>3 DEF AgentTypeOK
  <2>2. kept' \in [Gateway -> State]
    BY <1>2, PutState DEF AgentTypeOK
  <2>3. pool' \in [Gateway -> SUBSET Container]
    BY <1>2, <1>3 DEF AgentTypeOK, Pruned
  <2> QED BY <1>1, <2>1, <2>2, <2>3 DEF GatewayTypes
<1>7. \A g \in Gateway : /\ accepted[g] \in Nat /\ accepted'[g] \in Nat
                         /\ accepted[g] <= accepted'[g] /\ accepted'[g] <= last
  <2> TAKE g \in Gateway
  <2>1. accepted[g] \in Nat /\ accepted[g] <= last /\ accepted[c.at] <= last
    BY <1>3 DEF AgentTypeOK
  <2>2. accepted[c.at] \in Nat /\ last \in Nat
    BY <1>3 DEF AgentTypeOK
  <2>3. accepted'[g] = accepted[g] \/ (accepted'[g] = c.gen /\ c.gen > accepted[g])
    BY <1>1
  <2> QED BY <2>1, <2>2, <2>3, <1>3
<1>8. \A d \in calls' : d.todo \subseteq d.routes /\ d.gen <= accepted'[d.at]
  <2> TAKE d \in calls'
  <2>1. CASE d \in calls
    <3>1. d \in Call /\ d.at \in Gateway /\ d.gen \in Nat
      BY <2>1, CallFields DEF AgentTypeOK
    <3>2. d.todo \subseteq d.routes /\ d.gen <= accepted[d.at]
      BY <2>1 DEF AgentTypeOK
    <3> QED BY <3>1, <3>2, <1>7
  <2>2. CASE d \notin calls
    BY <2>2, <1>1, <1>3
  <2> QED BY <2>1, <2>2
<1>9. \A g \in Gateway : kept'[g].gen <= accepted'[g]
  <2> TAKE g \in Gateway
  <2>1. kept[g].gen <= accepted[g] /\ kept[g].gen \in Nat
    BY StateFields DEF AgentTypeOK
  <2>2. CASE g = c.at
    <3>1. kept'[g] = Put(c) /\ Put(c).gen <= accepted[g] /\ Put(c).gen \in Nat
      BY <2>2, <1>2, PutState, StateFields DEF AgentTypeOK
    <3> QED BY <3>1, <1>7
  <2>3. CASE g # c.at
    <3>1. kept'[g] = kept[g]
      BY <2>3, <1>2 DEF AgentTypeOK
    <3> QED BY <3>1, <2>1, <1>7
  <2> QED BY <2>2, <2>3
<1>10. Generations'
  BY <1>2, <1>7, <1>8, <1>9 DEF Generations
<1> QED BY <1>5, <1>6, <1>10 DEF AgentTypeOK, AgentSideTypes, GatewayTypes, Generations

\* A pull brings a gateway the state a peer keeps.
LEMMA PullFacts ==
  ASSUME AgentTypeOK, NEW g \in Gateway, NEW p \in Gateway, Pull(g, p)
  PROVE  \E n \in Call :
           /\ calls' = calls \cup {n} /\ accepted' = [accepted EXCEPT ![g] = n.gen]
           /\ n.at = g /\ n.gen = kept[p].gen /\ n.routes = kept[p].routes
           /\ n.todo = kept[p].routes /\ n.gen > accepted[g] /\ n.gen <= last
           /\ UNCHANGED <<agentSide, due, stateOK, kept, pool>>
<1> DEFINE n == [at |-> g, gen |-> kept[p].gen, routes |-> kept[p].routes,
                 todo |-> kept[p].routes, by |-> "peer"]
<1>1. kept[p].gen \in Nat /\ kept[p].routes \in SUBSET Container
  BY StateFields DEF AgentTypeOK
<1>2. /\ n \in Call /\ n.at = g /\ n.gen = kept[p].gen /\ n.routes = kept[p].routes
      /\ n.todo = kept[p].routes
  BY <1>1 DEF Call
<1>3. /\ calls' = calls \cup {n} /\ accepted' = [accepted EXCEPT ![g] = n.gen]
      /\ UNCHANGED <<agentSide, due, stateOK, kept, pool>>
  BY DEF Pull
<1>4. n.gen > accepted[g]
  BY DEF Pull, Accept
<1>5. n.gen <= last
  <2>1. kept[p].gen <= accepted[p] /\ accepted[p] <= last /\ accepted[p] \in Nat /\ last \in Nat
    BY DEF AgentTypeOK
  <2> QED BY <2>1, <1>1
<1> QED BY <1>2, <1>3, <1>4, <1>5

LEMMA PullTypes ==
  ASSUME AgentTypeOK, NEW g \in Gateway, NEW p \in Gateway, Pull(g, p)
  PROVE  AgentTypeOK'
<1>1. PICK n \in Call :
        /\ calls' = calls \cup {n} /\ accepted' = [accepted EXCEPT ![g] = n.gen]
        /\ n.at = g /\ n.gen = kept[p].gen /\ n.routes = kept[p].routes
        /\ n.todo = kept[p].routes /\ n.gen > accepted[g] /\ n.gen <= last
        /\ UNCHANGED <<agentSide, due, stateOK, kept, pool>>
  BY PullFacts
<1>2. n.gen \in Nat
  BY CallFields
<1>3. AgentSideTypes'
  BY <1>1 DEF AgentTypeOK, AgentSideTypes, agentSide, docker
<1>4. GatewayTypes'
  BY <1>1, <1>2 DEF AgentTypeOK, GatewayTypes
<1>5. \A h \in Gateway : /\ accepted[h] \in Nat /\ accepted'[h] \in Nat
                         /\ accepted[h] <= accepted'[h] /\ accepted'[h] <= last
  <2> TAKE h \in Gateway
  <2>1. accepted[h] \in Nat /\ accepted[h] <= last
    BY DEF AgentTypeOK
  <2>2. accepted'[h] = accepted[h] \/ (h = g /\ accepted'[h] = n.gen)
    BY <1>1 DEF AgentTypeOK
  <2> QED BY <2>1, <2>2, <1>1, <1>2
<1>6. \A d \in calls' : d.todo \subseteq d.routes /\ d.gen <= accepted'[d.at]
  <2> TAKE d \in calls'
  <2>1. CASE d \in calls
    <3>1. d \in Call /\ d.at \in Gateway /\ d.gen \in Nat
      BY <2>1, CallFields DEF AgentTypeOK
    <3>2. d.todo \subseteq d.routes /\ d.gen <= accepted[d.at]
      BY <2>1 DEF AgentTypeOK
    <3> QED BY <3>1, <3>2, <1>5
  <2>2. CASE d = n
    BY <2>2, <1>1, <1>2 DEF AgentTypeOK
  <2> QED BY <2>1, <2>2, <1>1
<1>7. \A h \in Gateway : kept[h].gen <= accepted'[h]
  <2> TAKE h \in Gateway
  <2>1. kept[h].gen <= accepted[h] /\ kept[h].gen \in Nat
    BY StateFields DEF AgentTypeOK
  <2> QED BY <2>1, <1>5
<1>8. Generations'
  BY <1>1, <1>5, <1>6, <1>7 DEF Generations, agentSide
<1> QED BY <1>3, <1>4, <1>8 DEF AgentTypeOK, AgentSideTypes, GatewayTypes, Generations

LEMMA RestartTypes ==
  ASSUME AgentTypeOK, NEW g \in Gateway, RestartGateway(g)
  PROVE  AgentTypeOK'
<1>1. /\ accepted' = [accepted EXCEPT ![g] = 0] /\ kept' = [kept EXCEPT ![g] = NoState]
      /\ calls' = {c \in calls : c.at # g}
      /\ UNCHANGED <<running, changes, events, handling, known, missed, stateOK, last, scans,
                     edge, pool>>
  BY DEF RestartGateway, docker
<1>2. NoState \in State /\ NoState.gen = 0
  BY DEF NoState, State
<1>3. faults' \in 0..MaxFault
  BY AgentBoundAssumption DEF AgentTypeOK, RestartGateway
<1>4. due' \subseteq {"dirty", "soon"}
  BY DEF AgentTypeOK, RestartGateway
<1>5. AgentSideTypes'
  BY <1>1, <1>3, <1>4 DEF AgentTypeOK, AgentSideTypes
<1>6. GatewayTypes'
  BY <1>1, <1>2 DEF AgentTypeOK, GatewayTypes
<1>7. \A d \in calls' : d.todo \subseteq d.routes /\ d.gen <= accepted'[d.at]
  <2> TAKE d \in calls'
  <2>1. d \in calls /\ d.at # g /\ d.at \in Gateway
    BY <1>1, CallFields DEF AgentTypeOK
  <2>2. accepted'[d.at] = accepted[d.at]
    BY <2>1, <1>1 DEF AgentTypeOK
  <2> QED BY <2>1, <2>2 DEF AgentTypeOK
<1>8. \A h \in Gateway : kept'[h].gen <= accepted'[h] /\ accepted'[h] <= last
  <2> TAKE h \in Gateway
  <2>1. CASE h = g
    BY <2>1, <1>1, <1>2 DEF AgentTypeOK
  <2>2. CASE h # g
    <3>1. kept'[h] = kept[h] /\ accepted'[h] = accepted[h]
      BY <2>2, <1>1 DEF AgentTypeOK
    <3> QED BY <3>1 DEF AgentTypeOK
  <2> QED BY <2>1, <2>2
<1>9. Generations'
  BY <1>1, <1>7, <1>8 DEF Generations
<1> QED BY <1>5, <1>6, <1>9 DEF AgentTypeOK, AgentSideTypes, GatewayTypes, Generations

LEMMA AgentInitially == AgentInit => AgentTypeOK
<1> SUFFICES ASSUME AgentInit PROVE AgentTypeOK
  OBVIOUS
<1>1. AgentSideTypes
  <2>1. /\ running \subseteq Container /\ known \subseteq Container /\ stateOK \in BOOLEAN
        /\ missed \in BOOLEAN
    BY DEF AgentInit
  <2>2. changes \in 0..MaxChange /\ faults \in 0..MaxFault /\ last \in Nat
    BY AgentBoundAssumption DEF AgentInit
  <2>3. /\ events \in Seq(Event) /\ edge \in Gateway /\ scans = {} /\ handling = {} /\ due = {}
    BY AgentAssumption DEF AgentInit
  <2> QED BY <2>1, <2>2, <2>3 DEF AgentSideTypes
<1>2. GatewayTypes
  BY DEF AgentInit, GatewayTypes, State, Call
<1>3. Generations
  BY DEF AgentInit, Generations
<1> QED BY <1>1, <1>2, <1>3, AgentTypeParts

\* The steps of the Agent alone.
AgentAlone == \/ \E c \in Container : Change(c)
              \/ EventStep \/ BreakStream \/ \E t \in due : ScanStart(t)
              \/ \E s \in scans : Scanning(s)
              \/ \E g \in Gateway : SwitchEdge(g)

LEMMA AloneTypes ==
  ASSUME AgentTypeOK, AgentAlone
  PROVE  AgentTypeOK' /\ GatewaySame /\ last' = last
<1>1. /\ AgentSideTypes' /\ GatewaySame /\ last' = last
      /\ pool' \in [Gateway -> SUBSET Container]
  BY ChangeTypes, EventTypes, BreakTypes, ScanStartTypes, ScanTypes, SwitchTypes, AgentTypeParts
  DEF AgentAlone, AgentTypeOK
<1> QED BY <1>1, SameGenerations

\* The two specifications differ in whether the Agent may change its gateway.
FailoverNext == AgentNext \/ \E g \in Gateway : SwitchEdge(g)

\* What one step of either may be.
LEMMA StepCases ==
  ASSUME [FailoverNext]_agentVars
  PROVE  \/ AgentAlone
         \/ \E s \in scans : Publish(s)
         \/ \E g \in Gateway : RestartGateway(g)
         \/ \E c \in calls : Finish(c)
         \/ \E c \in calls : \E r \in c.todo : ApplyRoute(c, r)
         \/ \E g, p \in Gateway : Pull(g, p)
         \/ UNCHANGED agentVars
BY DEF FailoverNext, AgentNext, AgentAlone, ScanStep, Scanning

LEMMA AgentTypeStep ==
  ASSUME AgentTypeOK, [FailoverNext]_agentVars
  PROVE  AgentTypeOK'
<1>1. CASE UNCHANGED agentVars
  BY <1>1 DEF agentVars, agentSide, docker, gatewaySide, AgentTypeOK
<1>2. CASE AgentAlone
  BY <1>2, AloneTypes
<1>3. CASE \E s \in scans : Publish(s)
  BY <1>3, PublishTypes
<1>4. CASE \E g \in Gateway : RestartGateway(g)
  BY <1>4, RestartTypes
<1>5. CASE \E c \in calls : Finish(c)
  BY <1>5, FinishTypes
<1>6. CASE \E c \in calls : \E r \in c.todo : ApplyRoute(c, r)
  BY <1>6, ApplyRouteTypes
<1>7. CASE \E g, p \in Gateway : Pull(g, p)
  BY <1>7, PullTypes
<1> QED BY <1>1, <1>2, <1>3, <1>4, <1>5, <1>6, <1>7, StepCases

---------------------------------------------------------------------------
(* A generation stands for one set of routes *)

\* Nothing is newer than the last generation the Agent has given.
LEMMA CopiesBound ==
  ASSUME AgentTypeOK
  PROVE  \A v \in Copies : v \in State /\ v.gen \in Nat /\ v.gen <= last
<1>1. NoState \in State /\ NoState.gen = 0
  BY DEF NoState, State
<1>2. \A g \in Gateway : kept[g] \in State /\ kept[g].gen \in Nat /\ kept[g].gen <= last
  <2> TAKE g \in Gateway
  <2>1. kept[g] \in State /\ kept[g].gen \in Nat /\ accepted[g] \in Nat /\ last \in Nat
    BY StateFields DEF AgentTypeOK
  <2>2. kept[g].gen <= accepted[g] /\ accepted[g] <= last
    BY DEF AgentTypeOK
  <2> QED BY <2>1, <2>2
<1>3. \A c \in calls : LET v == [gen |-> c.gen, routes |-> c.routes] IN
        v \in State /\ v.gen \in Nat /\ v.gen <= last
  <2> TAKE c \in calls
  <2> DEFINE v == [gen |-> c.gen, routes |-> c.routes]
  <2>1. c.at \in Gateway /\ c.gen \in Nat /\ c.routes \in SUBSET Container
    BY CallFields DEF AgentTypeOK
  <2>2. accepted[c.at] \in Nat /\ last \in Nat /\ c.gen <= accepted[c.at] /\ accepted[c.at] <= last
    BY <2>1 DEF AgentTypeOK
  <2>3. v \in State /\ v.gen = c.gen
    BY <2>1 DEF State
  <2> QED BY <2>1, <2>2, <2>3
<1>4. last \in Nat
  BY DEF AgentTypeOK
<1> QED BY <1>1, <1>2, <1>3, <1>4 DEF Copies

\* Copying, dropping and forgetting bring no new state.
LEMMA CopiesOnly ==
  ASSUME OneState, Copies' \subseteq Copies
  PROVE  OneState'
BY DEF OneState

LEMMA OneStateStep ==
  ASSUME AgentTypeOK, OneState, [FailoverNext]_agentVars
  PROVE  OneState'
<1>1. CASE UNCHANGED agentVars
  BY <1>1, CopiesOnly DEF agentVars, gatewaySide, Copies
<1>2. CASE AgentAlone
  <2>1. UNCHANGED <<kept, calls>>
    BY <1>2, AloneTypes DEF GatewaySame
  <2> QED BY <2>1, CopiesOnly DEF Copies
<1>3. ASSUME NEW s \in scans, Publish(s)
      PROVE  OneState'
  <2> DEFINE new == [gen |-> last + 1, routes |-> s.routes]
  <2>1. kept' = kept
    BY <1>3 DEF Publish
  <2>2. \A c \in calls' : c \in calls \/ [gen |-> c.gen, routes |-> c.routes] = new
    BY <1>3 DEF Publish, Reaches
  <2>3. new.gen = last + 1
    OBVIOUS
  <2> HIDE DEF new
  <2>4. Copies' \subseteq Copies \cup {new}
    BY <2>1, <2>2 DEF Copies
  <2>5. \A v \in Copies : v.gen # new.gen
    <3> TAKE v \in Copies
    <3>1. v.gen \in Nat /\ v.gen <= last /\ last \in Nat
      BY CopiesBound DEF AgentTypeOK
    <3> QED BY <3>1, <2>3
  <2> QED BY <2>4, <2>5 DEF OneState
<1>4. ASSUME NEW g \in Gateway, RestartGateway(g)
      PROVE  OneState'
  <2>1. /\ \A h \in Gateway : kept'[h] = kept[h] \/ kept'[h] = NoState
        /\ calls' \subseteq calls
    BY <1>4 DEF RestartGateway, AgentTypeOK
  <2> QED BY <2>1, CopiesOnly DEF Copies
<1>5. ASSUME NEW c \in calls, Finish(c)
      PROVE  OneState'
  <2>1. /\ kept' = [kept EXCEPT ![c.at] = Put(c)]
        /\ \A d \in calls' : d \in calls \/ (d.gen = c.gen /\ d.routes = c.routes)
    BY <1>5, FinishFacts DEF Finish
  <2>2. \A g \in Gateway : \/ kept'[g] = kept[g]
                           \/ kept'[g] = [gen |-> c.gen, routes |-> c.routes]
    BY <2>1, <1>5, PutState DEF AgentTypeOK
  <2> QED BY <2>1, <2>2, <1>5, CopiesOnly DEF Copies
<1>6. ASSUME NEW c \in calls, NEW r \in c.todo, ApplyRoute(c, r)
      PROVE  OneState'
  <2>1. /\ kept' = kept
        /\ \A d \in calls' : d \in calls \/ (d.gen = c.gen /\ d.routes = c.routes)
    <3>1. PICK n \in Call :
            calls' = (calls \ {c}) \cup {n} /\ n.gen = c.gen /\ n.routes = c.routes
      BY <1>6, ApplyRouteFacts
    <3> QED BY <1>6, <3>1 DEF ApplyRoute
  <2> QED BY <2>1, <1>6, CopiesOnly DEF Copies
<1>7. ASSUME NEW g \in Gateway, NEW p \in Gateway, Pull(g, p)
      PROVE  OneState'
  <2>1. /\ kept' = kept
        /\ \A d \in calls' : d \in calls \/ (d.gen = kept[p].gen /\ d.routes = kept[p].routes)
    BY <1>7, PullFacts
  <2>2. kept[p] = [gen |-> kept[p].gen, routes |-> kept[p].routes]
    BY StateFields DEF AgentTypeOK
  <2> QED BY <2>1, <2>2, CopiesOnly DEF Copies
<1> QED BY <1>1, <1>2, <1>3, <1>4, <1>5, <1>6, <1>7, StepCases

---------------------------------------------------------------------------
(* The newest state accepted is kept or being applied *)

\* The condition for one gateway.
KeptAt(g) == accepted[g] = kept[g].gen \/ \E c \in calls : c.at = g /\ c.gen = accepted[g]

LEMMA NewestKeptStep ==
  ASSUME AgentTypeOK, NewestKept, [FailoverNext]_agentVars
  PROVE  NewestKept'
<1> SUFFICES ASSUME NEW g \in Gateway PROVE KeptAt(g)'
  BY DEF NewestKept, KeptAt
<1>0. KeptAt(g)
  BY DEF NewestKept, KeptAt
<1>1. CASE UNCHANGED agentVars
  BY <1>0, <1>1 DEF agentVars, gatewaySide, KeptAt
<1>2. CASE AgentAlone
  BY <1>0, <1>2, AloneTypes DEF GatewaySame, KeptAt
<1>3. ASSUME NEW s \in scans, Publish(s)
      PROVE  KeptAt(g)'
  <2>1. CASE UNCHANGED <<accepted, calls>>
    BY <1>0, <1>3, <2>1 DEF Publish, KeptAt
  <2>2. CASE ~UNCHANGED <<accepted, calls>>
    <3>1. /\ accepted' = [accepted EXCEPT ![edge] = last + 1] /\ kept' = kept
          /\ \E n : n.at = edge /\ n.gen = last + 1 /\ calls' = calls \cup {n}
      BY <1>3, <2>2 DEF Publish, Reaches
    <3> QED BY <1>0, <3>1 DEF KeptAt, AgentTypeOK
  <2> QED BY <2>1, <2>2
<1>4. ASSUME NEW h \in Gateway, RestartGateway(h)
      PROVE  KeptAt(g)'
  <2>1. CASE g = h
    BY <1>4, <2>1 DEF RestartGateway, KeptAt, AgentTypeOK, NoState
  <2>2. CASE g # h
    <3>1. accepted'[g] = accepted[g] /\ kept'[g] = kept[g] /\ calls' = {c \in calls : c.at # h}
      BY <1>4, <2>2 DEF RestartGateway, AgentTypeOK
    <3> QED BY <1>0, <2>2, <3>1 DEF KeptAt
  <2> QED BY <2>1, <2>2
<1>5. ASSUME NEW c \in calls, Finish(c)
      PROVE  KeptAt(g)'
  <2>1. PICK to \in SUBSET (Gateway \ {c.at}) :
          /\ accepted' = [h \in Gateway |-> IF h \in to THEN c.gen ELSE accepted[h]]
          /\ calls \ {c} \subseteq calls'
          /\ \A h \in to : \E d \in calls' : d.at = h /\ d.gen = c.gen
    BY <1>5, FinishFacts
  <2>2. kept' = [kept EXCEPT ![c.at] = Put(c)]
    BY <1>5 DEF Finish
  <2>3. CASE g \in to
    BY <2>1, <2>3 DEF KeptAt
  <2>4. CASE g \notin to
    <3>1. accepted'[g] = accepted[g]
      BY <2>1, <2>4
    <3>2. CASE \E d \in calls \ {c} : d.at = g /\ d.gen = accepted[g]
      BY <3>1, <3>2, <2>1 DEF KeptAt
    <3>3. CASE ~(\E d \in calls \ {c} : d.at = g /\ d.gen = accepted[g]) /\ g # c.at
      <4>1. accepted[g] = kept[g].gen /\ kept'[g] = kept[g]
        BY <1>0, <2>2, <3>3 DEF KeptAt, AgentTypeOK
      <4> QED BY <3>1, <4>1 DEF KeptAt
    <3>4. CASE ~(\E d \in calls \ {c} : d.at = g /\ d.gen = accepted[g]) /\ g = c.at
      <4>1. accepted[g] = kept[g].gen \/ c.gen = accepted[g]
        BY <1>0, <3>4 DEF KeptAt
      <4>2. /\ kept'[g] = Put(c) /\ Put(c).gen >= kept[g].gen /\ Put(c).gen >= c.gen
            /\ Put(c).gen <= accepted[g]
        BY <2>2, <3>4, <1>5, PutState DEF AgentTypeOK
      <4>3. Put(c).gen \in Nat /\ accepted[g] \in Nat
        BY <1>5, PutState, StateFields DEF AgentTypeOK
      <4>4. accepted[g] = Put(c).gen
        BY <4>1, <4>2, <4>3
      <4> QED BY <3>1, <4>2, <4>4 DEF KeptAt
    <3> QED BY <3>2, <3>3, <3>4
  <2> QED BY <2>3, <2>4
<1>6. ASSUME NEW c \in calls, NEW r \in c.todo, ApplyRoute(c, r)
      PROVE  KeptAt(g)'
  <2>1. PICK n \in Call :
          calls' = (calls \ {c}) \cup {n} /\ n.at = c.at /\ n.gen = c.gen
    BY <1>6, ApplyRouteFacts
  <2>2. UNCHANGED <<accepted, kept>>
    BY <1>6 DEF ApplyRoute
  <2> QED BY <1>0, <2>1, <2>2 DEF KeptAt
<1>7. ASSUME NEW h \in Gateway, NEW p \in Gateway, Pull(h, p)
      PROVE  KeptAt(g)'
  <2>1. PICK n \in Call : /\ calls' = calls \cup {n} /\ accepted' = [accepted EXCEPT ![h] = n.gen]
                          /\ n.at = h /\ kept' = kept
    BY <1>7, PullFacts
  <2> QED BY <1>0, <2>1 DEF KeptAt, AgentTypeOK
<1> QED BY <1>1, <1>2, <1>3, <1>4, <1>5, <1>6, <1>7, StepCases

---------------------------------------------------------------------------
(* A gateway applies one state after the other *)

\* The conditions for one gateway, and between it and a call.
Idle(g) == ~Busy(g) /\ accepted[g] > 0 => kept[g].gen = accepted[g] /\ pool[g] = kept[g].routes
Turn(c) == /\ c.gen > kept[c.at].gen /\ c.gen = accepted[c.at]
           /\ c.at # FirstEdge => c.routes \ c.todo \subseteq pool[c.at]
Single == \A c, d \in calls : c.at = d.at => c = d

InTurnInv == /\ edge = FirstEdge /\ Single /\ \A c \in calls : Turn(c)
             /\ \A g \in Gateway \ {FirstEdge} : Idle(g)

LEMMA InTurnParts == InTurnInv <=> InTurn /\ RoutesAreKept
BY DEF InTurnInv, InTurn, RoutesAreKept, Single, Turn, Idle

\* Steps of the Agent change the routes of its own gateway only.
LEMMA AgentPool ==
  ASSUME AgentTypeOK, edge = FirstEdge,
         \/ \E c \in Container : Change(c)
         \/ EventStep \/ BreakStream \/ \E t \in due : ScanStart(t)
         \/ \E s \in scans : Scanning(s)
  PROVE  edge' = FirstEdge /\ \A g \in Gateway \ {FirstEdge} : pool'[g] = pool[g]
<1>1. edge' = edge
  BY DEF Change, EventStep, EventStart, EventStarted, EventStop, EventStopped, BreakStream,
         ScanStart, Scanning, ScanList, StopGone, TrackListed, ForgetGone
<1>2. ASSUME NEW routes, Tell(routes)
      PROVE  pool' = pool \/ pool' = [pool EXCEPT ![edge] = routes]
  BY <1>2 DEF Tell, Reaches
<1>3. pool' = pool \/ \E routes : pool' = [pool EXCEPT ![edge] = routes]
  BY <1>2 DEF Change, EventStep, EventStart, EventStarted, EventStop, EventStopped, BreakStream,
              ScanStart, Scanning, ScanList, StopGone, TrackListed, ForgetGone
<1> QED BY <1>1, <1>3 DEF AgentTypeOK

LEMMA InTurnAlone ==
  ASSUME InTurnInv, AgentTypeOK, GatewaySame, edge' = FirstEdge,
         \A g \in Gateway \ {FirstEdge} : pool'[g] = pool[g]
  PROVE  InTurnInv'
<1>1. UNCHANGED <<accepted, kept, calls>>
  BY DEF GatewaySame
<1>2. Single' /\ \A g \in Gateway : Busy(g)' = Busy(g)
  BY <1>1 DEF InTurnInv, Single, Busy
<1>3. \A c \in calls : Turn(c)'
  BY <1>1, CallFields DEF InTurnInv, Turn, AgentTypeOK
<1>4. \A g \in Gateway \ {FirstEdge} : Idle(g)'
  BY <1>1, <1>2 DEF InTurnInv, Idle
<1> QED BY <1>1, <1>2, <1>3, <1>4 DEF InTurnInv

\* A gateway that is idle accepts a newer state.
LEMMA InTurnAccept ==
  ASSUME InTurnInv, AgentTypeOK, NEW g \in Gateway, ~Busy(g), NEW n \in Call,
         calls' = calls \cup {n}, accepted' = [accepted EXCEPT ![g] = n.gen],
         n.at = g, n.todo = n.routes, n.gen > accepted[g], UNCHANGED <<kept, pool, edge>>
  PROVE  InTurnInv'
<1>1. \A c \in calls : c.at # g
  BY DEF Busy
<1>2. Single'
  BY <1>1 DEF InTurnInv, Single
<1>3. \A c \in calls : Turn(c)'
  <2> TAKE c \in calls
  <2>1. c.at \in Gateway /\ c.at # g /\ Turn(c)
    BY <1>1, CallFields DEF AgentTypeOK, InTurnInv
  <2>2. accepted'[c.at] = accepted[c.at]
    BY <2>1 DEF AgentTypeOK
  <2> QED BY <2>1, <2>2 DEF Turn
<1>4. Turn(n)'
  <2>1. kept[g].gen <= accepted[g] /\ kept[g].gen \in Nat /\ accepted[g] \in Nat /\ n.gen \in Nat
    BY StateFields, CallFields DEF AgentTypeOK
  <2>2. accepted'[g] = n.gen
    BY DEF AgentTypeOK
  <2>3. n.gen > kept[g].gen
    BY <2>1
  <2> QED BY <2>2, <2>3 DEF Turn
<1>5. \A h \in Gateway \ {FirstEdge} : Idle(h)'
  <2> TAKE h \in Gateway \ {FirstEdge}
  <2>1. CASE h = g
    BY <2>1 DEF Idle, Busy
  <2>2. CASE h # g
    <3>1. Busy(h)' = Busy(h) /\ accepted'[h] = accepted[h]
      BY <2>2 DEF Busy, AgentTypeOK
    <3> QED BY <3>1 DEF InTurnInv, Idle
  <2> QED BY <2>1, <2>2
<1> QED BY <1>2, <1>3, <1>4, <1>5 DEF InTurnInv

LEMMA InTurnFinish ==
  ASSUME InTurnInv, AgentTypeOK, ~Overlap, NEW c \in calls, Finish(c)
  PROVE  InTurnInv'
<1>1. PICK to \in SUBSET (Gateway \ {c.at}) :
        /\ \A g \in to : c.gen > accepted[g] /\ (Overlap \/ ~Busy(g))
        /\ accepted' = [g \in Gateway |-> IF g \in to THEN c.gen ELSE accepted[g]]
        /\ calls' \subseteq Call
        /\ calls \ {c} \subseteq calls'
        /\ \A d \in calls' \ (calls \ {c}) :
             d.at \in to /\ d.gen = c.gen /\ d.routes = c.routes /\ d.todo = c.routes
        /\ \A g \in to : \E d \in calls' : d.at = g /\ d.gen = c.gen
        /\ \A d, e \in calls' \ (calls \ {c}) : d.at = e.at => d = e
  BY FinishFacts
<1>2. /\ c.todo = {} /\ edge' = edge
      /\ kept' = [kept EXCEPT ![c.at] = Put(c)] /\ pool' = [pool EXCEPT ![c.at] = Pruned(c)]
  BY DEF Finish
<1>3. c \in Call /\ c.at \in Gateway /\ c.gen \in Nat /\ c.routes \in SUBSET Container
  BY CallFields DEF AgentTypeOK
<1>4. Turn(c) /\ Single /\ edge = FirstEdge
  BY DEF InTurnInv
<1>5. \A d \in calls' : d.at # c.at
  BY <1>1, <1>4 DEF Single
<1>6. \A d \in calls \ {c} : d.at \notin to
  BY <1>1 DEF Busy
<1>7. Single'
  BY <1>1, <1>4, <1>6 DEF Single
<1>8. \A g \in Gateway : g # c.at => kept'[g] = kept[g] /\ pool'[g] = pool[g]
  BY <1>2 DEF AgentTypeOK
<1>9. \A d \in calls' : Turn(d)'
  <2> TAKE d \in calls'
  <2>1. d \in Call /\ d.at \in Gateway /\ kept'[d.at] = kept[d.at] /\ pool'[d.at] = pool[d.at]
    BY <1>1, <1>5, <1>8, CallFields
  <2>2. CASE d \in calls \ {c}
    <3>1. Turn(d) /\ accepted'[d.at] = accepted[d.at]
      BY <1>1, <1>6, <2>1, <2>2 DEF InTurnInv
    <3> QED BY <2>1, <3>1 DEF Turn
  <2>3. CASE d \notin calls \ {c}
    <3>1. /\ d.at \in to /\ d.gen = c.gen /\ d.routes = d.todo
          /\ accepted'[d.at] = c.gen /\ c.gen > accepted[d.at]
      BY <1>1, <2>1, <2>3
    <3>2. kept[d.at].gen \in Nat /\ accepted[d.at] \in Nat /\ kept[d.at].gen <= accepted[d.at]
      BY <2>1, StateFields DEF AgentTypeOK
    <3>3. d.gen > kept[d.at].gen
      BY <3>1, <3>2, <1>3
    <3> QED BY <2>1, <3>1, <3>3 DEF Turn
  <2> QED BY <2>2, <2>3
<1>10. \A g \in Gateway \ {FirstEdge} : Idle(g)'
  <2> TAKE g \in Gateway \ {FirstEdge}
  <2>1. CASE g = c.at
    <3>1. kept[g].gen < c.gen /\ kept[g].gen \in Nat /\ accepted[g] = c.gen
      BY <2>1, <1>4, <1>3, StateFields DEF Turn, AgentTypeOK
    <3>2. Put(c) = [gen |-> c.gen, routes |-> c.routes]
      BY <2>1, <3>1, <1>3 DEF Put
    <3>3. kept'[g] = Put(c) /\ pool'[g] = pool[g] \cap c.routes /\ accepted'[g] = accepted[g]
      BY <1>1, <1>2, <2>1 DEF AgentTypeOK, Pruned
    <3>4. c.routes \subseteq pool[g]
      BY <1>2, <1>4, <2>1 DEF Turn
    <3>5. kept'[g].gen = c.gen /\ kept'[g].routes = c.routes /\ pool'[g] = c.routes
      BY <3>2, <3>3, <3>4
    <3> QED BY <3>1, <3>3, <3>5 DEF Idle
  <2>2. CASE g \in to
    BY <1>1, <2>2 DEF Idle, Busy
  <2>3. CASE g # c.at /\ g \notin to
    <3>1. Busy(g) => Busy(g)'
      BY <1>1, <2>3 DEF Busy
    <3>2. accepted'[g] = accepted[g] /\ kept'[g] = kept[g] /\ pool'[g] = pool[g] /\ Idle(g)
      BY <1>1, <1>8, <2>3 DEF InTurnInv
    <3> QED BY <3>1, <3>2 DEF Idle
  <2> QED BY <2>1, <2>2, <2>3
<1> QED BY <1>2, <1>4, <1>7, <1>9, <1>10 DEF InTurnInv

LEMMA InTurnApplyRoute ==
  ASSUME InTurnInv, AgentTypeOK, NEW c \in calls, NEW r \in c.todo, ApplyRoute(c, r)
  PROVE  InTurnInv'
<1>1. PICK n \in Call :
        /\ calls' = (calls \ {c}) \cup {n}
        /\ n.at = c.at /\ n.gen = c.gen /\ n.routes = c.routes /\ n.todo = c.todo \ {r}
  BY ApplyRouteFacts
<1>2. UNCHANGED <<edge, accepted, kept>> /\ pool' = [pool EXCEPT ![c.at] = @ \cup {r}]
  BY DEF ApplyRoute, agentSide
<1>3. c \in Call /\ c.at \in Gateway /\ Turn(c) /\ pool'[c.at] = pool[c.at] \cup {r}
  BY <1>2, CallFields DEF InTurnInv, AgentTypeOK
<1>4. Single'
  BY <1>1 DEF InTurnInv, Single
<1>5. Turn(n)'
  BY <1>1, <1>2, <1>3 DEF Turn
<1>6. \A d \in calls \ {c} : Turn(d)'
  <2> TAKE d \in calls \ {c}
  <2>1. Turn(d) /\ d.at # c.at /\ d.at \in Gateway
    BY CallFields DEF InTurnInv, Single, AgentTypeOK
  <2>2. pool'[d.at] = pool[d.at]
    BY <2>1, <1>2 DEF AgentTypeOK
  <2> QED BY <1>2, <2>1, <2>2 DEF Turn
<1>7. \A g \in Gateway \ {FirstEdge} : Idle(g)'
  <2> TAKE g \in Gateway \ {FirstEdge}
  <2>1. CASE g = c.at
    BY <1>1, <2>1 DEF Idle, Busy
  <2>2. CASE g # c.at
    <3>1. Busy(g) => Busy(g)'
      BY <1>1, <2>2 DEF Busy
    <3>2. pool'[g] = pool[g] /\ Idle(g)
      BY <1>2, <2>2 DEF InTurnInv, AgentTypeOK
    <3> QED BY <1>2, <3>1, <3>2 DEF Idle
  <2> QED BY <2>1, <2>2
<1> QED BY <1>1, <1>2, <1>4, <1>5, <1>6, <1>7 DEF InTurnInv

LEMMA InTurnRestart ==
  ASSUME InTurnInv, AgentTypeOK, NEW g \in Gateway, RestartGateway(g)
  PROVE  InTurnInv'
<1>1. /\ accepted' = [accepted EXCEPT ![g] = 0] /\ kept' = [kept EXCEPT ![g] = NoState]
      /\ calls' = {c \in calls : c.at # g} /\ UNCHANGED <<edge, pool>>
  BY DEF RestartGateway
<1>2. Single'
  BY <1>1 DEF InTurnInv, Single
<1>3. \A c \in calls' : Turn(c)'
  <2> TAKE c \in calls'
  <2>1. Turn(c) /\ c.at # g /\ c.at \in Gateway
    BY <1>1, CallFields DEF InTurnInv, AgentTypeOK
  <2>2. accepted'[c.at] = accepted[c.at] /\ kept'[c.at] = kept[c.at]
    BY <1>1, <2>1 DEF AgentTypeOK
  <2> QED BY <1>1, <2>1, <2>2 DEF Turn
<1>4. \A h \in Gateway \ {FirstEdge} : Idle(h)'
  <2> TAKE h \in Gateway \ {FirstEdge}
  <2>1. CASE h = g
    BY <1>1, <2>1 DEF Idle, AgentTypeOK
  <2>2. CASE h # g
    <3>1. Busy(h) => Busy(h)'
      BY <1>1, <2>2 DEF Busy
    <3>2. accepted'[h] = accepted[h] /\ kept'[h] = kept[h] /\ Idle(h)
      BY <1>1, <2>2 DEF InTurnInv, AgentTypeOK
    <3> QED BY <1>1, <3>1, <3>2 DEF Idle
  <2> QED BY <2>1, <2>2
<1> QED BY <1>1, <1>2, <1>3, <1>4 DEF InTurnInv

LEMMA InTurnStep ==
  ASSUME InTurnInv, AgentTypeOK, ~Overlap, [AgentNext]_agentVars
  PROVE  InTurnInv'
<1>1. CASE UNCHANGED agentVars
  BY <1>1 DEF agentVars, agentSide, gatewaySide, InTurnInv, Single, Turn, Idle, Busy
<1>2. CASE \/ \E c \in Container : Change(c)
           \/ EventStep \/ BreakStream \/ \E t \in due : ScanStart(t)
           \/ \E s \in scans : Scanning(s)
  <2>1. AgentAlone /\ edge = FirstEdge
    BY <1>2 DEF AgentAlone, InTurnInv
  <2> QED BY <1>2, <2>1, AgentPool, AloneTypes, InTurnAlone
<1>3. ASSUME NEW s \in scans, Publish(s)
      PROVE  InTurnInv'
  <2>1. ~Busy(edge) /\ UNCHANGED <<edge, kept, pool>> /\ edge = FirstEdge
    BY <1>3 DEF Publish, InTurnInv
  <2>2. CASE UNCHANGED <<accepted, calls>>
    BY <2>1, <2>2, InTurnAlone DEF GatewaySame
  <2>3. CASE ~UNCHANGED <<accepted, calls>>
    <3> DEFINE n == [at |-> edge, gen |-> last + 1, routes |-> s.routes,
                     todo |-> s.routes, by |-> "agent"]
    <3>1. /\ calls' = calls \cup {n} /\ accepted' = [accepted EXCEPT ![edge] = last + 1]
          /\ last + 1 > accepted[edge]
      BY <1>3, <2>3 DEF Publish, Reaches, Accept
    <3>2. n \in Call /\ n.at = edge /\ n.gen = last + 1 /\ n.todo = n.routes /\ edge \in Gateway
      BY ScanFields DEF Call, AgentTypeOK
    <3> HIDE DEF n
    <3> QED BY <2>1, <3>1, <3>2, InTurnAccept
  <2> QED BY <2>2, <2>3
<1>4. CASE \E g \in Gateway : RestartGateway(g)
  BY <1>4, InTurnRestart
<1>5. CASE \E c \in calls : Finish(c)
  BY <1>5, InTurnFinish
<1>6. CASE \E c \in calls : \E r \in c.todo : ApplyRoute(c, r)
  BY <1>6, InTurnApplyRoute
<1>7. ASSUME NEW g \in Gateway, NEW p \in Gateway, Pull(g, p)
      PROVE  InTurnInv'
  <2>1. PICK n \in Call :
          /\ calls' = calls \cup {n} /\ accepted' = [accepted EXCEPT ![g] = n.gen]
          /\ n.at = g /\ n.routes = kept[p].routes /\ n.todo = kept[p].routes
          /\ n.gen > accepted[g] /\ UNCHANGED <<agentSide, due, stateOK, kept, pool>>
    BY <1>7, PullFacts
  <2>2. ~Busy(g) /\ UNCHANGED <<kept, pool, edge>> /\ n.todo = n.routes
    BY <1>7, <2>1 DEF Pull, agentSide
  <2> QED BY <2>1, <2>2, InTurnAccept
<1> QED BY <1>1, <1>2, <1>3, <1>4, <1>5, <1>6, <1>7 DEF AgentNext, ScanStep, Scanning

---------------------------------------------------------------------------
(* The theorems *)

AgentInv == AgentTypeOK /\ OneState /\ NewestKept

LEMMA AgentInvInitially == AgentInit => AgentInv
<1> SUFFICES ASSUME AgentInit PROVE AgentInv
  OBVIOUS
<1>1. OneState
  <2> DEFINE first == [gen |-> 1, routes |-> running]
  <2>1. Copies \subseteq {NoState, first}
    BY DEF AgentInit, Copies
  <2>2. NoState.gen = 0 /\ first.gen = 1
    BY DEF NoState
  <2> HIDE DEF first
  <2> QED BY <2>1, <2>2 DEF OneState
<1>2. NewestKept
  BY DEF AgentInit, NewestKept
<1> QED BY <1>1, <1>2, AgentInitially DEF AgentInv

LEMMA AgentInvStep == AgentInv /\ [FailoverNext]_agentVars => AgentInv'
BY AgentTypeStep, OneStateStep, NewestKeptStep DEF AgentInv

\* Whether or not the Agent changes its gateway (switchEdge), with states that overlap or
\* not, a gateway keeps and applies only generations it has accepted and the Agent has
\* given (agentGenerations), a generation stands for one set of routes, and the newest
\* state accepted is kept for the peers or is being applied (acceptAgentState).
THEOREM AgentInvariant == FailoverSpec => []AgentInv
<1>1. AgentInv /\ [AgentNext \/ \E g \in Gateway : SwitchEdge(g)]_agentVars => AgentInv'
  BY AgentInvStep DEF FailoverNext
<1> QED BY <1>1, AgentInvInitially, PTL DEF FailoverSpec

\* Without a change of gateway: every behaviour of AgentSpec is one of FailoverSpec.
THEOREM AgentTypes == AgentSpec => []AgentInv
<1>1. AgentInv /\ [AgentNext]_agentVars => AgentInv'
  BY AgentInvStep DEF FailoverNext
<1> QED BY <1>1, AgentInvInitially, PTL DEF AgentSpec

LEMMA OneStateAgrees ==
  ASSUME AgentInv
  PROVE  StatesAgree
<1> SUFFICES ASSUME calls = {},
                    \A g, p \in Gateway :
                      kept[p] # NoState /\ Digest(p) # Digest(g) => ~Accept(g, kept[p].gen),
                    NEW g \in Gateway, NEW p \in Gateway, Digest(g) # Digest(p)
             PROVE  FALSE
  BY DEF StatesAgree
<1>1. \A h \in Gateway : kept[h].gen \in Nat /\ accepted[h] = kept[h].gen /\ kept[h] \in Copies
  BY StateFields DEF AgentInv, AgentTypeOK, NewestKept, Copies
<1>2. NoState \in Copies /\ NoState.gen = 0
  BY DEF Copies, NoState
<1>3. \A h, o \in Gateway : kept[h].gen = kept[o].gen => kept[h] = kept[o]
  BY <1>1 DEF AgentInv, OneState
<1>4. kept[g] # kept[p]
  BY DEF Digest
<1>5. CASE kept[g].gen > kept[p].gen
  <2>1. kept[g] # NoState
    BY <1>1, <1>2, <1>5
  <2> QED BY <1>1, <1>5, <2>1 DEF Accept
<1>6. CASE kept[p].gen > kept[g].gen
  <2>1. kept[p] # NoState
    BY <1>1, <1>2, <1>6
  <2> QED BY <1>1, <1>6, <2>1 DEF Accept
<1> QED BY <1>1, <1>3, <1>4, <1>5, <1>6

\* Gateways that apply nothing, and none of which has anything to ask of another
\* (syncAgentStateFromPeer), keep the same routes, whatever overlapped, failed or restarted
\* before: with equal generations they have equal states, else the older one would ask.
THEOREM StatesSettle == FailoverSpec => []StatesAgree
<1> QED BY AgentInvariant, OneStateAgrees, PTL

LEMMA InTurnInitially == AgentInit => InTurnInv
BY DEF AgentInit, InTurnInv, Single, Turn, Idle

\* When a gateway applies one state at a time, one that no event of the Agent reaches and
\* that is applying nothing routes to the containers of the newest state it has accepted
\* since it started: what applyAgentRoute adds and pruneAgentSource removes is the state.
THEOREM FollowersRoute ==
  ASSUME ~Overlap
  PROVE  AgentSpec => []RoutesAreKept
<1>1. AgentTypeOK /\ InTurnInv /\ [AgentNext]_agentVars => AgentTypeOK' /\ InTurnInv'
  BY AgentTypeStep, InTurnStep DEF FailoverNext
<1>2. InTurnInv => RoutesAreKept
  BY InTurnParts
<1> QED BY <1>1, <1>2, AgentInitially, InTurnInitially, PTL DEF AgentSpec

LEMMA SettledAlike ==
  ASSUME AgentTypeOK, StatesAgree, RoutesAreKept
  PROVE  FollowersAlike
<1> SUFFICES ASSUME calls = {},
                    \A g, p \in Gateway :
                      kept[p] # NoState /\ Digest(p) # Digest(g) => ~Accept(g, kept[p].gen),
                    NEW g \in Gateway \ {FirstEdge}, NEW p \in Gateway \ {FirstEdge},
                    accepted[g] > 0, accepted[p] > 0
             PROVE  pool[g] = pool[p]
  BY DEF FollowersAlike
<1>1. Digest(g) = Digest(p)
  BY DEF StatesAgree
<1>2. \A h \in {g, p} : kept[h].gen > 0 /\ pool[h] = kept[h].routes
  BY DEF RoutesAreKept, Busy
<1>3. \A h \in {g, p} : kept[h] # NoState
  BY <1>2 DEF NoState
<1> QED BY <1>1, <1>2, <1>3 DEF Digest

\* Then the gateways of a group that no event of the Agent reaches route alike, once none has
\* anything to apply or to ask.
THEOREM FollowersSettle ==
  ASSUME ~Overlap
  PROVE  AgentSpec => []FollowersAlike
<1>1. AgentInv => AgentTypeOK /\ StatesAgree
  BY OneStateAgrees DEF AgentInv
<1>2. AgentTypeOK /\ StatesAgree /\ RoutesAreKept => FollowersAlike
  BY SettledAlike
<1> QED BY <1>1, <1>2, AgentTypes, FollowersRoute, PTL

---------------------------------------------------------------------------
(* The three parts side by side *)

\* A behaviour that moves one part of the three keeps the types of all.
THEOREM RecoveryTypes == RecoverySpec => []RecoveryTypeOK
<1>1. Types /\ OneDocument /\ AgentTypeOK /\ SecretTypeOK /\ [RecoveryNext]_recoveryVars
        => Types' /\ OneDocument' /\ AgentTypeOK' /\ SecretTypeOK'
  <2> SUFFICES ASSUME Types, OneDocument, AgentTypeOK, SecretTypeOK, [RecoveryNext]_recoveryVars
               PROVE  Types' /\ OneDocument' /\ AgentTypeOK' /\ SecretTypeOK'
    OBVIOUS
  <2>1. [AgentNext]_agentVars /\ [SecretNext]_secretVars /\ [PushNext]_pushVars
    BY DEF RecoveryNext, recoveryVars
  <2>2. AgentTypeOK'
    BY <2>1, AgentTypeStep DEF FailoverNext
  <2> QED BY <2>1, <2>2, NextType, OverlapStep
<1>2. RecoveryInit => Types /\ OneDocument /\ AgentTypeOK /\ SecretTypeOK
  BY AgentInitially, InitType, OverlapInitially DEF RecoveryInit
<1>3. Types /\ AgentTypeOK /\ SecretTypeOK => RecoveryTypeOK
  BY TypesParts DEF RecoveryTypeOK
<1> QED BY <1>1, <1>2, <1>3, PTL DEF RecoverySpec

==================================================================================
