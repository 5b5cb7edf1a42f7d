--------------------------------- MODULE Deploy ---------------------------------
(***************************************************************************)
(* The deployment engine (internal/deploy/engine.go): the description of a   *)
(* host applied call by call through the API of Docker, and undone when a    *)
(* call fails or the deployment is cancelled.  Docker is external: it keeps  *)
(* objects by name, takes a volume that exists as created, makes a volume    *)
(* that a new container mounts and that is missing, refuses a network or a   *)
(* container that exists, and removes neither a volume some container has    *)
(* nor a network of a container that was started.                            *)
(***************************************************************************)
EXTENDS Naturals, Sequences, FiniteSets, SequencesExt

CONSTANTS
  Deployment,     \* deployments on one host
  Networks,       \* HostSpec.Networks of each, by name
  Volumes,        \* HostSpec.Volumes
  Containers,     \* HostSpec.Containers, in their order
  Existing,       \* objects that may be there before
  MaxError        \* bound: calls that fail

ASSUME DeployAssumption ==
  /\ MaxError \in Nat /\ "user" \notin Deployment
  /\ \A d \in Deployment :
       Networks[d] \in Seq(STRING) /\ Volumes[d] \in Seq(STRING) /\ Containers[d] \in Seq(STRING)

VARIABLES
  host,      \* Docker: who made each object that exists
  uses,      \* Docker: the networks and volumes of each container
  apply,     \* where Apply is, for each deployment
  lostWork,  \* history: objects made of which the journal has no trace
  stuck,     \* history: objects Docker failed to remove, or had to keep for others
  errors

deployVars == <<host, uses, apply, lostWork, stuck, errors>>

---------------------------------------------------------------------------
(* Data *)

Net(n) == [kind |-> "network", name |-> n]
Vol(v) == [kind |-> "volume", name |-> v]
Ctr(c) == [kind |-> "container", name |-> c]

ToSteps(s, f(_)) == [i \in 1..Len(s) |-> f(s[i])]
NetsOf(d) == ToSteps(Networks[d], Net)
VolsOf(d) == ToSteps(Volumes[d], Vol)
CtrsOf(d) == ToSteps(Containers[d], Ctr)
Objects == UNION {Range(NetsOf(d) \o VolsOf(d) \o CtrsOf(d)) : d \in Deployment}

Present(o) == o \in DOMAIN host
\* Fault: what exists is made, and journalled, again.
Missing_all(s) == s

\* Those that do not exist, in their order: the loop of Plan over a list.
Missing(s) ==
  LET found[i \in 0..Len(s)] ==
        IF i = 0 THEN <<>>
        ELSE IF Present(s[i]) THEN found[i - 1] ELSE Append(found[i - 1], s[i])
  IN found[Len(s)]

\* todo: objects to make; fresh: the container made last is not yet started; journal:
\* objects made; undo: those to remove.
Apply0 == [pc |-> "plan", todo |-> <<>>, fresh |-> FALSE, journal |-> <<>>, undo |-> <<>>]

DeployInit ==
  /\ \E was \in SUBSET Existing :
       /\ host = [o \in was |-> "user"]
       /\ uses = [o \in {c \in was : c.kind = "container"} |-> {}]
  /\ apply = [d \in Deployment |-> Apply0]
  /\ lostWork = [d \in Deployment |-> {}] /\ stuck = [d \in Deployment |-> {}]
  /\ errors = 0

CallFails == errors < MaxError /\ errors' = errors + 1

---------------------------------------------------------------------------
(* Apply *)

\* Plan and the images: a container that exists is a conflict, a network or a volume
\* that exists is used as it is.  An error here leaves nothing behind.
MakePlan(d) ==
  /\ apply[d].pc = "plan"
  /\ IF \E o \in Range(CtrsOf(d)) : Present(o)
     THEN apply' = [apply EXCEPT ![d].pc = "refused"] /\ UNCHANGED errors
     ELSE \/ /\ apply' = [apply EXCEPT ![d].pc = "run",
                            ![d].todo = Missing(NetsOf(d)) \o Missing(VolsOf(d)) \o CtrsOf(d)]
             /\ UNCHANGED errors
          \/ CallFails /\ apply' = [apply EXCEPT ![d].pc = "refused"]
  /\ UNCHANGED <<host, uses, lostWork, stuck>>

\* Docker makes an object: a volume that exists is taken as made, anything else that
\* exists is refused.  A container holds its volumes, and those that are missing are made
\* with it.
CanMake(o) == o.kind = "volume" \/ ~Present(o)
Makes(d, o) ==
  {x \in {o} \cup (IF o.kind = "container" THEN Range(VolsOf(d)) ELSE {}) : ~Present(x)}
MakeObject(d, o) ==
  /\ host' = [x \in DOMAIN host \cup Makes(d, o) |-> IF Present(x) THEN host[x] ELSE d]
  /\ uses' = IF o.kind = "container"
             THEN [x \in DOMAIN uses \cup {o} |-> IF x = o THEN Range(VolsOf(d)) ELSE uses[x]]
             ELSE uses

\* Fault: in the order they were made.
Undo_forward(j) == j

\* rollback begins: containers, volumes, networks, the last made first.
Undo(j) == Reverse(j)

Abort(d) == apply' = [apply EXCEPT ![d].pc = "undo", ![d].undo = Undo(apply[d].journal)]

\* One creation of run.  A call that fails, or that ctx cancels, may have been carried
\* out: the journal has no trace of it, nor of a volume made with a container.
CreateObject(d) ==
  LET o == Head(apply[d].todo) IN
  /\ apply[d].pc = "run" /\ ~apply[d].fresh /\ apply[d].todo # <<>>
  /\ \/ /\ CanMake(o)
        /\ MakeObject(d, o)
        /\ \/ /\ apply' = [apply EXCEPT ![d].todo = Tail(@), ![d].journal = Append(@, o),
                                        ![d].fresh = (o.kind = "container")]
              /\ lostWork' = [lostWork EXCEPT ![d] = @ \cup (Makes(d, o) \ {o})]
              /\ UNCHANGED errors
           \/ CallFails /\ Abort(d) /\ lostWork' = [lostWork EXCEPT ![d] = @ \cup Makes(d, o)]
     \/ /\ (~CanMake(o) /\ UNCHANGED errors) \/ CallFails
        /\ Abort(d)
        /\ UNCHANGED <<host, uses, lostWork>>
  /\ UNCHANGED stuck

\* Docker starts the container made last, which holds its networks from then on.
Hold(d) == LET c == Last(apply[d].journal) IN
  uses' = [uses EXCEPT ![c] = @ \cup Range(NetsOf(d))]

\* Fault: a container that does not start is left as it is.
StartContainer_leave(d) ==
  /\ apply[d].pc = "run" /\ apply[d].fresh
  /\ \/ Hold(d) /\ apply' = [apply EXCEPT ![d].fresh = FALSE] /\ UNCHANGED errors
     \/ /\ CallFails /\ UNCHANGED uses
        /\ apply' = [apply EXCEPT ![d].pc = "undo", ![d].undo = Undo(Front(apply[d].journal))]
  /\ UNCHANGED <<host, lostWork, stuck>>

\* The other networks of the container, its files, its start, and its health if asked: a
\* network that is gone, a call that fails or a container that does not become healthy
\* ends the deployment.
StartContainer(d) ==
  /\ apply[d].pc = "run" /\ apply[d].fresh
  /\ \/ /\ \A n \in Range(NetsOf(d)) : Present(n)
        /\ Hold(d)
        /\ \/ apply' = [apply EXCEPT ![d].fresh = FALSE] /\ UNCHANGED errors
           \/ CallFails /\ Abort(d)
     \/ /\ \/ (\E n \in Range(NetsOf(d)) : ~Present(n)) /\ UNCHANGED errors
           \/ CallFails
        /\ Abort(d)
        /\ UNCHANGED uses
  /\ UNCHANGED <<host, lostWork, stuck>>

Deployed(d) ==
  /\ apply[d].pc = "run" /\ ~apply[d].fresh /\ apply[d].todo = <<>>
  /\ apply' = [apply EXCEPT ![d].pc = "done"]
  /\ UNCHANGED <<host, uses, lostWork, stuck, errors>>

---------------------------------------------------------------------------
(* rollback *)

InUse(o) == \E c \in DOMAIN uses : o \in uses[c]
Gone(f, o) == [x \in DOMAIN f \ {o} |-> f[x]]

\* By a container of another deployment, or one of its own it cannot remove.
HeldByOthers(d, o) ==
  \E c \in DOMAIN uses : o \in uses[c] /\ (host[c] # d \/ c \in lostWork[d] \cup stuck[d])

\* One removal; what fails is reported and the others go on.
UndoObject(d) ==
  LET o == Head(apply[d].undo) IN
  /\ apply[d].pc = "undo" /\ apply[d].undo # <<>>
  /\ apply' = [apply EXCEPT ![d].undo = Tail(@)]
  /\ \/ ~InUse(o) /\ host' = Gone(host, o) /\ uses' = Gone(uses, o) /\ UNCHANGED <<stuck, errors>>
     \/ /\ InUse(o)
        /\ stuck' = IF HeldByOthers(d, o) THEN [stuck EXCEPT ![d] = @ \cup {o}] ELSE stuck
        /\ UNCHANGED <<host, uses, errors>>
     \/ CallFails /\ stuck' = [stuck EXCEPT ![d] = @ \cup {o}] /\ UNCHANGED <<host, uses>>
  /\ UNCHANGED lostWork

RolledBack(d) ==
  /\ apply[d].pc = "undo" /\ apply[d].undo = <<>>
  /\ apply' = [apply EXCEPT ![d].pc = "rolled"]
  /\ UNCHANGED <<host, uses, lostWork, stuck, errors>>

DeployNext == \E d \in Deployment :
  \/ MakePlan(d) \/ CreateObject(d) \/ StartContainer(d) \/ Deployed(d)
  \/ UndoObject(d) \/ RolledBack(d)

DeploySpec == DeployInit /\ [][DeployNext]_deployVars

---------------------------------------------------------------------------
(* Properties *)

DeployTypeOK ==
  /\ host \in [DOMAIN host -> Deployment \cup {"user"}] /\ DOMAIN host \subseteq Objects \cup Existing
  /\ uses \in [{o \in DOMAIN host : o.kind = "container"} -> SUBSET Objects]
  /\ apply \in [Deployment ->
       [pc : {"plan", "refused", "run", "done", "undo", "rolled"}, fresh : BOOLEAN,
        todo : Seq(Objects), journal : Seq(Objects), undo : Seq(Objects)]]
  /\ lostWork \in [Deployment -> SUBSET Objects] /\ stuck \in [Deployment -> SUBSET Objects]
  /\ errors \in 0..MaxError

\* A deployment that failed has removed all it made, but for what a call that failed had
\* made, a volume made with a container, what Docker failed to remove, and what a container
\* of another deployment used.
FailureLeavesNothing ==
  \A d \in Deployment : apply[d].pc = "rolled" =>
    \A o \in DOMAIN host : host[o] = d => o \in lostWork[d] \cup stuck[d]

\* Only a rollback takes anything away, and nothing that a container uses or that was there
\* before the deployments: what its own deployment made, or a volume that another has made
\* since the plan found it missing, which the journal has as created.
MayTake(d, o) ==
  /\ apply[d].pc = "undo" /\ ~InUse(o) /\ o \in Range(apply[d].journal)
  /\ host[o] = d \/ (o.kind = "volume" /\ host[o] \in Deployment)
OthersKept ==
  [][\A o \in DOMAIN host \ DOMAIN host' : \E d \in Deployment : MayTake(d, o)]_deployVars

\* What the comment of Apply says (engine.go:174-176): a rollback removes what its own
\* deployment created.  False when two plans find one volume missing.
OnlyOwnRemoved ==
  [][\A o \in DOMAIN host \ DOMAIN host' :
       \E d \in Deployment : host[o] = d /\ apply[d].pc = "undo"]_deployVars

---------------------------------------------------------------------------
(* FailureLeavesNothing and OthersKept, made inductive *)

IsContainer(o) == o.kind = "container"
ContainersLast(s) == \A i, j \in 1..Len(s) : i < j /\ IsContainer(s[i]) => IsContainer(s[j])
ContainersFirst(s) == \A i, j \in 1..Len(s) : i < j /\ IsContainer(s[j]) => IsContainer(s[i])

\* Only a volume can be made twice: it is taken as made when it exists.
NotTwice(s) == \A i, j \in 1..Len(s) : i # j /\ s[i] = s[j] => s[i].kind = "volume"

\* A deployment takes for its own what it made, and a volume that another has made.
Own(d, o) == Present(o) => host[o] = d \/ (o.kind = "volume" /\ host[o] \in Deployment)

\* What a deployment has made is where it will look for it.
Traced(d) ==
  \A o \in DOMAIN host : host[o] = d =>
    /\ apply[d].pc \notin {"plan", "refused"}
    /\ apply[d].pc = "run" => o \in Range(apply[d].journal) \cup lostWork[d]
    /\ apply[d].pc \in {"undo", "rolled"} =>
         o \in Range(apply[d].undo) \cup lostWork[d] \cup stuck[d]

\* What it is to make: the containers last, and no volume that was there before.
ToMake(d) ==
  /\ ContainersLast(apply[d].todo)
  /\ (\E o \in Range(apply[d].journal) : IsContainer(o)) =>
       \A o \in Range(apply[d].todo) : IsContainer(o)
  /\ \A o \in Range(apply[d].todo) :
       o.kind = "volume" => o \in Range(VolsOf(d)) /\ Own(d, o)

\* What it has made is there and its own, and so is what it is to remove, except a volume:
\* another may have made it, and may remove it.
Made(d) ==
  /\ ContainersLast(apply[d].journal) /\ NotTwice(apply[d].journal)
  /\ \A o \in Range(apply[d].journal) :
       /\ Own(d, o)
       /\ IF o.kind = "volume" THEN o \in Range(VolsOf(d)) ELSE Present(o)
  /\ apply[d].fresh => apply[d].journal # <<>>
ToRemove(d) ==
  /\ ContainersFirst(apply[d].undo) /\ NotTwice(apply[d].undo)
  /\ Range(apply[d].undo) \subseteq Range(apply[d].journal)
  /\ \A o \in Range(apply[d].undo) :
       /\ Own(d, o)
       /\ IF o.kind = "volume" THEN o \in Range(VolsOf(d)) ELSE Present(o)

Consistent(d) ==
  /\ Traced(d)
  /\ apply[d].pc = "plan" => apply[d] = Apply0
  /\ apply[d].pc = "run" => ToMake(d) /\ Made(d)
  /\ apply[d].pc = "undo" => ToRemove(d)
  /\ apply[d].pc = "rolled" => apply[d].undo = <<>>

DeployInv ==
  /\ DeployTypeOK
  /\ \A c \in DOMAIN uses : \A o \in uses[c] : ~IsContainer(o)
  /\ \A d \in Deployment : Consistent(d)

=================================================================================
