------------------------------ MODULE RoutingTable ------------------------------
(***************************************************************************)
(* The routing table of a gateway (internal/edge/router/table.go): routes   *)
(* by identifier and, for each host, the route that serves it.  Writers     *)
(* take Table.mu one at a time; requests read without it, so every access   *)
(* to the map of hosts is a step here.                                      *)
(*                                                                         *)
(* Maps hold pointers.  Most callers write a route they have just built,    *)
(* but the handlers of Agents change the one already in the table           *)
(* (agenthandlers.go, applyDiscoveryHostExtras) and write it again: objects *)
(* have an identity of their own here.  Listening ports, wildcards and the  *)
(* count of routes are left out.                                            *)
(***************************************************************************)
EXTENDS Naturals, FiniteSets

CONSTANTS
  Writer,      \* goroutines that change the table
  RouteId,     \* identifiers of routes, numbers in their order
  Discovered,  \* those IsDiscoveredID recognises
  TableHost,   \* hosts
  MaxObject,   \* bound: how many routes are built
  Relabel      \* TRUE: an Agent may withdraw an alias of a route in the table

Nil == 0

ASSUME RouteAssumption == RouteId \subseteq Nat /\ Discovered \subseteq RouteId
ASSUME ObjectAssumption == MaxObject \in Nat /\ Relabel \in BOOLEAN /\ Nil \notin Writer

VARIABLES
  object,   \* Route objects built so far: identifier, Host, and hostKeys
  routes,   \* tableData.routes: the object of each identifier
  byHost,   \* tableData.byHost: the object that serves each host
  mu,       \* Table.mu: its holder
  task      \* what each goroutine is doing

tableVars == <<object, routes, byHost, mu, task>>

---------------------------------------------------------------------------
(* Data *)

Object == 1..MaxObject
Route == {r \in [id : RouteId, host : TableHost, hosts : SUBSET TableHost] : r.host \in r.hosts}
Built == DOMAIN object

\* obj: the route written; old: the version it replaced or the route deleted;
\* keys: hosts still to store, or to take from old; kept: those of the new version;
\* list: the routes of a Replace.
Task == [pc : {"idle", "upsert", "store", "resolve", "replace"},
         obj : Object \cup {Nil}, old : Object \cup {Nil}, keys : SUBSET TableHost,
         kept : SUBSET TableHost, list : SUBSET Object]
Idle == [pc |-> "idle", obj |-> Nil, old |-> Nil, keys |-> {}, kept |-> {}, list |-> {}]

IdOf(o) == object[o].id
HostKeys(o) == object[o].hosts

\* Fault: the last writer takes the host.
MayOwn_last(o, owner) == TRUE

\* A configured route takes any host, a discovered one not from a configured one.
MayOwn(o, owner) ==
  \/ IdOf(o) \notin Discovered
  \/ owner = Nil
  \/ IdOf(owner) = IdOf(o)
  \/ IdOf(owner) \in Discovered

\* The routes of the table that claim k: the configured ones if there are any.
Claimants(k) == {i \in RouteId : routes[i] # Nil /\ k \in HostKeys(routes[i])}
BestClaimants(k) ==
  IF Claimants(k) \subseteq Discovered THEN Claimants(k) ELSE Claimants(k) \ Discovered

\* Fault: the host of a removed route is left to nobody.
ResolveLocked_drop(k) == Nil

\* resolveLocked: the present owner if it is one of them, else the first identifier.
ResolveLocked(k) ==
  LET cur == byHost[k] IN
  IF BestClaimants(k) = {} THEN Nil
  ELSE IF cur # Nil /\ \E i \in BestClaimants(k) : routes[i] = cur THEN cur
  ELSE routes[CHOOSE i \in BestClaimants(k) : \A j \in BestClaimants(k) : i <= j]

TableInit ==
  /\ object = <<>>
  /\ routes = [i \in RouteId |-> Nil]
  /\ byHost = [h \in TableHost |-> Nil]
  /\ mu = Nil
  /\ task = [w \in Writer |-> Idle]

---------------------------------------------------------------------------
(* Callers *)

Build(r) == object' = [o \in Built \cup {Cardinality(Built) + 1} |->
                         IF o \in Built THEN object[o] ELSE r]

\* A caller that builds its route: a proxy file, the Administration's API, a
\* delegation, the first announcement of a container.
NewRoute(w, r) ==
  /\ task[w].pc = "idle"
  /\ Cardinality(Built) < MaxObject
  /\ Build(r)
  /\ task' = [task EXCEPT ![w] = [Idle EXCEPT !.pc = "upsert", !.obj = Cardinality(Built) + 1]]
  /\ UNCHANGED <<routes, byHost, mu>>

\* An announcement for a discovered route of the table changes its aliases in place,
\* without the lock, and then writes it.
Announce(w, i, hs) ==
  /\ task[w].pc = "idle"
  /\ routes[i] # Nil
  /\ Relabel \/ HostKeys(routes[i]) \subseteq hs
  /\ object[routes[i]].host \in hs /\ hs # HostKeys(routes[i])
  /\ object' = [object EXCEPT ![routes[i]] = [object[routes[i]] EXCEPT !.hosts = hs]]
  /\ task' = [task EXCEPT ![w] = [Idle EXCEPT !.pc = "upsert", !.obj = routes[i]]]
  /\ UNCHANGED <<routes, byHost, mu>>

\* mergePushPreservingFileProxies: what the Administration sends, and the discovered
\* routes of the table as they are now.
Push(w, r) ==
  /\ task[w].pc = "idle"
  /\ Cardinality(Built) < MaxObject
  /\ Build(r)
  /\ task' = [task EXCEPT ![w] =
       [Idle EXCEPT !.pc = "replace",
                    !.list = {Cardinality(Built) + 1}
                               \cup {routes[i] : i \in {j \in Discovered : routes[j] # Nil}}]]
  /\ UNCHANGED <<routes, byHost, mu>>

---------------------------------------------------------------------------
(* Operations of the table *)

\* Once the new keys are stored: the keys of the replaced version left to resolve, less the
\* ones the new version had when its own were read.
AfterStore(w) ==
  LET old == task[w].old
      gone == IF old = Nil THEN {} ELSE HostKeys(old) \ task[w].kept IN
  IF gone = {} THEN Idle ELSE [Idle EXCEPT !.pc = "resolve", !.old = old, !.keys = gone]
Release(t) == mu' = IF t = Idle THEN Nil ELSE mu

\* A version that replaces the one in the table.
Storing(o) == [Idle EXCEPT !.pc = "store", !.obj = o, !.old = routes[IdOf(o)],
                           !.keys = HostKeys(o), !.kept = HostKeys(o)]

\* Fault: the hosts of the version before are taken away first.
UpsertLocked_clear(w) ==
  LET o == task[w].obj IN
  /\ task[w].pc = "upsert" /\ mu = Nil
  /\ routes' = [routes EXCEPT ![IdOf(o)] = o]
  /\ byHost' = [h \in TableHost |->
       IF byHost[h] # Nil /\ IdOf(byHost[h]) = IdOf(o) THEN Nil ELSE byHost[h]]
  /\ mu' = w
  /\ task' = [task EXCEPT ![w] = Storing(o)]
  /\ UNCHANGED object

\* Fault: without the lock.
UpsertLocked_free(w) ==
  LET o == task[w].obj IN
  /\ task[w].pc = "upsert"
  /\ routes' = [routes EXCEPT ![IdOf(o)] = o]
  /\ mu' = w
  /\ task' = [task EXCEPT ![w] = Storing(o)]
  /\ UNCHANGED <<object, byHost>>

\* Upsert takes the lock and swaps the route in.
UpsertLocked(w) ==
  LET o == task[w].obj IN
  /\ task[w].pc = "upsert" /\ mu = Nil
  /\ routes' = [routes EXCEPT ![IdOf(o)] = o]
  /\ mu' = w
  /\ task' = [task EXCEPT ![w] = Storing(o)]
  /\ UNCHANGED <<object, byHost>>

\* One key of the new version, and after the last those the old one loses.
StoreKey(w, k) ==
  LET o == task[w].obj
      rest == task[w].keys \ {k}
      next == IF rest # {} THEN [task[w] EXCEPT !.keys = rest] ELSE AfterStore(w) IN
  /\ task[w].pc = "store"
  /\ byHost' = [byHost EXCEPT ![k] = IF MayOwn(o, byHost[k]) THEN o ELSE @]
  /\ task' = [task EXCEPT ![w] = next]
  /\ Release(next)
  /\ UNCHANGED <<object, routes>>

\* One key of the old version or of a deleted route, if it still owns it.
ResolveKey(w, k) ==
  LET id == IdOf(task[w].old)
      rest == task[w].keys \ {k}
      next == IF rest # {} THEN [task[w] EXCEPT !.keys = rest] ELSE Idle IN
  /\ task[w].pc = "resolve"
  /\ byHost' = [byHost EXCEPT ![k] =
       IF byHost[k] # Nil /\ IdOf(byHost[k]) = id THEN ResolveLocked(k) ELSE @]
  /\ task' = [task EXCEPT ![w] = next]
  /\ Release(next)
  /\ UNCHANGED <<object, routes>>

\* Delete; DisableByIDOrHost calls it for each route that matches.
Delete(w, i) ==
  /\ task[w].pc = "idle" /\ mu = Nil
  /\ routes[i] # Nil
  /\ routes' = [routes EXCEPT ![i] = Nil]
  /\ mu' = w
  /\ task' = [task EXCEPT ![w] = [Idle EXCEPT !.pc = "resolve", !.old = routes[i],
                                              !.keys = HostKeys(routes[i])]]
  /\ UNCHANGED <<object, byHost>>

\* Replace builds new maps and publishes them at once.  Of the routes of one kind that
\* claim a host the last one written owns it, and the order is that of a map.
Replace(w) ==
  /\ task[w].pc = "replace" /\ mu = Nil
  /\ routes' = [i \in RouteId |->
       IF \E o \in task[w].list : IdOf(o) = i
       THEN CHOOSE o \in task[w].list : IdOf(o) = i ELSE Nil]
  /\ \E owner \in [TableHost -> task[w].list \cup {Nil}] :
       /\ \A h \in TableHost :
            LET cs == {o \in task[w].list : h \in HostKeys(o)}
                conf == {o \in cs : IdOf(o) \notin Discovered} IN
            /\ (owner[h] = Nil) <=> (cs = {})
            /\ cs # {} => owner[h] \in (IF conf # {} THEN conf ELSE cs)
       /\ byHost' = owner
  /\ task' = [task EXCEPT ![w] = Idle]
  /\ UNCHANGED <<object, mu>>

TableNext ==
  \E w \in Writer :
    \/ \E r \in Route : NewRoute(w, r)
    \/ \E i \in Discovered, hs \in SUBSET TableHost : Announce(w, i, hs)
    \/ \E r \in Route : r.id \notin Discovered /\ Push(w, r)
    \/ UpsertLocked(w)
    \/ \E k \in task[w].keys : StoreKey(w, k)
    \/ \E k \in task[w].keys : ResolveKey(w, k)
    \/ \E i \in RouteId : Delete(w, i)
    \/ Replace(w)

TableSpec == TableInit /\ [][TableNext]_tableVars

---------------------------------------------------------------------------
(* Properties *)

\* Every map holds objects that were built, under their own identifier, and only the
\* holder of the lock is between its first and its last access to the maps.
TableTypeOK ==
  /\ object \in [1..Cardinality(Built) -> Route] /\ Built \subseteq Object
  /\ routes \in [RouteId -> Built \cup {Nil}]
  /\ \A i \in RouteId : routes[i] # Nil => IdOf(routes[i]) = i
  /\ byHost \in [TableHost -> Built \cup {Nil}]
  /\ task \in [Writer -> Task]
  /\ mu \in Writer \cup {Nil}
  /\ \A w \in Writer : task[w].pc \in {"store", "resolve"} <=> mu = w

\* The identifier whose keys are being moved: its route is half in the table.
Moving(i) == \E w \in Writer : \/ task[w].pc \in {"upsert", "store"} /\ IdOf(task[w].obj) = i
                               \/ task[w].pc = "resolve" /\ IdOf(task[w].old) = i

\* Between two operations a host is served by the route that claims it: the entry of a
\* host is the present version of a route, that route has the host, a host that some
\* route has is served, and not by a discovered route when a configured one has it.
OwnersClaim ==
  \A h \in TableHost :
    /\ byHost[h] # Nil /\ ~Moving(IdOf(byHost[h])) =>
         routes[IdOf(byHost[h])] = byHost[h] /\ h \in HostKeys(byHost[h])
    /\ (\E i \in Claimants(h) : ~Moving(i)) => byHost[h] # Nil
    /\ (\E i \in Claimants(h) \ Discovered : ~Moving(i)) => IdOf(byHost[h]) \notin Discovered

\* What a task holds was built; one that stores writes the version in the table, and a list
\* has one version of each route.
TaskSound(t) ==
  /\ {t.obj, t.old} \subseteq Built \cup {Nil} /\ t.list \subseteq Built
  /\ t.pc \in {"upsert", "store"} => t.obj # Nil
  /\ t.pc = "store" =>
       /\ routes[IdOf(t.obj)] = t.obj /\ t.keys \subseteq t.kept
       /\ Relabel \/ t.kept \subseteq HostKeys(t.obj)
       /\ t.old # Nil => IdOf(t.old) = IdOf(t.obj)
  /\ t.pc = "resolve" => t.old # Nil
  /\ \A o, p \in t.list : IdOf(o) = IdOf(p) => o = p

\* The holder of the lock is still to store host h for route i, or to take it from i; a
\* writer waits with the version in the table, which it has changed in place.
ToStore(i, h) == \E w \in Writer :
  task[w].pc = "store" /\ IdOf(task[w].obj) = i /\ h \in task[w].keys
ToClear(i, h) == \E w \in Writer :
  \/ /\ task[w].pc = "store" /\ IdOf(task[w].obj) = i
     /\ task[w].old # Nil /\ h \in HostKeys(task[w].old) \ task[w].kept
  \/ task[w].pc = "resolve" /\ IdOf(task[w].old) = i /\ h \in task[w].keys
Announced(i) == \E w \in Writer : task[w].pc = "upsert" /\ task[w].obj = routes[i]

\* Each exception to the ownership of hosts has a writer that is about to mend it; an alias
\* withdrawn in place is left to its route.
TableInv ==
  /\ TableTypeOK
  /\ \A w \in Writer : TaskSound(task[w])
  /\ \A h \in TableHost :
       /\ byHost[h] # Nil /\ ~Relabel =>
            LET i == IdOf(byHost[h]) IN
            \/ routes[i] = byHost[h] /\ h \in HostKeys(byHost[h])
            \/ ToStore(i, h) \/ ToClear(i, h)
       /\ \A i \in Claimants(h) :
            \/ /\ byHost[h] # Nil
               /\ i \notin Discovered => IdOf(byHost[h]) \notin Discovered
            \/ ToStore(i, h) \/ Announced(i)

\* A reader never finds a host unserved that some route of the table keeps: no step takes
\* the last owner of a host away while a route of the table still claims it.
HostNeverDropped ==
  [][\A h \in TableHost :
       byHost[h] # Nil /\ byHost'[h] = Nil => Claimants(h)' = {}]_tableVars

=================================================================================
