---------------------------- MODULE Components_proofs ----------------------------
(***************************************************************************)
(* Proofs about parts that run beside each other: the routing table of a    *)
(* gateway, the executor of a group, the deployment engine, the links of    *)
(* Agents and the revisions of proxies, each for any size; and the types of *)
(* the five together.                                                       *)
(***************************************************************************)
EXTENDS MCComponents, TLAPS, WellFoundedInduction, FiniteSetTheorems

---------------------------------------------------------------------------
(* Numbers *)

\* A non-empty set of natural numbers has a least element.
LEMMA LeastNat ==
  ASSUME NEW T \in SUBSET Nat, T # {}
  PROVE  \E m \in T : \A k \in T : m <= k
<1> DEFINE R == OpToRel(<, Nat)
<1>1. PICK m \in T : \A k \in T : ~(<<k, m>> \in R)
  <2> HIDE DEF R
  <2>1. IsWellFoundedOn(R, Nat)
    BY NatLessThanWellFounded DEF R
  <2>2. T \subseteq Nat /\ T # {}
    OBVIOUS
  <2> QED BY <2>1, <2>2, WFMin, Zenon
<1>2. \A k \in T : k < m => <<k, m>> \in R
  BY DEF OpToRel
<1>3. \A k \in T : k \in Nat /\ m \in Nat /\ ~(k < m)
  BY <1>1, <1>2
<1> QED BY <1>3

---------------------------------------------------------------------------
(* The routing table *)

\* TableInv in six parts.
ObjectsOK == object \in [1..Cardinality(Built) -> Route] /\ Built \subseteq Object
MapsOK ==
  /\ routes \in [RouteId -> Built \cup {Nil}]
  /\ \A i \in RouteId : routes[i] # Nil => IdOf(routes[i]) = i
  /\ byHost \in [TableHost -> Built \cup {Nil}]
WritersOK ==
  /\ task \in [Writer -> Task]
  /\ mu \in Writer \cup {Nil}
  /\ \A w \in Writer : task[w].pc \in {"store", "resolve"} <=> mu = w
TasksSound == \A w \in Writer : TaskSound(task[w])
Owned == ~Relabel => \A h \in TableHost, i \in RouteId : byHost[h] # Nil /\ IdOf(byHost[h]) = i =>
  \/ routes[i] = byHost[h] /\ h \in HostKeys(byHost[h])
  \/ ToStore(i, h) \/ ToClear(i, h)
Kindred(i, h) == byHost[h] # Nil /\ (i \notin Discovered => IdOf(byHost[h]) \notin Discovered)
Served == \A h \in TableHost : \A i \in Claimants(h) :
  Kindred(i, h) \/ ToStore(i, h) \/ Announced(i)

TableParts == ObjectsOK /\ MapsOK /\ WritersOK /\ TasksSound /\ Owned /\ Served

LEMMA TaskFields ==
  /\ \A t \in Task : /\ t.pc \in {"idle", "upsert", "store", "resolve", "replace"}
                     /\ t.obj \in Object \cup {Nil} /\ t.old \in Object \cup {Nil}
                     /\ t.keys \subseteq TableHost /\ t.kept \subseteq TableHost
                     /\ t.list \subseteq Object
  /\ Idle \in Task /\ Idle.pc = "idle" /\ Idle.obj = Nil /\ Idle.old = Nil /\ Idle.list = {}
BY DEF Task, Idle

LEMMA BuiltObjects ==
  ASSUME ObjectsOK
  PROVE  /\ Cardinality(Built) \in Nat /\ Built = 1..Cardinality(Built)
         /\ \A o \in Built : o \in Object /\ o # Nil /\ object[o] \in Route
         /\ \A o \in Built : IdOf(o) \in RouteId /\ HostKeys(o) \subseteq TableHost
<1>1. Built = 1..Cardinality(Built)
  BY DEF ObjectsOK, Built
<1>2. IsFiniteSet(Built)
  <2>1. IsFiniteSet(Object)
    BY ObjectAssumption, FS_Interval DEF Object
  <2> QED BY <2>1, FS_Subset DEF ObjectsOK
<1>3. Cardinality(Built) \in Nat
  BY <1>2, FS_CardinalityType
<1>4. \A o \in Built : object[o] \in Route
  BY <1>1 DEF ObjectsOK
<1>5. \A o \in Built : o \in Object /\ o # Nil
  BY ObjectAssumption DEF ObjectsOK, Object, Nil
<1> QED BY <1>1, <1>3, <1>4, <1>5 DEF IdOf, HostKeys, Route

LEMMA TableInvParts == TableParts <=> TableInv
<1>1. TableTypeOK <=> ObjectsOK /\ MapsOK /\ WritersOK
  BY DEF TableTypeOK, ObjectsOK, MapsOK, WritersOK
<1>2. ASSUME ObjectsOK, MapsOK, NEW h \in TableHost, byHost[h] # Nil
      PROVE  IdOf(byHost[h]) \in RouteId
  BY <1>2, BuiltObjects DEF MapsOK
<1> QED BY <1>1, <1>2 DEF TableInv, TableParts, TasksSound, Owned, Served, Kindred

\* A new object leaves the others as they are.
LEMMA BuildStep ==
  ASSUME ObjectsOK, NEW r \in Route, Cardinality(Built) < MaxObject, Build(r)
  PROVE  /\ ObjectsOK' /\ Built' = Built \cup {Cardinality(Built) + 1}
         /\ Cardinality(Built) + 1 \in Object \ {Nil}
         /\ \A o \in Built : object'[o] = object[o]
         /\ object'[Cardinality(Built) + 1] = r
<1> DEFINE n == Cardinality(Built)
<1>1. n \in Nat /\ Built = 1..n /\ \A o \in Built : object[o] \in Route
  BY BuiltObjects
<1>2. Built' = Built \cup {n + 1}
  BY DEF Build, Built
<1>3. Built' = 1..(n + 1)
  BY <1>1, <1>2
<1>4. Cardinality(1..(n + 1)) = n + 1
  BY <1>1, FS_Interval
<1>5. n + 1 \in Object \ {Nil}
  BY <1>1, ObjectAssumption DEF Object, Nil
<1>6. /\ \A o \in Built : object'[o] = object[o]
      /\ object'[n + 1] = r
  BY <1>1 DEF Build
<1>7. object' \in [1..(n + 1) -> Route]
  BY <1>1, <1>2, <1>3, <1>6 DEF Build
<1>8. ObjectsOK'
  BY <1>2, <1>3, <1>4, <1>5, <1>7 DEF ObjectsOK
<1> QED BY <1>2, <1>5, <1>6, <1>8

\* Objects keep their identifier, and their hosts unless an Agent may withdraw them.
Grown ==
  /\ Built \subseteq Built'
  /\ \A o \in Built : /\ object'[o].id = object[o].id
                      /\ Relabel \/ object[o].hosts \subseteq object'[o].hosts

LEMMA TaskKept ==
  ASSUME Grown, MapsOK, NEW w \in Writer, TaskSound(task[w]), task'[w] = task[w],
         task[w].pc = "store" => UNCHANGED routes
  PROVE  TaskSound(task[w])'
<1> DEFINE t == task[w]
<1>1. /\ {t.obj, t.old} \subseteq Built \cup {Nil} /\ t.list \subseteq Built
      /\ t.pc \in {"upsert", "store"} => t.obj # Nil
      /\ t.pc = "resolve" => t.old # Nil
  BY DEF TaskSound
<1>2. \A o, p \in t.list : IdOf(o)' = IdOf(p)' => o = p
  BY <1>1 DEF TaskSound, Grown, IdOf
<1>3. t.pc = "store" =>
        /\ routes'[object'[t.obj].id] = t.obj /\ t.keys \subseteq t.kept
        /\ Relabel \/ t.kept \subseteq object'[t.obj].hosts
        /\ t.old # Nil => object'[t.old].id = object'[t.obj].id
  BY <1>1 DEF TaskSound, Grown, IdOf, HostKeys
<1>4. {t.obj, t.old} \subseteq Built' \cup {Nil} /\ t.list \subseteq Built'
  BY <1>1 DEF Grown
<1> QED BY <1>1, <1>2, <1>3, <1>4 DEF TaskSound, IdOf, HostKeys

\* What other writers are about to do they are still about to do.
LEMMA DueStays ==
  ASSUME Grown, TasksSound, UNCHANGED routes, NEW w \in Writer,
         task[w].pc \in {"idle", "replace"}, \A v \in Writer \ {w} : task'[v] = task[v]
  PROVE  \A i, h : /\ ToStore(i, h) => ToStore(i, h)'
                   /\ ~Relabel /\ ToClear(i, h) => ToClear(i, h)'
                   /\ Announced(i) => Announced(i)'
<1> SUFFICES ASSUME NEW i, NEW h
             PROVE  /\ ToStore(i, h) => ToStore(i, h)'
                    /\ ~Relabel /\ ToClear(i, h) => ToClear(i, h)'
                    /\ Announced(i) => Announced(i)'
  OBVIOUS
<1>0. \A v \in Writer : task[v].pc \in {"store", "resolve", "upsert"} => v # w /\ task'[v] = task[v]
  OBVIOUS
<1>1. \A v \in Writer : /\ {task[v].obj, task[v].old} \subseteq Built \cup {Nil}
                        /\ task[v].pc = "store" => task[v].obj \in Built
                        /\ task[v].pc = "resolve" => task[v].old \in Built
  BY DEF TasksSound, TaskSound
<1>2. ToStore(i, h) => ToStore(i, h)'
  BY <1>0, <1>1 DEF ToStore, IdOf, Grown
<1>3. ~Relabel /\ ToClear(i, h) => ToClear(i, h)'
  <2>1. ASSUME ~Relabel, NEW v \in Writer, task[v].pc = "store", IdOf(task[v].obj) = i,
               task[v].old # Nil, h \in HostKeys(task[v].old) \ task[v].kept
        PROVE  ToClear(i, h)'
    BY <1>0, <1>1, <2>1 DEF ToClear, IdOf, HostKeys, Grown
  <2>2. ASSUME NEW v \in Writer, task[v].pc = "resolve", IdOf(task[v].old) = i, h \in task[v].keys
        PROVE  ToClear(i, h)'
    BY <1>0, <1>1, <2>2 DEF ToClear, IdOf, Grown
  <2> QED BY <2>1, <2>2 DEF ToClear
<1>4. Announced(i) => Announced(i)'
  BY <1>0 DEF Announced
<1> QED BY <1>2, <1>3, <1>4

\* Of a writer that held no lock, in an idle table.
LEMMA NothingDue ==
  ASSUME WritersOK, mu = Nil
  PROVE  /\ \A v \in Writer : task[v].pc \notin {"store", "resolve"}
         /\ \A i, h : ~ToStore(i, h) /\ ~ToClear(i, h)
<1>1. \A v \in Writer : task[v].pc \notin {"store", "resolve"}
  BY ObjectAssumption DEF WritersOK
<1> QED BY <1>1 DEF ToStore, ToClear


\* A writer that takes up a route or a list, and changes at most objects.
LEMMA TakesUp ==
  ASSUME TableParts, Grown, ObjectsOK', NEW w \in Writer, NEW t \in Task,
         task[w].pc = "idle", task' = [task EXCEPT ![w] = t], t.pc \in {"upsert", "replace"},
         UNCHANGED <<routes, byHost, mu>>, TaskSound(task[w])',
         \A h \in TableHost, i \in RouteId : i \in Claimants(h)' => i \in Claimants(h) \/ Announced(i)'
  PROVE  TableParts'
<1>1. /\ task'[w] = t
      /\ \A v \in Writer \ {w} : task'[v] = task[v]
  BY DEF TableParts, WritersOK
<1>2. \A o \in Built : /\ o \in Built' /\ object'[o].id = object[o].id
                       /\ Relabel \/ object[o].hosts \subseteq object'[o].hosts
  BY DEF Grown
<1>3. MapsOK'
  BY <1>2 DEF TableParts, MapsOK, IdOf
<1>4. WritersOK'
  <2>1. task' \in [Writer -> Task]
    BY DEF TableParts, WritersOK
  <2>2. \A v \in Writer : task'[v].pc \in {"store", "resolve"} <=> mu' = v
    BY <1>1 DEF TableParts, WritersOK
  <2> QED BY <2>1, <2>2 DEF TableParts, WritersOK
<1>5. TasksSound'
  BY <1>1, TaskKept DEF TableParts, TasksSound
<1>6. \A i, h : /\ ToStore(i, h) => ToStore(i, h)'
                /\ ~Relabel /\ ToClear(i, h) => ToClear(i, h)'
                /\ Announced(i) => Announced(i)'
  BY <1>1, DueStays DEF TableParts
<1>7. Owned'
  <2> SUFFICES ASSUME ~Relabel, NEW h \in TableHost, NEW i \in RouteId, byHost'[h] # Nil, IdOf(byHost[h])' = i
               PROVE  \/ routes'[i] = byHost'[h] /\ h \in HostKeys(byHost[h])'
                      \/ ToStore(i, h)' \/ ToClear(i, h)'
    BY DEF Owned
  <2>1. byHost[h] \in Built /\ byHost[h] # Nil
    BY DEF TableParts, MapsOK
  <2>2. IdOf(byHost[h])' = IdOf(byHost[h]) /\ HostKeys(byHost[h]) \subseteq HostKeys(byHost[h])'
    BY <1>2, <2>1 DEF IdOf, HostKeys
  <2>3. \/ routes[i] = byHost[h] /\ h \in HostKeys(byHost[h])
        \/ ToStore(i, h) \/ ToClear(i, h)
    BY <2>1, <2>2 DEF TableParts, Owned
  <2> QED BY <1>6, <2>2, <2>3
<1>8. Served'
  <2> SUFFICES ASSUME NEW h \in TableHost, NEW i \in Claimants(h)'
               PROVE  Kindred(i, h)' \/ ToStore(i, h)' \/ Announced(i)'
    BY DEF Served
  <2>1. i \in RouteId
    BY DEF Claimants
  <2>2. CASE i \in Claimants(h)
    <3>1. Kindred(i, h) \/ ToStore(i, h) \/ Announced(i)
      BY <2>2 DEF TableParts, Served
    <3>2. Kindred(i, h) => Kindred(i, h)'
      BY <1>2 DEF Kindred, IdOf, TableParts, MapsOK
    <3> QED BY <1>6, <3>1, <3>2
  <2> QED BY <2>1, <2>2
<1> QED BY <1>3, <1>4, <1>5, <1>7, <1>8 DEF TableParts

LEMMA NewRouteStep ==
  ASSUME TableParts, NEW w \in Writer, NEW r \in Route, NewRoute(w, r)
  PROVE  TableParts'
<1> DEFINE n == Cardinality(Built) + 1
           t == [Idle EXCEPT !.pc = "upsert", !.obj = n]
<1>1. /\ task[w].pc = "idle" /\ Cardinality(Built) < MaxObject /\ Build(r)
      /\ task' = [task EXCEPT ![w] = t] /\ UNCHANGED <<routes, byHost, mu>>
  BY DEF NewRoute
<1>2. /\ ObjectsOK' /\ Built' = Built \cup {n} /\ n \in Object \ {Nil}
      /\ \A o \in Built : object'[o] = object[o]
  BY <1>1, BuildStep DEF TableParts
<1>3. /\ t \in Task /\ t.pc = "upsert" /\ t.obj = n /\ t.old = Nil /\ t.list = {}
      /\ task'[w] = t
  BY <1>1, <1>2 DEF Idle, Task, TableParts, WritersOK
<1> HIDE DEF n, t
<1>4. Grown
  BY <1>2 DEF Grown
<1>5. TaskSound(task[w])'
  BY <1>2, <1>3 DEF TaskSound
<1>6. \A h \in TableHost : Claimants(h)' = Claimants(h)
  BY <1>1, <1>2 DEF Claimants, HostKeys, TableParts, MapsOK
<1> QED BY <1>1, <1>2, <1>3, <1>4, <1>5, <1>6, TakesUp

LEMMA PushStep ==
  ASSUME TableParts, NEW w \in Writer, NEW r \in Route, r.id \notin Discovered, Push(w, r)
  PROVE  TableParts'
<1> DEFINE n == Cardinality(Built) + 1
           here == {routes[i] : i \in {j \in Discovered : routes[j] # Nil}}
           t == [Idle EXCEPT !.pc = "replace", !.list = {n} \cup here]
<1>1. /\ task[w].pc = "idle" /\ Cardinality(Built) < MaxObject /\ Build(r)
      /\ task' = [task EXCEPT ![w] = t] /\ UNCHANGED <<routes, byHost, mu>>
  BY DEF Push
<1>2. /\ ObjectsOK' /\ Built' = Built \cup {n} /\ n \in Object \ {Nil}
      /\ object'[n] = r
      /\ \A o \in Built : object'[o] = object[o]
  BY <1>1, BuildStep DEF TableParts
<1>3. \A o \in here : /\ o \in Built /\ o \in Object
                      /\ IdOf(o) \in Discovered /\ routes[IdOf(o)] = o
  BY RouteAssumption DEF TableParts, MapsOK, ObjectsOK
<1>4. /\ t \in Task /\ t.pc = "replace" /\ t.obj = Nil /\ t.old = Nil /\ t.list = {n} \cup here
      /\ task'[w] = t
  <2> HIDE DEF n, here
  <2> QED BY <1>1, <1>2, <1>3 DEF Idle, Task, TableParts, WritersOK
<1> HIDE DEF n, t, here
<1>5. Grown
  BY <1>2 DEF Grown
<1>6. TaskSound(task[w])'
  <2>1. \A o \in here : IdOf(o)' \in Discovered /\ routes[IdOf(o)'] = o
    BY <1>2, <1>3 DEF IdOf
  <2>2. \A o \in {n} : IdOf(o)' \notin Discovered
    BY <1>2 DEF IdOf
  <2>3. \A o, p \in t.list : IdOf(o)' = IdOf(p)' => o = p
    <3> HIDE DEF IdOf
    <3> QED BY <1>4, <2>1, <2>2
  <2>4. t.list \subseteq Built'
    BY <1>2, <1>3, <1>4
  <2> QED BY <1>4, <2>3, <2>4 DEF TaskSound
<1>7. \A h \in TableHost : Claimants(h)' = Claimants(h)
  BY <1>1, <1>2 DEF Claimants, HostKeys, TableParts, MapsOK
<1> QED BY <1>1, <1>2, <1>4, <1>5, <1>6, <1>7, TakesUp

LEMMA AnnounceStep ==
  ASSUME TableParts, NEW w \in Writer, NEW i \in Discovered, NEW hs \in SUBSET TableHost,
         Announce(w, i, hs)
  PROVE  TableParts'
<1> DEFINE o == routes[i]
           t == [Idle EXCEPT !.pc = "upsert", !.obj = o]
           r == [object[o] EXCEPT !.hosts = hs]
<1>1. /\ task[w].pc = "idle" /\ o # Nil /\ (Relabel \/ HostKeys(o) \subseteq hs) /\ object[o].host \in hs
      /\ object' = [object EXCEPT ![o] = r]
      /\ task' = [task EXCEPT ![w] = t] /\ UNCHANGED <<routes, byHost, mu>>
  BY DEF Announce
<1>2. i \in RouteId /\ o \in Built /\ o \in Object /\ IdOf(o) = i /\ object[o] \in Route
  BY <1>1, RouteAssumption, BuiltObjects DEF TableParts, MapsOK
<1>3. r \in Route /\ r.id = object[o].id /\ r.hosts = hs
  BY <1>1, <1>2 DEF Route
<1>4. /\ t \in Task /\ t.pc = "upsert" /\ t.obj = o /\ t.old = Nil /\ t.list = {} /\ task'[w] = t
  <2> HIDE DEF o
  <2> QED BY <1>1, <1>2 DEF Idle, Task, TableParts, WritersOK
<1> HIDE DEF t, r
<1>5. Built' = Built
  BY <1>1 DEF Built
<1>6. ObjectsOK' /\ Grown
  <2>1. \A p \in Built : object'[p] = IF p = o THEN r ELSE object[p]
    BY <1>1 DEF Built
  <2>2. object' \in [1..Cardinality(Built) -> Route]
    BY <1>1, <1>3 DEF TableParts, ObjectsOK
  <2>3. Grown
    <3> HIDE DEF o
    <3> QED BY <1>1, <1>3, <1>5, <2>1 DEF Grown, HostKeys
  <2> QED BY <1>5, <2>2, <2>3 DEF TableParts, ObjectsOK
<1>7. TaskSound(task[w])'
  BY <1>1, <1>2, <1>4, <1>5 DEF TaskSound
<1>8. ASSUME NEW h \in TableHost, NEW j \in RouteId, j \in Claimants(h)'
      PROVE  j \in Claimants(h) \/ Announced(j)'
  <2>1. routes[j] \in Built /\ routes[j] # Nil /\ IdOf(routes[j]) = j /\ h \in object'[routes[j]].hosts
    BY <1>1, <1>8 DEF Claimants, HostKeys, TableParts, MapsOK
  <2>2. CASE routes[j] = o
    BY <1>1, <1>4, <2>2 DEF Announced
  <2>3. CASE routes[j] # o
    <3>1. object'[routes[j]] = object[routes[j]]
      BY <1>1, <2>1, <2>3 DEF Built
    <3> QED BY <2>1, <3>1 DEF Claimants, HostKeys
  <2> QED BY <2>2, <2>3
<1> QED BY <1>1, <1>4, <1>6, <1>7, <1>8, TakesUp


\* Upsert swaps the route in: its hosts are to store, and those of the version before to take.
LEMMA UpsertStep ==
  ASSUME TableParts, NEW w \in Writer, UpsertLocked(w)
  PROVE  TableParts'
<1> PICK o : o = task[w].obj
  OBVIOUS
<1> PICK i : i = IdOf(o)
  OBVIOUS
<1> PICK old : old = routes[i]
  OBVIOUS
<1> PICK t : t = Storing(o)
  OBVIOUS
<1>1. /\ task[w].pc = "upsert" /\ mu = Nil /\ mu' = w /\ UNCHANGED <<object, byHost>>
      /\ routes' = [routes EXCEPT ![i] = o] /\ task' = [task EXCEPT ![w] = t]
  BY DEF UpsertLocked
<1>2. o \in Built /\ o \in Object /\ i \in RouteId /\ HostKeys(o) \subseteq TableHost
  BY <1>1, BuiltObjects DEF TableParts, TasksSound, TaskSound
<1>3. old \in Built \cup {Nil} /\ (old # Nil => IdOf(old) = i)
  BY <1>2 DEF TableParts, MapsOK
<1>4. /\ t \in Task /\ t.pc = "store" /\ t.obj = o /\ t.old = old /\ t.list = {}
      /\ t.keys = HostKeys(o) /\ t.kept = HostKeys(o)
  BY <1>2, <1>3, BuiltObjects DEF Storing, Idle, Task, TableParts
<1>5. /\ task'[w] = t
      /\ \A v \in Writer \ {w} : task'[v] = task[v]
  BY <1>1 DEF TableParts, WritersOK
<1>6. /\ \A v \in Writer : task[v].pc \notin {"store", "resolve"}
      /\ \A j, h : ~ToStore(j, h) /\ ~ToClear(j, h)
  BY <1>1, NothingDue DEF TableParts
<1>7. Built' = Built /\ Grown
  BY <1>1 DEF Built, Grown
<1>8. routes'[i] = o /\ \A j \in RouteId \ {i} : routes'[j] = routes[j]
  BY <1>1, <1>2 DEF TableParts, MapsOK
<1>9. ObjectsOK'
  BY <1>1, <1>7 DEF TableParts, ObjectsOK
<1>10. MapsOK'
  <2>1. routes' \in [RouteId -> Built \cup {Nil}]
    BY <1>1, <1>2 DEF TableParts, MapsOK
  <2>2. \A j \in RouteId : routes'[j] # Nil => IdOf(routes'[j]) = j
    BY <1>8 DEF TableParts, MapsOK
  <2>3. \A j \in RouteId : routes'[j] # Nil => IdOf(routes[j])' = j
    BY <1>1, <2>2 DEF IdOf
  <2> QED BY <1>1, <1>7, <2>1, <2>3 DEF TableParts, MapsOK
<1>11. WritersOK'
  <2>1. task' \in [Writer -> Task]
    BY <1>1, <1>4 DEF TableParts, WritersOK
  <2>2. \A v \in Writer : task'[v].pc \in {"store", "resolve"} <=> mu' = v
    BY <1>1, <1>4, <1>5, <1>6
  <2> QED BY <1>1, <2>1, <2>2 DEF WritersOK
<1>12. TasksSound'
  <2> SUFFICES ASSUME NEW v \in Writer PROVE TaskSound(task[v])'
    BY DEF TasksSound
  <2>1. CASE v = w
    <3>1. /\ {t.obj, t.old} \subseteq Built \cup {Nil} /\ t.obj # Nil
          /\ routes'[object[o].id] = o /\ (t.old # Nil => object[t.old].id = object[o].id)
      BY <1>2, <1>3, <1>4, <1>8, BuiltObjects DEF IdOf, TableParts
    <3> QED BY <1>1, <1>4, <1>5, <1>7, <2>1, <3>1 DEF TaskSound, IdOf, HostKeys
  <2>2. CASE v # w
    BY <1>5, <1>6, <1>7, <2>2, TaskKept DEF TableParts, TasksSound
  <2> QED BY <2>1, <2>2
<1>13. Owned'
  <2> SUFFICES ASSUME ~Relabel, NEW h \in TableHost, NEW j \in RouteId, byHost'[h] # Nil, IdOf(byHost[h])' = j
               PROVE  \/ routes'[j] = byHost'[h] /\ h \in HostKeys(byHost[h])'
                      \/ ToStore(j, h)' \/ ToClear(j, h)'
    BY DEF Owned
  <2>1. byHost[h] # Nil /\ IdOf(byHost[h]) = j /\ HostKeys(byHost[h])' = HostKeys(byHost[h])
    BY <1>1 DEF IdOf, HostKeys
  <2>2. routes[j] = byHost[h] /\ h \in HostKeys(byHost[h])
    BY <1>6, <2>1 DEF TableParts, Owned
  <2>3. CASE j = i /\ h \in HostKeys(o)
    BY <1>1, <1>4, <1>5, <2>3 DEF ToStore, IdOf
  <2>4. CASE j = i /\ h \notin HostKeys(o)
    <3>1. old = byHost[h] /\ h \in HostKeys(old) \ t.kept /\ old # Nil
      BY <1>4, <2>1, <2>2, <2>4
    <3>2. task'[w].pc = "store" /\ object'[task'[w].obj].id = j /\ task'[w].old = old
          /\ h \in object'[old].hosts \ task'[w].kept
      BY <1>1, <1>4, <1>5, <2>4, <3>1 DEF IdOf, HostKeys
    <3> QED BY <3>1, <3>2 DEF ToClear, IdOf, HostKeys
  <2>5. CASE j # i
    BY <1>1, <1>8, <2>1, <2>2, <2>5
  <2> QED BY <2>3, <2>4, <2>5
<1>14. Served'
  <2> SUFFICES ASSUME NEW h \in TableHost, NEW j \in Claimants(h)'
               PROVE  Kindred(j, h)' \/ ToStore(j, h)' \/ Announced(j)'
    BY DEF Served
  <2>1. j \in RouteId /\ routes'[j] # Nil /\ h \in object[routes'[j]].hosts
    BY <1>1 DEF Claimants, HostKeys
  <2>2. CASE j = i
    <3>1. h \in HostKeys(o)
      BY <1>8, <2>1, <2>2 DEF HostKeys
    <3> QED BY <1>1, <1>4, <1>5, <2>2, <3>1 DEF ToStore, IdOf
  <2>3. CASE j # i
    <3>1. routes'[j] = routes[j] /\ j \in Claimants(h)
      BY <1>8, <2>1, <2>3 DEF Claimants, HostKeys
    <3>2. Kindred(j, h) \/ Announced(j)
      BY <1>6, <3>1 DEF TableParts, Served
    <3>3. CASE Kindred(j, h)
      BY <1>1, <3>3 DEF Kindred, IdOf
    <3>4. CASE Announced(j)
      <4>1. PICK v \in Writer : task[v].pc = "upsert" /\ task[v].obj = routes[j]
        BY <3>4 DEF Announced
      <4>2. v # w
        <5>1. IdOf(routes[j]) = j
          BY <2>1, <3>1 DEF TableParts, MapsOK
        <5> QED BY <2>3, <4>1, <5>1
      <4> QED BY <1>5, <3>1, <4>1, <4>2 DEF Announced
    <3> QED BY <3>2, <3>3, <3>4
  <2> QED BY <2>2, <2>3
<1> QED BY <1>9, <1>10, <1>11, <1>12, <1>13, <1>14 DEF TableParts


\* The step of a writer that takes, has or gives back the lock and changes no object.
LEMMA HolderStep ==
  ASSUME TableParts, NEW w \in Writer, NEW t \in Task, UNCHANGED object,
         mu \in {w, Nil}, mu' = (IF t = Idle THEN Nil ELSE w), task' = [task EXCEPT ![w] = t],
         t = Idle \/ t.pc \in {"store", "resolve"}, TaskSound(task[w])'
  PROVE  /\ ObjectsOK' /\ WritersOK' /\ TasksSound' /\ Built' = Built
         /\ task'[w] = t
         /\ \A v \in Writer \ {w} : task'[v] = task[v] /\ task[v].pc \notin {"store", "resolve"}
<1>1. Built' = Built /\ Grown
  BY DEF Built, Grown
<1>2. ObjectsOK'
  BY <1>1 DEF TableParts, ObjectsOK
<1>3. /\ task'[w] = t
      /\ \A v \in Writer \ {w} : task'[v] = task[v]
  BY DEF TableParts, WritersOK
<1>4. \A v \in Writer \ {w} : task[v].pc \notin {"store", "resolve"}
  BY ObjectAssumption DEF TableParts, WritersOK
<1>5. WritersOK'
  <2>1. task' \in [Writer -> Task]
    BY DEF TableParts, WritersOK
  <2>2. t.pc \in {"store", "resolve"} <=> mu' = w
    BY TaskFields, ObjectAssumption
  <2>3. \A v \in Writer : task'[v].pc \in {"store", "resolve"} <=> mu' = v
    BY <1>3, <1>4, <2>2, ObjectAssumption
  <2> QED BY <2>1, <2>3 DEF WritersOK
<1>6. TasksSound'
  <2> SUFFICES ASSUME NEW v \in Writer, v # w PROVE TaskSound(task[v])'
    BY DEF TasksSound
  <2> QED BY <1>1, <1>3, <1>4, TaskKept DEF TableParts, TasksSound
<1> QED BY <1>1, <1>2, <1>3, <1>4, <1>5, <1>6

\* What follows the last host stored, or a host that is not the last.
LEMMA StoreNext ==
  ASSUME TableParts, NEW w \in Writer, NEW k \in task[w].keys, StoreKey(w, k)
  PROVE  \E t \in Task :
           /\ task' = [task EXCEPT ![w] = t]
           /\ mu' = (IF t = Idle THEN Nil ELSE w)
           /\ \/ /\ t.pc = "store" /\ t.obj = task[w].obj /\ t.old = task[w].old
                 /\ t.kept = task[w].kept /\ t.keys = task[w].keys \ {k} /\ t.list = task[w].list
              \/ /\ task[w].keys \ {k} = {} /\ t = Idle
                 /\ task[w].old # Nil => HostKeys(task[w].old) \ task[w].kept = {}
              \/ /\ task[w].keys \ {k} = {} /\ t.pc = "resolve" /\ t.obj = Nil
                 /\ t.old = task[w].old /\ t.old # Nil /\ t.list = {}
                 /\ t.keys = HostKeys(task[w].old) \ task[w].kept
<1> PICK s : s = task[w]
  OBVIOUS
<1>1. s \in Task /\ s.pc = "store" /\ mu = w
  BY DEF StoreKey, TableParts, WritersOK
<1> DEFINE rest == s.keys \ {k}
           gone == IF s.old = Nil THEN {} ELSE HostKeys(s.old) \ s.kept
<1>2. CASE rest # {}
  <2> DEFINE t == [s EXCEPT !.keys = rest]
  <2>1. t \in Task /\ t.pc = "store" /\ t.obj = s.obj /\ t.old = s.old /\ t.kept = s.kept
        /\ t.keys = rest /\ t.list = s.list
    BY <1>1 DEF Task
  <2>2. task' = [task EXCEPT ![w] = t] /\ Release(t)
    BY <1>2 DEF StoreKey
  <2>3. t # Idle
    BY <2>1, TaskFields
  <2> HIDE DEF t
  <2> QED BY <1>1, <2>1, <2>2, <2>3 DEF Release
<1>3. CASE rest = {} /\ gone = {}
  <2>1. task' = [task EXCEPT ![w] = Idle] /\ Release(Idle)
    BY <1>3 DEF StoreKey, AfterStore
  <2> QED BY <1>1, <1>3, <2>1, TaskFields DEF Release
<1>4. CASE rest = {} /\ gone # {}
  <2> DEFINE t == [Idle EXCEPT !.pc = "resolve", !.old = s.old, !.keys = gone]
  <2>1. s.old # Nil /\ s.old \in Built
    BY <1>4 DEF TableParts, TasksSound, TaskSound
  <2>2. gone \subseteq TableHost
    BY <2>1, BuiltObjects DEF TableParts
  <2>3. t \in Task /\ t.pc = "resolve" /\ t.obj = Nil /\ t.old = s.old /\ t.list = {} /\ t.keys = gone
    <3> HIDE DEF gone
    <3> QED BY <1>1, <2>2, TaskFields DEF Task, Idle
  <2>4. task' = [task EXCEPT ![w] = t] /\ Release(t)
    BY <1>4 DEF StoreKey, AfterStore
  <2>5. t # Idle
    BY <2>3, TaskFields
  <2> HIDE DEF t
  <2> QED BY <1>1, <1>4, <2>1, <2>3, <2>4, <2>5 DEF Release
<1> QED BY <1>2, <1>3, <1>4

\* A host is stored for the new version unless a configured route has it from a discovered
\* one, so whoever lost it has an owner still.
LEMMA StoreKeyStep ==
  ASSUME TableParts, NEW w \in Writer, NEW k \in task[w].keys, StoreKey(w, k)
  PROVE  TableParts'
<1> PICK s : s = task[w]
  OBVIOUS
<1> PICK o : o = s.obj
  OBVIOUS
<1> PICK i : i = IdOf(o)
  OBVIOUS
<1>1. /\ s.pc = "store" /\ mu = w /\ UNCHANGED <<object, routes>>
      /\ byHost' = [byHost EXCEPT ![k] = IF MayOwn(o, byHost[k]) THEN o ELSE byHost[k]]
  BY DEF StoreKey, TableParts, WritersOK
<1>2. /\ s \in Task /\ k \in TableHost /\ k \in s.kept
      /\ o \in Built /\ o # Nil /\ i \in RouteId /\ routes[i] = o
      /\ (Relabel \/ s.kept \subseteq HostKeys(o)) /\ s.old \in Built \cup {Nil} /\ (s.old # Nil => IdOf(s.old) = i)
      /\ s.keys \subseteq s.kept /\ s.list \subseteq Built
      /\ \A p, q \in s.list : IdOf(p) = IdOf(q) => p = q
  BY <1>1, TaskFields, BuiltObjects DEF TableParts, WritersOK, TasksSound, TaskSound
<1>3. PICK t \in Task :
        /\ task' = [task EXCEPT ![w] = t]
        /\ mu' = (IF t = Idle THEN Nil ELSE w)
        /\ \/ /\ t.pc = "store" /\ t.obj = o /\ t.old = s.old
              /\ t.kept = s.kept /\ t.keys = s.keys \ {k} /\ t.list = s.list
           \/ /\ s.keys \ {k} = {} /\ t = Idle
              /\ s.old # Nil => HostKeys(s.old) \ s.kept = {}
           \/ /\ s.keys \ {k} = {} /\ t.pc = "resolve" /\ t.obj = Nil
              /\ t.old = s.old /\ t.old # Nil /\ t.list = {}
              /\ t.keys = HostKeys(s.old) \ s.kept
  BY StoreNext
<1>4. task'[w] = t /\ Built' = Built
  BY <1>1, <1>3 DEF TableParts, WritersOK, Built
<1>5. TaskSound(task[w])'
  BY <1>1, <1>2, <1>3, <1>4, TaskFields DEF TaskSound, IdOf, HostKeys
<1>6. /\ ObjectsOK' /\ WritersOK' /\ TasksSound'
      /\ \A v \in Writer \ {w} : task'[v] = task[v] /\ task[v].pc \notin {"store", "resolve"}
  BY <1>1, <1>3, <1>5, TaskFields, HolderStep
<1>7. /\ byHost'[k] = IF MayOwn(o, byHost[k]) THEN o ELSE byHost[k]
      /\ \A h \in TableHost \ {k} : byHost'[h] = byHost[h]
      /\ byHost' \in [TableHost -> Built \cup {Nil}]
  BY <1>1, <1>2 DEF TableParts, MapsOK
<1>8. MapsOK'
  BY <1>1, <1>4, <1>7 DEF TableParts, MapsOK, IdOf
<1>9. \A j, h : /\ ToStore(j, h) => j = i /\ h \in s.keys
                /\ ToClear(j, h) => j = i /\ s.old # Nil /\ h \in HostKeys(s.old) \ s.kept
  BY <1>1, <1>6 DEF ToStore, ToClear
<1>10. \A h \in s.keys \ {k} : ToStore(i, h)'
  BY <1>1, <1>3, <1>4 DEF ToStore, IdOf
<1>11. \A h : s.old # Nil /\ h \in HostKeys(s.old) \ s.kept => ToClear(i, h)'
  <2> SUFFICES ASSUME NEW h, s.old # Nil, h \in HostKeys(s.old) \ s.kept PROVE ToClear(i, h)'
    OBVIOUS
  <2>1. object'[o].id = i /\ object'[s.old].id = i /\ h \in object'[s.old].hosts \ s.kept
    BY <1>1, <1>2 DEF IdOf, HostKeys
  <2> QED BY <1>3, <1>4, <2>1 DEF ToClear, IdOf, HostKeys
<1>12. \A j : Announced(j) => Announced(j)'
  BY <1>1, <1>6 DEF Announced
<1>13. Owned'
  <2> SUFFICES ASSUME ~Relabel, NEW h \in TableHost, NEW j \in RouteId, byHost'[h] # Nil, IdOf(byHost[h])' = j
               PROVE  \/ routes'[j] = byHost'[h] /\ h \in HostKeys(byHost[h])'
                      \/ ToStore(j, h)' \/ ToClear(j, h)'
    BY DEF Owned
  <2>1. IdOf(byHost'[h]) = j /\ HostKeys(byHost[h])' = HostKeys(byHost'[h])
    BY <1>1 DEF IdOf, HostKeys
  <2>2. ASSUME byHost'[h] = byHost[h], h # k \/ j # i
        PROVE  \/ routes'[j] = byHost'[h] /\ h \in HostKeys(byHost[h])'
               \/ ToStore(j, h)' \/ ToClear(j, h)'
    <3>1. \/ routes[j] = byHost[h] /\ h \in HostKeys(byHost[h])
          \/ ToStore(j, h) \/ ToClear(j, h)
      BY <2>1, <2>2 DEF TableParts, Owned
    <3> QED BY <1>1, <1>9, <1>10, <1>11, <2>1, <2>2, <3>1
  <2>3. CASE h = k /\ MayOwn(o, byHost[k])
    BY <1>1, <1>2, <1>7, <2>1, <2>3
  <2>4. CASE h = k /\ ~MayOwn(o, byHost[k])
    BY <1>7, <2>1, <2>2, <2>4 DEF MayOwn
  <2> QED BY <1>7, <2>2, <2>3, <2>4
<1>14. Served'
  <2> SUFFICES ASSUME NEW h \in TableHost, NEW j \in Claimants(h)'
               PROVE  Kindred(j, h)' \/ ToStore(j, h)' \/ Announced(j)'
    BY DEF Served
  <2>1. j \in Claimants(h)
    BY <1>1 DEF Claimants, HostKeys
  <2>2. Kindred(j, h) \/ ToStore(j, h) \/ Announced(j)
    BY <2>1 DEF TableParts, Served
  <2>3. CASE Announced(j)
    BY <1>12, <2>3
  <2>4. CASE h # k /\ ToStore(j, h)
    BY <1>9, <1>10, <2>4
  <2>5. CASE h # k /\ Kindred(j, h)
    BY <1>1, <1>7, <2>5 DEF Kindred, IdOf
  <2>6. CASE h = k /\ (Kindred(j, h) \/ j = i)
    <3>1. byHost'[k] # Nil
      BY <1>2, <1>7, <2>6 DEF MayOwn, Kindred
    <3>2. j \notin Discovered => IdOf(byHost'[k]) \notin Discovered
      BY <1>2, <1>7, <2>6 DEF MayOwn, Kindred
    <3> QED BY <1>1, <2>6, <3>1, <3>2 DEF Kindred, IdOf
  <2> QED BY <1>9, <2>2, <2>3, <2>4, <2>5, <2>6
<1> QED BY <1>6, <1>8, <1>13, <1>14 DEF TableParts


\* The route that gets a host is one of the best that claim it; there is one if any claims it.
LEMMA ResolvedTo ==
  ASSUME MapsOK, NEW k \in TableHost
  PROVE  /\ ResolveLocked(k) = Nil => Claimants(k) = {}
         /\ ResolveLocked(k) # Nil =>
              \E i \in BestClaimants(k) : ResolveLocked(k) = routes[i]
<1>1. BestClaimants(k) \subseteq Claimants(k) /\ Claimants(k) \subseteq RouteId
      /\ (BestClaimants(k) = {} => Claimants(k) = {})
  BY DEF BestClaimants, Claimants
<1>2. \A i \in BestClaimants(k) : routes[i] # Nil
  BY <1>1 DEF Claimants
<1>3. CASE BestClaimants(k) = {}
  BY <1>1, <1>3 DEF ResolveLocked
<1>4. CASE BestClaimants(k) # {}
  <2>1. PICK m \in BestClaimants(k) : \A j \in BestClaimants(k) : m <= j
    BY <1>1, <1>4, LeastNat, RouteAssumption
  <2> DEFINE first == CHOOSE i \in BestClaimants(k) : \A j \in BestClaimants(k) : i <= j
  <2>2. first \in BestClaimants(k)
    BY <2>1
  <2>3. \/ ResolveLocked(k) = byHost[k] /\ (\E i \in BestClaimants(k) : routes[i] = byHost[k])
        \/ ResolveLocked(k) = routes[first]
    BY <1>4 DEF ResolveLocked
  <2> HIDE DEF first
  <2> QED BY <1>2, <2>2, <2>3
<1> QED BY <1>3, <1>4

\* A host that its owner loses goes to the best route that claims it.
LEMMA ResolveKeyStep ==
  ASSUME TableParts, NEW w \in Writer, NEW k \in task[w].keys, ResolveKey(w, k)
  PROVE  TableParts'
<1> PICK s : s = task[w]
  OBVIOUS
<1> PICK i : i = IdOf(s.old)
  OBVIOUS
<1> PICK t : t = IF s.keys \ {k} # {} THEN [s EXCEPT !.keys = s.keys \ {k}] ELSE Idle
  OBVIOUS
<1> PICK new : new = ResolveLocked(k)
  OBVIOUS
<1>1. /\ s.pc = "resolve" /\ mu = w /\ UNCHANGED <<object, routes>>
      /\ byHost' = [byHost EXCEPT ![k] =
           IF byHost[k] # Nil /\ IdOf(byHost[k]) = i THEN new ELSE byHost[k]]
      /\ task' = [task EXCEPT ![w] = t] /\ Release(t)
  BY DEF ResolveKey, TableParts, WritersOK
<1>2. /\ s \in Task /\ k \in TableHost /\ s.old \in Built /\ s.old # Nil
      /\ s.obj \in Built \cup {Nil} /\ s.list \subseteq Built
      /\ \A p, q \in s.list : IdOf(p) = IdOf(q) => p = q
  BY <1>1, TaskFields DEF TableParts, WritersOK, TasksSound, TaskSound
<1>3. /\ t \in Task /\ t.obj \in Built \cup {Nil} /\ t.list \subseteq s.list
      /\ \/ t.pc = "resolve" /\ t # Idle /\ t.old = s.old /\ t.keys = s.keys \ {k}
         \/ t = Idle /\ s.keys \ {k} = {}
  <2>1. CASE s.keys \ {k} # {}
    <3>1. t = [s EXCEPT !.keys = s.keys \ {k}]
      BY <2>1
    <3>2. t \in Task /\ t.obj = s.obj /\ t.list = s.list /\ t.pc = "resolve" /\ t.old = s.old
          /\ t.keys = s.keys \ {k}
      BY <1>1, <1>2, <3>1 DEF Task
    <3> QED BY <1>2, <3>2, TaskFields
  <2>2. CASE s.keys \ {k} = {}
    BY <2>2, TaskFields
  <2> QED BY <2>1, <2>2
<1>4. mu' = (IF t = Idle THEN Nil ELSE w)
  BY <1>1 DEF Release
<1>5. task'[w] = t /\ Built' = Built
  BY <1>1 DEF TableParts, WritersOK, Built
<1>6. TaskSound(task[w])'
  BY <1>1, <1>2, <1>3, <1>5, TaskFields DEF TaskSound, IdOf
<1>7. /\ ObjectsOK' /\ WritersOK' /\ TasksSound'
      /\ \A v \in Writer \ {w} : task'[v] = task[v] /\ task[v].pc \notin {"store", "resolve"}
  BY <1>1, <1>3, <1>4, <1>6, TaskFields, HolderStep
<1>8. /\ new = Nil => Claimants(k) = {}
      /\ new # Nil => \E j \in BestClaimants(k) : new = routes[j]
  BY <1>2, ResolvedTo DEF TableParts
<1>9. new # Nil => /\ new \in Built /\ IdOf(new) \in BestClaimants(k) /\ routes[IdOf(new)] = new
                   /\ k \in HostKeys(new)
  <2>1. BestClaimants(k) \subseteq Claimants(k)
    BY DEF BestClaimants
  <2>2. \A j \in Claimants(k) : j \in RouteId /\ routes[j] \in Built /\ IdOf(routes[j]) = j
                                /\ k \in HostKeys(routes[j])
    BY DEF Claimants, TableParts, MapsOK
  <2> QED BY <1>8, <2>1, <2>2
<1>10. /\ byHost'[k] = IF byHost[k] # Nil /\ IdOf(byHost[k]) = i THEN new ELSE byHost[k]
       /\ \A h \in TableHost \ {k} : byHost'[h] = byHost[h]
       /\ byHost' \in [TableHost -> Built \cup {Nil}]
  BY <1>1, <1>2, <1>9 DEF TableParts, MapsOK
<1>11. MapsOK'
  BY <1>1, <1>5, <1>10 DEF TableParts, MapsOK, IdOf
<1>12. \A j, h : ~ToStore(j, h) /\ (ToClear(j, h) => j = i /\ h \in s.keys)
  BY <1>1, <1>7 DEF ToStore, ToClear
<1>13. \A h \in s.keys \ {k} : ToClear(i, h)'
  BY <1>1, <1>3, <1>5 DEF ToClear, IdOf
<1>14. \A j : Announced(j) => Announced(j)'
  BY <1>1, <1>7 DEF Announced
<1>15. Owned'
  <2> SUFFICES ASSUME ~Relabel, NEW h \in TableHost, NEW j \in RouteId, byHost'[h] # Nil, IdOf(byHost[h])' = j
               PROVE  \/ routes'[j] = byHost'[h] /\ h \in HostKeys(byHost[h])'
                      \/ ToStore(j, h)' \/ ToClear(j, h)'
    BY DEF Owned
  <2>1. IdOf(byHost'[h]) = j /\ HostKeys(byHost[h])' = HostKeys(byHost'[h])
    BY <1>1 DEF IdOf, HostKeys
  <2>2. CASE byHost'[h] = byHost[h] /\ (h # k \/ j # i)
    <3>1. \/ routes[j] = byHost[h] /\ h \in HostKeys(byHost[h])
          \/ ToClear(j, h)
      BY <1>12, <2>1, <2>2 DEF TableParts, Owned
    <3> QED BY <1>1, <1>12, <1>13, <2>1, <2>2, <3>1
  <2>3. CASE h = k /\ byHost'[h] = new
    BY <1>1, <1>9, <2>1, <2>3
  <2> QED BY <1>10, <2>1, <2>2, <2>3
<1>16. Served'
  <2> SUFFICES ASSUME NEW h \in TableHost, NEW j \in Claimants(h)'
               PROVE  Kindred(j, h)' \/ ToStore(j, h)' \/ Announced(j)'
    BY DEF Served
  <2>1. j \in Claimants(h)
    BY <1>1 DEF Claimants, HostKeys
  <2>2. Kindred(j, h) \/ Announced(j)
    BY <1>12, <2>1 DEF TableParts, Served
  <2>3. CASE byHost'[h] = byHost[h]
    BY <1>1, <1>14, <2>2, <2>3 DEF Kindred, IdOf
  <2>4. CASE h = k /\ byHost'[h] = new
    <3>1. new # Nil /\ IdOf(new) \in BestClaimants(k)
      BY <1>8, <1>9, <2>1, <2>4
    <3>2. j \notin Discovered => IdOf(new) \notin Discovered
      BY <2>1, <2>4, <3>1 DEF BestClaimants
    <3> QED BY <1>1, <2>4, <3>1, <3>2 DEF Kindred, IdOf
  <2> QED BY <1>10, <2>3, <2>4
<1> QED BY <1>7, <1>11, <1>15, <1>16 DEF TableParts

LEMMA DeleteStep ==
  ASSUME TableParts, NEW w \in Writer, NEW i \in RouteId, Delete(w, i)
  PROVE  TableParts'
<1> PICK old : old = routes[i]
  OBVIOUS
<1> PICK t : t = [Idle EXCEPT !.pc = "resolve", !.old = old, !.keys = HostKeys(old)]
  OBVIOUS
<1>1. /\ task[w].pc = "idle" /\ mu = Nil /\ mu' = w /\ old # Nil /\ UNCHANGED <<object, byHost>>
      /\ routes' = [routes EXCEPT ![i] = Nil] /\ task' = [task EXCEPT ![w] = t]
  BY DEF Delete
<1>2. old \in Built /\ IdOf(old) = i /\ HostKeys(old) \subseteq TableHost /\ old \in Object
  BY <1>1, BuiltObjects DEF TableParts, MapsOK
<1>3. /\ t \in Task /\ t.pc = "resolve" /\ t.obj = Nil /\ t.old = old /\ t.list = {}
      /\ t.keys = HostKeys(old) /\ t # Idle
  <2>1. /\ t \in Task /\ t.pc = "resolve" /\ t.obj = Nil /\ t.old = old /\ t.list = {}
        /\ t.keys = HostKeys(old)
    BY <1>2 DEF Idle, Task
  <2> QED BY <2>1, TaskFields
<1>4. task'[w] = t /\ Built' = Built
  BY <1>1 DEF TableParts, WritersOK, Built
<1>5. TaskSound(task[w])'
  BY <1>1, <1>2, <1>3, <1>4 DEF TaskSound
<1>6. /\ ObjectsOK' /\ WritersOK' /\ TasksSound'
      /\ \A v \in Writer \ {w} : task'[v] = task[v] /\ task[v].pc \notin {"store", "resolve"}
  BY <1>1, <1>3, <1>5, HolderStep
<1>7. routes'[i] = Nil /\ \A j \in RouteId \ {i} : routes'[j] = routes[j]
  BY DEF Delete, TableParts, MapsOK
<1>8. MapsOK'
  <2>1. routes' \in [RouteId -> Built \cup {Nil}]
    BY <1>1 DEF TableParts, MapsOK
  <2>2. \A j \in RouteId : routes'[j] # Nil => IdOf(routes[j])' = j
    BY <1>1, <1>7 DEF TableParts, MapsOK, IdOf
  <2> QED BY <1>1, <1>4, <2>1, <2>2 DEF TableParts, MapsOK
<1>9. \A j, h : ~ToStore(j, h) /\ ~ToClear(j, h)
  BY <1>1, NothingDue DEF TableParts
<1>10. \A h \in HostKeys(old) : ToClear(i, h)'
  <2>1. task'[w].pc = "resolve" /\ object'[task'[w].old].id = i /\ task'[w].keys = HostKeys(old)
    BY <1>1, <1>2, <1>3, <1>4 DEF IdOf
  <2> QED BY <2>1 DEF ToClear, IdOf
<1>11. Owned'
  <2> SUFFICES ASSUME ~Relabel, NEW h \in TableHost, NEW j \in RouteId, byHost'[h] # Nil, IdOf(byHost[h])' = j
               PROVE  \/ routes'[j] = byHost'[h] /\ h \in HostKeys(byHost[h])'
                      \/ ToStore(j, h)' \/ ToClear(j, h)'
    BY DEF Owned
  <2>1. byHost[h] # Nil /\ IdOf(byHost[h]) = j /\ HostKeys(byHost[h])' = HostKeys(byHost[h])
    BY <1>1 DEF IdOf, HostKeys
  <2>2. routes[j] = byHost[h] /\ h \in HostKeys(byHost[h])
    BY <1>9, <2>1 DEF TableParts, Owned
  <2> QED BY <1>1, <1>7, <1>10, <2>1, <2>2
<1>12. Served'
  <2> SUFFICES ASSUME NEW h \in TableHost, NEW j \in Claimants(h)'
               PROVE  Kindred(j, h)' \/ ToStore(j, h)' \/ Announced(j)'
    BY DEF Served
  <2>1. j # i /\ routes'[j] = routes[j] /\ j \in Claimants(h)
    BY <1>1, <1>7 DEF Claimants, HostKeys
  <2>2. Kindred(j, h) \/ Announced(j)
    BY <1>9, <2>1 DEF TableParts, Served
  <2> QED BY <1>1, <1>6, <2>1, <2>2 DEF Kindred, IdOf, Announced
<1> QED BY <1>6, <1>8, <1>11, <1>12 DEF TableParts

\* The maps of a Replace are whole when they are published.
LEMMA ReplaceStep ==
  ASSUME TableParts, NEW w \in Writer, Replace(w)
  PROVE  TableParts'
<1> PICK list : list = task[w].list
  OBVIOUS
<1>1. /\ task[w].pc = "replace" /\ mu = Nil /\ UNCHANGED <<object, mu>>
      /\ routes' = [i \in RouteId |-> IF \E o \in list : IdOf(o) = i
                                      THEN CHOOSE o \in list : IdOf(o) = i ELSE Nil]
      /\ task' = [task EXCEPT ![w] = Idle]
  BY DEF Replace
<1>2. PICK owner \in [TableHost -> list \cup {Nil}] :
        /\ \A h \in TableHost :
             /\ (owner[h] = Nil) <=> ({o \in list : h \in HostKeys(o)} = {})
             /\ {o \in list : h \in HostKeys(o)} # {} =>
                  owner[h] \in (IF {o \in list : h \in HostKeys(o) /\ IdOf(o) \notin Discovered} # {}
                                THEN {o \in list : h \in HostKeys(o) /\ IdOf(o) \notin Discovered}
                                ELSE {o \in list : h \in HostKeys(o)})
        /\ byHost' = owner
  <2>1. \A h : {o \in {o \in list : h \in HostKeys(o)} : IdOf(o) \notin Discovered}
               = {o \in list : h \in HostKeys(o) /\ IdOf(o) \notin Discovered}
    OBVIOUS
  <2> QED BY <2>1 DEF Replace
<1>3. /\ list \subseteq Built /\ \A o, p \in list : IdOf(o) = IdOf(p) => o = p
      /\ \A o \in list : IdOf(o) \in RouteId /\ o # Nil
  BY BuiltObjects DEF TableParts, TasksSound, TaskSound
<1>4. /\ \A o \in list : routes'[IdOf(o)] = o
      /\ \A i \in RouteId : routes'[i] # Nil => routes'[i] \in list /\ IdOf(routes'[i]) = i
      /\ routes' \in [RouteId -> Built \cup {Nil}]
  BY <1>1, <1>3
<1>5. task'[w] = Idle /\ Built' = Built
  BY <1>1 DEF TableParts, WritersOK, Built
<1>6. TaskSound(task[w])'
  BY <1>5, TaskFields DEF TaskSound
<1>7. /\ ObjectsOK' /\ WritersOK' /\ TasksSound'
  BY <1>1, <1>6, TaskFields, HolderStep
<1>8. MapsOK'
  BY <1>1, <1>2, <1>3, <1>4, <1>5 DEF MapsOK, IdOf
<1>9. Owned'
  <2> SUFFICES ASSUME ~Relabel, NEW h \in TableHost, NEW j \in RouteId, byHost'[h] # Nil, IdOf(byHost[h])' = j
               PROVE  routes'[j] = byHost'[h] /\ h \in HostKeys(byHost[h])'
    BY DEF Owned
  <2>1. IdOf(byHost'[h]) = j /\ HostKeys(byHost[h])' = HostKeys(byHost'[h])
    BY <1>1 DEF IdOf, HostKeys
  <2>2. byHost'[h] \in list /\ h \in HostKeys(byHost'[h])
    BY <1>2
  <2> QED BY <1>4, <2>1, <2>2
<1>10. Served'
  <2> SUFFICES ASSUME NEW h \in TableHost, NEW j \in Claimants(h)' PROVE Kindred(j, h)'
    BY DEF Served
  <2>1. routes'[j] \in list /\ IdOf(routes'[j]) = j /\ h \in HostKeys(routes'[j])
    BY <1>1, <1>4 DEF Claimants, HostKeys
  <2>2. byHost'[h] # Nil
    BY <1>2, <2>1
  <2>3. j \notin Discovered => IdOf(byHost'[h]) \notin Discovered
    BY <1>2, <2>1
  <2> QED BY <1>1, <2>2, <2>3 DEF Kindred, IdOf
<1> QED BY <1>7, <1>8, <1>9, <1>10 DEF TableParts

LEMMA TablePartsInit == TableInit => TableParts
<1> SUFFICES ASSUME TableInit PROVE TableParts
  OBVIOUS
<1>1. Built = {} /\ Built = 1..0 /\ Cardinality(Built) = 0
  BY FS_EmptySet DEF TableInit, Built
<1>2. ObjectsOK
  BY <1>1 DEF TableInit, ObjectsOK
<1>3. MapsOK
  BY DEF TableInit, MapsOK
<1>4. WritersOK
  BY TaskFields, ObjectAssumption DEF TableInit, WritersOK
<1>5. TasksSound
  BY TaskFields DEF TableInit, TasksSound, TaskSound
<1>6. Owned /\ Served
  BY DEF TableInit, Owned, Served, Claimants
<1> QED BY <1>2, <1>3, <1>4, <1>5, <1>6 DEF TableParts

LEMMA TablePartsStep ==
  ASSUME TableParts, [TableNext]_tableVars
  PROVE  TableParts'
<1>1. CASE TableNext
  <2>1. PICK w \in Writer :
          \/ \E r \in Route : NewRoute(w, r)
          \/ \E i \in Discovered, hs \in SUBSET TableHost : Announce(w, i, hs)
          \/ \E r \in Route : r.id \notin Discovered /\ Push(w, r)
          \/ UpsertLocked(w)
          \/ \E k \in task[w].keys : StoreKey(w, k)
          \/ \E k \in task[w].keys : ResolveKey(w, k)
          \/ \E i \in RouteId : Delete(w, i)
          \/ Replace(w)
    BY <1>1 DEF TableNext
  <2> QED BY <2>1, NewRouteStep, AnnounceStep, PushStep, UpsertStep, StoreKeyStep, ResolveKeyStep,
             DeleteStep, ReplaceStep
<1>2. CASE UNCHANGED tableVars
  <2>1. UNCHANGED <<object, routes, byHost, mu, task>> /\ Built' = Built
    BY <1>2 DEF tableVars, Built
  <2>2. ObjectsOK' /\ MapsOK' /\ WritersOK'
    BY <2>1 DEF TableParts, ObjectsOK, MapsOK, WritersOK, IdOf
  <2>3. TasksSound'
    BY <2>1 DEF TableParts, TasksSound, TaskSound, IdOf, HostKeys
  <2>4. Owned'
    BY <2>1 DEF TableParts, Owned, ToStore, ToClear, IdOf, HostKeys
  <2>5. Served'
    BY <2>1 DEF TableParts, Served, Claimants, Kindred, ToStore, Announced, IdOf, HostKeys
  <2> QED BY <2>2, <2>3, <2>4, <2>5 DEF TableParts
<1> QED BY <1>1, <1>2

\* Each exception to the ownership of hosts (a host whose entry is no longer its route's, a
\* host claimed and served by nobody, or by a discovered route beside a configured one) has
\* a writer that is about to mend it; the first only as long as no Agent withdraws an alias.
THEOREM TableInvariant == TableSpec => []TableInv
<1>1. TableParts /\ [TableNext]_tableVars => TableParts'
  BY TablePartsStep
<1> QED BY <1>1, TablePartsInit, TableInvParts, PTL DEF TableSpec

\* Between two operations on a route (Upsert, Delete) the hosts are served by routes that
\* claim them, and a configured one goes before a discovered one, for any writers, routes
\* and hosts, as long as no Agent withdraws an alias in place.
THEOREM HostsOwned == ASSUME ~Relabel PROVE TableSpec => []OwnersClaim
<1>1. TableParts => OwnersClaim
  <2> SUFFICES ASSUME TableParts, NEW h \in TableHost
               PROVE  /\ byHost[h] # Nil /\ ~Moving(IdOf(byHost[h])) =>
                           routes[IdOf(byHost[h])] = byHost[h] /\ h \in HostKeys(byHost[h])
                      /\ (\E i \in Claimants(h) : ~Moving(i)) => byHost[h] # Nil
                      /\ (\E i \in Claimants(h) \ Discovered : ~Moving(i)) =>
                           IdOf(byHost[h]) \notin Discovered
    BY DEF OwnersClaim
  <2>1. \A i : ToStore(i, h) \/ ToClear(i, h) => Moving(i)
    BY DEF ToStore, ToClear, Moving
  <2>2. \A i \in Claimants(h) : Announced(i) => Moving(i)
    BY DEF Announced, Moving, Claimants, TableParts, MapsOK
  <2>3. byHost[h] # Nil => IdOf(byHost[h]) \in RouteId
    BY BuiltObjects DEF TableParts, MapsOK
  <2>4. byHost[h] # Nil /\ ~Moving(IdOf(byHost[h])) =>
          routes[IdOf(byHost[h])] = byHost[h] /\ h \in HostKeys(byHost[h])
    BY <2>1, <2>3 DEF TableParts, Owned
  <2>5. \A i \in Claimants(h) : ~Moving(i) => Kindred(i, h)
    BY <2>1, <2>2 DEF TableParts, Served
  <2> QED BY <2>4, <2>5 DEF Kindred
<1>2. TableParts /\ [TableNext]_tableVars => TableParts'
  BY TablePartsStep
<1> QED BY <1>1, <1>2, TablePartsInit, PTL DEF TableSpec

\* No request finds a host unserved that a route of the table keeps: the new hosts of a
\* version are stored before the others are taken away (upsertLocked), and a host that is
\* taken away goes to another route at once (resolveLocked).
THEOREM HostKept == TableSpec => HostNeverDropped
<1>1. ASSUME TableParts, TableNext, NEW h \in TableHost, byHost[h] # Nil, byHost'[h] = Nil
      PROVE  Claimants(h)' = {}
  <2>1. PICK w \in Writer : \/ \E k \in task[w].keys : StoreKey(w, k)
                            \/ \E k \in task[w].keys : ResolveKey(w, k)
                            \/ Replace(w)
    BY <1>1 DEF TableNext, NewRoute, Announce, Push, UpsertLocked, Delete
  <2>2. ASSUME NEW k \in task[w].keys, StoreKey(w, k) PROVE FALSE
    <3>1. /\ task[w].pc = "store"
          /\ byHost' = [byHost EXCEPT ![k] = IF MayOwn(task[w].obj, byHost[k])
                                             THEN task[w].obj ELSE byHost[k]]
      BY <2>2 DEF StoreKey
    <3>2. task[w].obj # Nil
      <4>1. TaskSound(task[w])
        BY <1>1 DEF TableParts, TasksSound
      <4> QED BY <3>1, <4>1 DEF TaskSound
    <3>3. byHost \in [TableHost -> Built \cup {Nil}]
      BY <1>1 DEF TableParts, MapsOK
    <3> QED BY <1>1, <3>1, <3>2, <3>3
  <2>3. ASSUME NEW k \in task[w].keys, ResolveKey(w, k) PROVE Claimants(h)' = {}
    <3>1. UNCHANGED <<object, routes>>
          /\ byHost' = [byHost EXCEPT ![k] =
               IF byHost[k] # Nil /\ IdOf(byHost[k]) = IdOf(task[w].old)
               THEN ResolveLocked(k) ELSE byHost[k]]
      BY <2>3 DEF ResolveKey
    <3>2. MapsOK /\ byHost \in [TableHost -> Built \cup {Nil}]
      BY <1>1 DEF TableParts, MapsOK
    <3>3. h = k /\ ResolveLocked(k) = Nil
      BY <1>1, <3>1, <3>2
    <3>4. Claimants(h) = {}
      BY <3>2, <3>3, ResolvedTo
    <3> QED BY <3>1, <3>4 DEF Claimants, HostKeys
  <2>4. CASE Replace(w)
    <3>1. {o \in task[w].list : h \in HostKeys(o)} = {}
      BY <1>1, <2>4 DEF Replace
    <3>2. \A i \in RouteId : routes'[i] # Nil => routes'[i] \in task[w].list
      BY <2>4 DEF Replace
    <3>3. UNCHANGED object
      BY <2>4 DEF Replace
    <3> QED BY <3>1, <3>2, <3>3 DEF Claimants, HostKeys
  <2> QED BY <2>1, <2>2, <2>3, <2>4
<1>2. TableParts /\ [TableNext]_tableVars =>
        [\A h \in TableHost : byHost[h] # Nil /\ byHost'[h] = Nil => Claimants(h)' = {}]_tableVars
  BY <1>1
<1>3. TableParts /\ [TableNext]_tableVars => TableParts'
  BY TablePartsStep
<1> QED BY <1>2, <1>3, TablePartsInit, PTL DEF TableSpec, HostNeverDropped

---------------------------------------------------------------------------
(* The executor of a group *)

\* The executor a member chooses is a member; it is the first of all if the member sees
\* everybody.
LEMMA ExecutorChosen ==
  ASSUME ExecTypeOK, NEW n \in Node
  PROVE  /\ GroupExecutor(n) \in Node
         /\ seen[n] = Node \ {n} => GroupExecutor(n) = First
<1> DEFINE S == seen[n] \cup {n}
<1>1. S \in SUBSET Nat /\ S # {} /\ S \subseteq Node
  BY ExecutorAssumption DEF ExecTypeOK
<1>2. GroupExecutor(n) = CHOOSE m \in S : \A k \in S : m <= k
  BY DEF GroupExecutor
<1>3. \E m \in S : \A k \in S : m <= k
  <2> HIDE DEF S
  <2> QED BY <1>1, LeastNat
<1>4. GroupExecutor(n) \in Node
  <2> HIDE DEF S
  <2> QED BY <1>1, <1>2, <1>3
<1>5. ASSUME seen[n] = Node \ {n} PROVE GroupExecutor(n) = First
  <2>1. S = Node
    BY <1>5
  <2> QED BY <1>2, <2>1 DEF First
<1> QED BY <1>4, <1>5

LEMMA ExecInvInit == ExecInit => ExecInv
<1> SUFFICES ASSUME ExecInit PROVE ExecInv
  OBVIOUS
<1>1. \A n \in Node : firing[n].pc = "idle"
  BY DEF ExecInit, NoFiring
<1>2. ExecTypeOK
  <2>1. told \in BOOLEAN
    BY DEF ExecInit
  <2>2. /\ seen \in [Node -> SUBSET Node] /\ upsets \in 0..MaxUpset
        /\ firing \in [Node -> [pc : {"idle", "forward", "report", "done"}, to : Node \cup {0}]]
    BY ExecutorAssumption DEF ExecInit, NoFiring
  <2> QED BY <2>1, <2>2 DEF ExecInit, ExecTypeOK
<1>3. ReportsCount
  BY <1>1 DEF ExecInit, ReportsCount
<1>4. OneReporter
  BY <1>1 DEF ExecInit, OneReporter
<1> QED BY <1>2, <1>3, <1>4 DEF ExecInv

\* reportRuleFired counts the first report of the window.
LEMMA ReportCounted ==
  ASSUME ExecInv, NEW n \in up, ReportRuleFired(n)
  PROVE  /\ recent' \subseteq up /\ recent' # {} /\ reports' \in Nat /\ reports' >= 1
         /\ told' \in BOOLEAN
         /\ upsets = 0 /\ n = First =>
              recent' \subseteq {First} /\ reports' = (IF First \in recent' THEN 1 ELSE 0)
<1>1. /\ recent \subseteq up /\ reports \in Nat /\ (recent # {} => reports >= 1)
      /\ recent' = recent \cup {n} /\ reports' = IF n \in recent THEN reports ELSE reports + 1
      /\ told \in BOOLEAN /\ told' = (told \/ (n \notin recent /\ n \in hub))
  BY DEF ExecInv, ExecTypeOK, ReportsCount, ReportRuleFired
<1>2. upsets = 0 => recent \subseteq {First} /\ reports = (IF First \in recent THEN 1 ELSE 0)
  BY DEF ExecInv, OneReporter
<1>3. told' \in BOOLEAN
  BY <1>1
<1> QED BY <1>1, <1>2, <1>3

\* Every step of the executor keeps its invariant.
LEMMA ExecInvStep ==
  ASSUME ExecInv, [ExecNext]_execVars
  PROVE  ExecInv'
<1> USE DEF ExecInv
<1>0. upsets \in Nat /\ 0 \notin Node
  BY ExecutorAssumption DEF ExecTypeOK
<1>1. CASE UNCHANGED execVars
  BY <1>1 DEF execVars, ExecTypeOK, ReportsCount, OneReporter
<1>2. ASSUME NEW n \in Node, OnRuleFired(n) PROVE ExecInv'
  <2> DEFINE e == GroupExecutor(n)
  <2>1. e \in Node /\ (upsets = 0 => e = First)
    BY ExecutorChosen DEF OneReporter
  <2> HIDE DEF e
  <2>2. /\ n \in up
        /\ firing' = [firing EXCEPT ![n] = [pc |-> IF e = n THEN "report" ELSE "forward", to |-> e]]
        /\ requests' = IF e = n THEN requests ELSE requests \cup {[from |-> n, to |-> e]}
        /\ UNCHANGED <<up, seen, hub, handled, recent, reports, told, upsets>>
        /\ firing[n].pc = "idle"
    BY <1>2 DEF OnRuleFired, e
  <2>3. ExecTypeOK'
    BY <2>1, <2>2 DEF ExecTypeOK
  <2>4. /\ \A m \in Node \ {n} : firing'[m] = firing[m]
        /\ firing'[n].pc = IF e = n THEN "report" ELSE "forward"
    BY <2>2 DEF ExecTypeOK
  <2>5. ReportsCount'
    BY <2>2, <2>4 DEF ReportsCount
  <2>6. OneReporter'
    BY <2>1, <2>2, <2>4 DEF OneReporter
  <2> QED BY <2>3, <2>5, <2>6
<1>3. ASSUME NEW q \in requests, HandleForwarded(q) PROVE ExecInv'
  <2>1. q.to \in up /\ q.from \in Node \cup {0} /\ q.to \in Node
    BY <1>3 DEF HandleForwarded, ExecTypeOK
  <2>2. /\ ReportRuleFired(q.to) /\ requests' \subseteq requests
        /\ UNCHANGED <<up, seen, hub, firing, upsets>>
        /\ \A n \in handled' : n \in handled \/ (n = q.from /\ n # 0 /\ firing[n].pc = "forward")
    BY <1>3 DEF HandleForwarded
  <2>3. /\ recent' \subseteq up /\ recent' # {} /\ reports' \in Nat /\ reports' >= 1
        /\ told' \in BOOLEAN
        /\ upsets = 0 /\ q.to = First =>
             recent' \subseteq {First} /\ reports' = (IF First \in recent' THEN 1 ELSE 0)
    BY <2>1, <2>2, ReportCounted
  <2>4. ExecTypeOK'
    BY <2>1, <2>2, <2>3 DEF ExecTypeOK
  <2>5. ReportsCount'
    BY <2>2, <2>3 DEF ReportsCount
  <2>6. OneReporter'
    BY <2>2, <2>3 DEF OneReporter
  <2> QED BY <2>4, <2>5, <2>6
<1>4. ASSUME NEW n \in Node, ForwardAnswered(n) PROVE ExecInv'
  <2>1. /\ n \in handled /\ firing' = [firing EXCEPT ![n].pc = "done"] /\ handled' = handled \ {n}
        /\ UNCHANGED <<up, seen, hub, requests, recent, reports, told, upsets>>
    BY <1>4 DEF ForwardAnswered
  <2>2. /\ \A m \in Node \ {n} : firing'[m] = firing[m]
        /\ firing'[n].pc = "done" /\ firing[n].pc = "forward"
    BY <2>1 DEF ExecTypeOK
  <2>3. ExecTypeOK'
    BY <2>1, <2>2 DEF ExecTypeOK
  <2>4. ReportsCount'
    BY <2>1, <2>2 DEF ReportsCount
  <2>5. OneReporter'
    BY <2>1, <2>2 DEF OneReporter
  <2> QED BY <2>3, <2>4, <2>5
<1>5. ASSUME NEW n \in Node, ForwardFails(n) PROVE ExecInv'
  <2>1. /\ firing[n].pc = "forward" /\ upsets < MaxUpset /\ upsets' = upsets + 1
        /\ firing' = [firing EXCEPT ![n].pc = "report"] /\ handled' = handled \ {n}
        /\ UNCHANGED <<up, seen, hub, requests, recent, reports, told>>
    BY <1>5 DEF ForwardFails
  <2>2. /\ \A m \in Node \ {n} : firing'[m] = firing[m]
        /\ firing'[n].pc = "report"
    BY <2>1 DEF ExecTypeOK
  <2>3. upsets' \in 0..MaxUpset /\ upsets' # 0
    BY <1>0, <2>1, ExecutorAssumption
  <2>4. ExecTypeOK'
    BY <2>1, <2>2, <2>3 DEF ExecTypeOK
  <2>5. ReportsCount'
    BY <2>1, <2>2 DEF ReportsCount
  <2> QED BY <2>3, <2>4, <2>5 DEF OneReporter
<1>6. ASSUME NEW n \in Node, ReportSelf(n) PROVE ExecInv'
  <2>1. /\ firing[n].pc = "report" /\ ReportRuleFired(n)
        /\ firing' = [firing EXCEPT ![n].pc = "done"]
        /\ UNCHANGED <<up, seen, hub, handled, requests, upsets>>
    BY <1>6 DEF ReportSelf
  <2>2. n \in up /\ (upsets = 0 => n = First)
    BY <2>1 DEF ReportsCount, OneReporter
  <2>3. /\ \A m \in Node \ {n} : firing'[m] = firing[m]
        /\ firing'[n].pc = "done"
    BY <2>1 DEF ExecTypeOK
  <2>4. /\ recent' \subseteq up /\ recent' # {} /\ reports' \in Nat /\ reports' >= 1
        /\ told' \in BOOLEAN
        /\ upsets = 0 =>
             recent' \subseteq {First} /\ reports' = (IF First \in recent' THEN 1 ELSE 0)
    BY <2>1, <2>2, ReportCounted
  <2>5. ExecTypeOK'
    BY <2>1, <2>3, <2>4 DEF ExecTypeOK
  <2>6. ReportsCount'
    BY <2>1, <2>2, <2>3, <2>4 DEF ReportsCount
  <2>7. OneReporter'
    BY <2>1, <2>3, <2>4 DEF OneReporter
  <2> QED BY <2>5, <2>6, <2>7
<1>7. ASSUME NEW n \in Node, NEW p \in Node, MarkSeen(n, p) \/ NotSeen(n, p) PROVE ExecInv'
  <2>1. /\ seen' \in [Node -> SUBSET Node] /\ upsets' \in 0..MaxUpset
        /\ UNCHANGED <<up, hub, firing, handled, requests, recent, reports, told>>
    BY <1>0, <1>7, ExecutorAssumption DEF MarkSeen, NotSeen, ExecTypeOK
  <2>2. upsets' # 0
    BY <1>0, <1>7 DEF MarkSeen, NotSeen, OneReporter
  <2>3. ExecTypeOK' /\ ReportsCount'
    BY <2>1 DEF ExecTypeOK, ReportsCount
  <2> QED BY <2>2, <2>3 DEF OneReporter
<1>8. ASSUME NEW n \in Node, CrashMember(n) PROVE ExecInv'
  <2>1. /\ upsets < MaxUpset /\ upsets' = upsets + 1
        /\ up' = up \ {n} /\ hub' = hub \ {n} /\ seen' = [seen EXCEPT ![n] = {}]
        /\ firing' = [firing EXCEPT ![n] = NoFiring]
        /\ handled' = handled \ {n} /\ recent' = recent \ {n} /\ UNCHANGED <<reports, told>>
        /\ requests' = {[q EXCEPT !.from = IF @ = n THEN 0 ELSE @] :
                          q \in {r \in requests : r.to # n}}
    BY <1>8 DEF CrashMember
  <2>2. /\ \A m \in Node \ {n} : firing'[m] = firing[m]
        /\ firing'[n].pc = "idle"
    BY <2>1 DEF ExecTypeOK, NoFiring
  <2>3. upsets' \in 0..MaxUpset /\ upsets' # 0
    BY <1>0, <2>1, ExecutorAssumption
  <2>4. requests' \subseteq [from : Node \cup {0}, to : Node]
    <3>1. requests \subseteq [from : Node \cup {0}, to : Node]
      BY DEF ExecTypeOK
    <3>2. \A q \in requests : [q EXCEPT !.from = IF @ = n THEN 0 ELSE @]
                                \in [from : Node \cup {0}, to : Node]
      BY <3>1
    <3> QED BY <2>1, <3>2
  <2>5. ExecTypeOK'
    BY <2>1, <2>2, <2>3, <2>4 DEF ExecTypeOK, NoFiring
  <2>6. ReportsCount'
    BY <2>1, <2>2 DEF ReportsCount
  <2> QED BY <2>3, <2>5, <2>6 DEF OneReporter
<1>9. ASSUME NEW n \in Node, StartMember(n) PROVE ExecInv'
  <2>1. /\ n \notin up /\ up' = up \cup {n}
        /\ UNCHANGED <<seen, hub, firing, handled, requests, recent, reports, told, upsets>>
    BY <1>9 DEF StartMember
  <2>2. upsets # 0
    BY <2>1 DEF OneReporter
  <2> QED BY <2>1, <2>2 DEF ExecTypeOK, ReportsCount, OneReporter
<1> QED BY <1>1, <1>2, <1>3, <1>4, <1>5, <1>6, <1>7, <1>8, <1>9 DEF ExecNext

\* An incident that a member is done with was reported, and once only unless something
\* went wrong, in a group of any size.
THEOREM IncidentReportedOnce == ExecSpec => []ReportedOnce
<1>1. ExecInv /\ [ExecNext]_execVars => ExecInv'
  BY ExecInvStep
<1>2. ExecInv => ReportedOnce
  BY DEF ExecInv, ExecTypeOK, ReportsCount, OneReporter, ReportedOnce
<1> QED BY <1>1, <1>2, ExecInvInit, PTL DEF ExecSpec

---------------------------------------------------------------------------
(* Sequences of objects *)

\* The elements of a sequence.
LEMMA RangeOf ==
  ASSUME NEW S, NEW s \in Seq(S)
  PROVE  /\ \A o : o \in Range(s) <=> \E i \in 1..Len(s) : o = s[i]
         /\ Range(s) \subseteq S
BY DEF Range

LEMMA HeadTail ==
  ASSUME NEW S, NEW s \in Seq(S), s # <<>>
  PROVE  /\ Head(s) = s[1] /\ Head(s) \in S /\ Tail(s) \in Seq(S) /\ Len(s) >= 1
         /\ Len(Tail(s)) = Len(s) - 1 /\ \A i \in 1..(Len(s) - 1) : Tail(s)[i] = s[i + 1]
         /\ Range(s) = {Head(s)} \cup Range(Tail(s))
<1>1. /\ Head(s) = s[1] /\ Tail(s) \in Seq(S) /\ Len(s) \in Nat /\ Len(s) >= 1
      /\ Len(Tail(s)) = Len(s) - 1 /\ \A i \in 1..(Len(s) - 1) : Tail(s)[i] = s[i + 1]
  OBVIOUS
<1>2. Head(s) \in S
  BY <1>1
<1>3. ASSUME NEW o PROVE o \in Range(s) <=> o \in {Head(s)} \cup Range(Tail(s))
  <2>1. o \in Range(s) <=> \E i \in 1..Len(s) : o = s[i]
    BY RangeOf
  <2>2. o \in Range(Tail(s)) <=> \E i \in 1..(Len(s) - 1) : o = s[i + 1]
    <3> DEFINE t == Tail(s)
    <3>1. t \in Seq(S) /\ Len(t) = Len(s) - 1 /\ \A i \in 1..(Len(s) - 1) : t[i] = s[i + 1]
      BY <1>1
    <3> HIDE DEF t
    <3>2. o \in Range(t) <=> \E i \in 1..Len(t) : o = t[i]
      BY <3>1, RangeOf
    <3>3. o \in Range(t) <=> \E i \in 1..(Len(s) - 1) : o = s[i + 1]
      BY <3>1, <3>2
    <3> QED BY <3>3 DEF t
  <2>3. \A i \in 1..Len(s) : i = 1 \/ (i - 1 \in 1..(Len(s) - 1) /\ (i - 1) + 1 = i)
    BY <1>1
  <2>4. \A i \in 1..(Len(s) - 1) : i + 1 \in 1..Len(s)
    BY <1>1
  <2>5. 1 \in 1..Len(s)
    BY <1>1
  <2> QED BY <1>1, <2>1, <2>2, <2>3, <2>4, <2>5
<1> QED BY <1>1, <1>2, <1>3

LEMMA AppendRange ==
  ASSUME NEW S, NEW s \in Seq(S), NEW o \in S
  PROVE  /\ Append(s, o) \in Seq(S) /\ Len(Append(s, o)) = Len(s) + 1
         /\ \A i \in 1..Len(s) : Append(s, o)[i] = s[i]
         /\ Append(s, o)[Len(s) + 1] = o
         /\ Range(Append(s, o)) = Range(s) \cup {o}
<1>1. /\ Append(s, o) \in Seq(S) /\ Len(Append(s, o)) = Len(s) + 1 /\ Len(s) \in Nat
      /\ \A i \in 1..Len(s) : Append(s, o)[i] = s[i]
      /\ Append(s, o)[Len(s) + 1] = o
  OBVIOUS
<1>2. ASSUME NEW x PROVE x \in Range(Append(s, o)) <=> x \in Range(s) \cup {o}
  <2>1. x \in Range(Append(s, o)) <=> \E i \in 1..(Len(s) + 1) : x = Append(s, o)[i]
    <3> DEFINE t == Append(s, o)
    <3>1. t \in Seq(S) /\ Len(t) = Len(s) + 1
      BY <1>1
    <3> HIDE DEF t
    <3>2. x \in Range(t) <=> \E i \in 1..Len(t) : x = t[i]
      BY <3>1, RangeOf
    <3>3. x \in Range(t) <=> \E i \in 1..(Len(s) + 1) : x = t[i]
      BY <3>1, <3>2
    <3> QED BY <3>3 DEF t
  <2>2. \A i \in 1..(Len(s) + 1) : i \in 1..Len(s) \/ i = Len(s) + 1
    BY <1>1
  <2>3. Len(s) + 1 \in 1..(Len(s) + 1) /\ \A i \in 1..Len(s) : i \in 1..(Len(s) + 1)
    BY <1>1
  <2>4. x \in Range(s) <=> \E i \in 1..Len(s) : x = s[i]
    BY RangeOf
  <2> QED BY <1>1, <2>1, <2>2, <2>3, <2>4
<1> QED BY <1>1, <1>2

\* What is undone last first.
LEMMA UndoOrder ==
  ASSUME NEW S, NEW s \in Seq(S), ContainersLast(s), NotTwice(s)
  PROVE  /\ Undo(s) \in Seq(S) /\ Range(Undo(s)) = Range(s)
         /\ ContainersFirst(Undo(s)) /\ NotTwice(Undo(s))
<1> DEFINE u == [i \in 1..Len(s) |-> s[(Len(s) - i) + 1]]
<1>0. Len(s) \in Nat
  OBVIOUS
<1>1. Undo(s) = u
  BY DEF Undo, Reverse
<1>2. \A i \in 1..Len(s) : (Len(s) - i) + 1 \in 1..Len(s)
  BY <1>0
<1>3. u \in Seq(S) /\ Len(u) = Len(s)
  BY <1>0, <1>2
<1>4. \A i \in 1..Len(s) : u[i] = s[(Len(s) - i) + 1]
  OBVIOUS
<1> HIDE DEF u
<1>5. Range(u) = Range(s)
  <2>1. ASSUME NEW o PROVE o \in Range(u) <=> o \in Range(s)
    <3>1. o \in Range(u) <=> \E i \in 1..Len(s) : o = s[(Len(s) - i) + 1]
      <4>1. o \in Range(u) <=> \E i \in 1..Len(u) : o = u[i]
        BY <1>3, RangeOf
      <4> QED BY <1>3, <1>4, <4>1
    <3>2. \A i \in 1..Len(s) : (Len(s) - ((Len(s) - i) + 1)) + 1 = i
      BY <1>0
    <3>3. o \in Range(s) <=> \E i \in 1..Len(s) : o = s[i]
      BY RangeOf
    <3> QED BY <1>2, <3>1, <3>2, <3>3
  <2> QED BY <2>1
<1>6. ContainersFirst(u)
  <2> SUFFICES ASSUME NEW i \in 1..Len(s), NEW j \in 1..Len(s), i < j, IsContainer(u[j])
               PROVE  IsContainer(u[i])
    BY <1>3 DEF ContainersFirst
  <2>1. (Len(s) - j) + 1 < (Len(s) - i) + 1
    BY <1>0
  <2> QED BY <1>2, <1>4, <2>1 DEF ContainersLast
<1>7. NotTwice(u)
  <2> SUFFICES ASSUME NEW i \in 1..Len(s), NEW j \in 1..Len(s), i # j, u[i] = u[j]
               PROVE  u[i].kind = "volume"
    BY <1>3 DEF NotTwice
  <2>1. (Len(s) - j) + 1 # (Len(s) - i) + 1
    BY <1>0
  <2> QED BY <1>2, <1>4, <2>1 DEF NotTwice
<1> QED BY <1>1, <1>3, <1>5, <1>6, <1>7

\* The loop of Plan: its partial results exist, and hold objects that do not exist.
LEMMA MissingOnly ==
  ASSUME NEW S, NEW s \in Seq(S)
  PROVE  Missing(s) \in Seq({o \in S : ~Present(o)})
<1> DEFINE Step(f, i) == IF i = 0 THEN <<>>
                         ELSE IF Present(s[i]) THEN f[i - 1] ELSE Append(f[i - 1], s[i])
           T == {o \in S : ~Present(o)}
           Folding(n, f) == f = [i \in 0..n |-> Step(f, i)]
           Bad == {n \in 0..Len(s) : ~\E f : Folding(n, f)}
<1>0. Len(s) \in Nat
  OBVIOUS
<1>1. Bad = {}
  <2> SUFFICES ASSUME Bad # {} PROVE FALSE
    OBVIOUS
  <2>1. Bad \in SUBSET Nat
    BY <1>0
  <2>2. PICK n \in Bad : \A k \in Bad : n <= k
    <3> HIDE DEF Bad
    <3> QED BY <2>1, LeastNat
  <2>3. n \in 0..Len(s) /\ n \in Nat /\ \A f : ~Folding(n, f)
    BY <2>2
  <2>4. CASE n = 0
    <3> DEFINE f == [i \in 0..n |-> <<>>]
    <3>1. f = [i \in 0..n |-> Step(f, i)]
      BY <2>4
    <3> QED BY <2>3, <3>1
  <2>5. CASE n # 0
    <3>1. n - 1 \in 0..Len(s) /\ ~(n <= n - 1)
      BY <1>0, <2>3, <2>5
    <3>2. n - 1 \notin Bad
      <4> HIDE DEF Bad
      <4> QED BY <2>2, <3>1
    <3>3. PICK g : Folding(n - 1, g)
      BY <3>1, <3>2
    <3>4. \A i \in 0..(n - 1) : g[i] = Step(g, i)
      BY <3>3
    <3> DEFINE last == Step(g, n)
               f == [i \in 0..n |-> IF i = n THEN last ELSE g[i]]
    <3>5. ASSUME NEW i \in 0..n PROVE f[i] = Step(f, i)
      <4>1. CASE i = n
        <5>1. i - 1 \in 0..n /\ i - 1 # n /\ i # 0
          BY <2>3, <2>5, <4>1
        <5>2. f[i - 1] = g[i - 1]
          BY <5>1
        <5> QED BY <4>1, <5>1, <5>2
      <4>2. CASE i # n
        <5>1. i \in 0..(n - 1)
          BY <2>3, <4>2
        <5>2. i = 0 \/ (i - 1 \in 0..n /\ i - 1 # n)
          BY <2>3, <5>1
        <5>3. f[i] = Step(g, i)
          BY <3>4, <4>2, <5>1
        <5>4. i # 0 => f[i - 1] = g[i - 1]
          BY <5>2
        <5> QED BY <5>3, <5>4
      <4> QED BY <4>1, <4>2
    <3>6. Folding(n, f)
      BY <3>5
    <3> HIDE DEF f
    <3> QED BY <2>3, <3>6
  <2> QED BY <2>4, <2>5
<1> DEFINE found == CHOOSE f : Folding(Len(s), f)
<1>2. Len(s) \in 0..Len(s)
  BY <1>0
<1>3. \E f : Folding(Len(s), f)
  BY <1>1, <1>2
<1>4. Folding(Len(s), found)
  <2> HIDE DEF Loop
  <2> QED BY <1>3
<1>5. Missing(s) = found[Len(s)]
  BY DEF Missing
<1> HIDE DEF found
<1>6. \A i \in 0..Len(s) : found[i] = Step(found, i)
  BY <1>4
<1> DEFINE Wrong == {n \in 0..Len(s) : found[n] \notin Seq(T)}
<1>7. Wrong = {}
  <2> SUFFICES ASSUME Wrong # {} PROVE FALSE
    OBVIOUS
  <2>1. Wrong \in SUBSET Nat
    BY <1>0
  <2>2. PICK n \in Wrong : \A k \in Wrong : n <= k
    <3> HIDE DEF Wrong
    <3> QED BY <2>1, LeastNat
  <2>3. n \in 0..Len(s) /\ found[n] \notin Seq(T)
    BY <2>2
  <2>4. n # 0
    <3> SUFFICES ASSUME n = 0 PROVE FALSE
      OBVIOUS
    <3>1. found[n] = <<>>
      BY <1>6, <2>3
    <3> QED BY <2>3, <3>1
  <2>5. n - 1 \in 0..Len(s) /\ ~(n <= n - 1) /\ n \in 1..Len(s)
    BY <1>0, <2>3, <2>4
  <2>6. n - 1 \notin Wrong
    <3> HIDE DEF Wrong
    <3> QED BY <2>2, <2>5
  <2>7. found[n - 1] \in Seq(T)
    BY <2>5, <2>6
  <2>8. s[n] \in S
    BY <2>5
  <2>9. found[n] = IF Present(s[n]) THEN found[n - 1] ELSE Append(found[n - 1], s[n])
    BY <1>6, <2>3, <2>4
  <2>10. CASE Present(s[n])
    BY <2>3, <2>7, <2>9, <2>10
  <2>11. CASE ~Present(s[n])
    <3>1. s[n] \in T
      BY <2>8, <2>11
    <3> HIDE DEF T
    <3> QED BY <2>3, <2>7, <2>9, <2>11, <3>1
  <2> QED BY <2>10, <2>11
<1> QED BY <1>2, <1>5, <1>7

LEMMA ConcatRange ==
  ASSUME NEW S, NEW s \in Seq(S), NEW t \in Seq(S)
  PROVE  s \o t \in Seq(S) /\ Range(s \o t) = Range(s) \cup Range(t)
<1> DEFINE u == s \o t
<1>1. /\ u \in Seq(S) /\ Len(u) = Len(s) + Len(t) /\ Len(s) \in Nat /\ Len(t) \in Nat
      /\ \A i \in 1..Len(u) : u[i] = IF i <= Len(s) THEN s[i] ELSE t[i - Len(s)]
  OBVIOUS
<1> HIDE DEF u
<1>2. ASSUME NEW o PROVE o \in Range(u) <=> o \in Range(s) \cup Range(t)
  <2>1. o \in Range(u) <=> \E i \in 1..Len(u) : o = u[i]
    BY <1>1, RangeOf
  <2>2. /\ o \in Range(s) <=> \E i \in 1..Len(s) : o = s[i]
        /\ o \in Range(t) <=> \E i \in 1..Len(t) : o = t[i]
    BY RangeOf
  <2>3. \A i \in 1..Len(s) : i \in 1..Len(u) /\ i <= Len(s)
    BY <1>1
  <2>4. \A i \in 1..Len(t) : /\ i + Len(s) \in 1..Len(u) /\ ~(i + Len(s) <= Len(s))
                             /\ (i + Len(s)) - Len(s) = i
    BY <1>1
  <2>5. \A i \in 1..Len(u) : ~(i <= Len(s)) => i - Len(s) \in 1..Len(t)
    BY <1>1
  <2>6. \A i \in 1..Len(u) : i <= Len(s) => i \in 1..Len(s)
    BY <1>1
  <2>7. (o \in Range(s)) => o \in Range(u)
    BY <1>1, <2>1, <2>2, <2>3
  <2>8. ASSUME o \in Range(t) PROVE o \in Range(u)
    <3>1. PICK i \in 1..Len(t) : o = t[i]
      BY <2>2, <2>8
    <3>2. u[i + Len(s)] = t[i]
      BY <1>1, <2>4
    <3> QED BY <2>1, <2>4, <3>1, <3>2
  <2>9. ASSUME o \in Range(u) PROVE o \in Range(s) \/ o \in Range(t)
    BY <1>1, <2>1, <2>2, <2>5, <2>6, <2>9
  <2> QED BY <2>7, <2>8, <2>9
<1> QED BY <1>1, <1>2 DEF u

---------------------------------------------------------------------------
(* The deployment engine *)

Kinds == {"network", "volume", "container"}
OfKind(k) == {o \in Objects : o.kind = k}

LEMMA NamesTyped ==
  ASSUME NEW s \in Seq(STRING), NEW k \in Kinds, NEW t,
         t = [i \in 1..Len(s) |-> [kind |-> k, name |-> s[i]]]
  PROVE  /\ t \in Seq([kind : Kinds, name : STRING])
         /\ t \in Seq({r \in [kind : Kinds, name : STRING] : r.kind = k})
<1>1. \A i \in 1..Len(s) : s[i] \in STRING
  OBVIOUS
<1>2. \A i \in 1..Len(s) : /\ [kind |-> k, name |-> s[i]] \in [kind : Kinds, name : STRING]
                           /\ [kind |-> k, name |-> s[i]].kind = k
  BY <1>1
<1>3. Len(s) \in Nat
  OBVIOUS
<1> DEFINE R == [kind : Kinds, name : STRING]
           T == {r \in R : r.kind = k}
<1>4. \A i \in 1..Len(s) : t[i] \in R /\ t[i] \in T
  BY <1>2
<1>5. t \in [1..Len(s) -> R] /\ t \in [1..Len(s) -> T]
  BY <1>4
<1> HIDE DEF T, R
<1>6. t \in Seq(R) /\ t \in Seq(T)
  BY <1>3, <1>5
<1> QED BY <1>6 DEF T, R

\* The lists of a description hold objects of one kind each.
LEMMA StepsTyped ==
  ASSUME NEW d \in Deployment
  PROVE  /\ NetsOf(d) \in Seq(OfKind("network"))
         /\ VolsOf(d) \in Seq(OfKind("volume"))
         /\ CtrsOf(d) \in Seq(OfKind("container"))
<1> DEFINE R == [kind : Kinds, name : STRING]
<1>1. /\ Networks[d] \in Seq(STRING) /\ Volumes[d] \in Seq(STRING) /\ Containers[d] \in Seq(STRING)
  BY DeployAssumption
<1>2. "network" \in Kinds /\ "volume" \in Kinds /\ "container" \in Kinds
  BY DEF Kinds
<1>3. /\ NetsOf(d) \in Seq(R) /\ NetsOf(d) \in Seq({r \in R : r.kind = "network"})
  <2>1. NetsOf(d) = [i \in 1..Len(Networks[d]) |-> [kind |-> "network", name |-> Networks[d][i]]]
    BY DEF NetsOf, ToSteps, Net
  <2> QED BY <1>1, <1>2, <2>1, NamesTyped
<1>4. /\ VolsOf(d) \in Seq(R) /\ VolsOf(d) \in Seq({r \in R : r.kind = "volume"})
  <2>1. VolsOf(d) = [i \in 1..Len(Volumes[d]) |-> [kind |-> "volume", name |-> Volumes[d][i]]]
    BY DEF VolsOf, ToSteps, Vol
  <2> QED BY <1>1, <1>2, <2>1, NamesTyped
<1>8. /\ CtrsOf(d) \in Seq(R) /\ CtrsOf(d) \in Seq({r \in R : r.kind = "container"})
  <2>1. CtrsOf(d) = [i \in 1..Len(Containers[d]) |-> [kind |-> "container", name |-> Containers[d][i]]]
    BY DEF CtrsOf, ToSteps, Ctr
  <2> QED BY <1>1, <1>2, <2>1, NamesTyped
<1>5. /\ NetsOf(d) \o VolsOf(d) \in Seq(R)
      /\ Range(NetsOf(d) \o VolsOf(d) \o CtrsOf(d))
           = (Range(NetsOf(d)) \cup Range(VolsOf(d))) \cup Range(CtrsOf(d))
  <2> HIDE DEF R
  <2>1. /\ NetsOf(d) \o VolsOf(d) \in Seq(R)
        /\ Range(NetsOf(d) \o VolsOf(d)) = Range(NetsOf(d)) \cup Range(VolsOf(d))
    BY <1>3, <1>4, ConcatRange
  <2> DEFINE nv == NetsOf(d) \o VolsOf(d)
  <2>2. nv \in Seq(R) /\ Range(nv) = Range(NetsOf(d)) \cup Range(VolsOf(d))
    BY <2>1
  <2> HIDE DEF nv
  <2>3. Range(nv \o CtrsOf(d)) = Range(nv) \cup Range(CtrsOf(d))
    BY <1>8, <2>2, ConcatRange
  <2>4. NetsOf(d) \o VolsOf(d) \o CtrsOf(d) = nv \o CtrsOf(d)
    BY DEF nv
  <2> QED BY <2>1, <2>2, <2>3, <2>4
<1>6. /\ Range(NetsOf(d)) \subseteq Objects /\ Range(VolsOf(d)) \subseteq Objects
      /\ Range(CtrsOf(d)) \subseteq Objects
  BY <1>5 DEF Objects
<1>7. ASSUME NEW s, NEW k, s \in Seq({r \in R : r.kind = k}), Range(s) \subseteq Objects
      PROVE  s \in Seq(OfKind(k))
  <2>1. \A i \in 1..Len(s) : s[i] \in Range(s) /\ s[i].kind = k
    BY <1>7 DEF Range
  <2>2. \A i \in 1..Len(s) : s[i] \in OfKind(k)
    BY <1>7, <2>1 DEF OfKind
  <2> QED BY <1>7, <2>2
<1> QED BY <1>3, <1>4, <1>8, <1>6, <1>7

LEMMA KindsOf ==
  ASSUME NEW d \in Deployment
  PROVE  /\ Range(NetsOf(d)) \subseteq Objects /\ \A o \in Range(NetsOf(d)) : o.kind = "network"
         /\ Range(VolsOf(d)) \subseteq Objects /\ \A o \in Range(VolsOf(d)) : o.kind = "volume"
         /\ Range(CtrsOf(d)) \subseteq Objects /\ \A o \in Range(CtrsOf(d)) : o.kind = "container"
<1>1. /\ Range(NetsOf(d)) \subseteq OfKind("network")
      /\ Range(VolsOf(d)) \subseteq OfKind("volume")
      /\ Range(CtrsOf(d)) \subseteq OfKind("container")
  BY StepsTyped, RangeOf
<1> QED BY <1>1 DEF OfKind

LEMMA DeployInvInit == DeployInit => DeployInv
<1> SUFFICES ASSUME DeployInit PROVE DeployInv
  OBVIOUS
<1>1. PICK was \in SUBSET Existing :
        /\ host = [o \in was |-> "user"]
        /\ uses = [o \in {c \in was : c.kind = "container"} |-> {}]
  BY DEF DeployInit
<1>2. apply = [d \in Deployment |-> Apply0]
  BY DEF DeployInit
<1>3. DeployTypeOK
  <2>1. host \in [DOMAIN host -> Deployment \cup {"user"}] /\ DOMAIN host \subseteq Objects \cup Existing
    BY <1>1
  <2>2. uses \in [{o \in DOMAIN host : o.kind = "container"} -> SUBSET Objects]
    BY <1>1
  <2>3. apply \in [Deployment ->
          [pc : {"plan", "refused", "run", "done", "undo", "rolled"}, fresh : BOOLEAN,
           todo : Seq(Objects), journal : Seq(Objects), undo : Seq(Objects)]]
    BY <1>2 DEF Apply0
  <2>4. /\ lostWork \in [Deployment -> SUBSET Objects] /\ stuck \in [Deployment -> SUBSET Objects]
        /\ errors \in 0..MaxError
    BY DeployAssumption DEF DeployInit
  <2> QED BY <2>1, <2>2, <2>3, <2>4 DEF DeployTypeOK
<1>4. \A c \in DOMAIN uses : \A o \in uses[c] : ~IsContainer(o)
  BY <1>1
<1>5. ASSUME NEW d \in Deployment PROVE Consistent(d)
  <2>1. apply[d].pc = "plan"
    BY <1>2 DEF Apply0
  <2>2. \A o \in DOMAIN host : host[o] # d
    BY <1>1, DeployAssumption
  <2> QED BY <1>2, <2>1, <2>2 DEF Consistent, Traced
<1> QED BY <1>3, <1>4, <1>5 DEF DeployInv

\* What a step does not do to a deployment that is not its own.
Untouched(e) ==
  /\ apply'[e] = apply[e] /\ lostWork'[e] = lostWork[e] /\ stuck'[e] = stuck[e]
  /\ \A x \in DOMAIN host :
       host[x] = e /\ x.kind # "volume" => x \in DOMAIN host' /\ host'[x] = e
  /\ \A x \in DOMAIN host' : host'[x] = e => x \in DOMAIN host /\ host[x] = e
  /\ \A x \in DOMAIN host' : \/ x \in DOMAIN host /\ host'[x] = host[x]
                             \/ host'[x] \in Deployment

LEMMA OthersConsistent ==
  ASSUME DeployTypeOK, NEW e \in Deployment, Consistent(e), Untouched(e)
  PROVE  Consistent(e)'
<1> DEFINE a == apply[e]
<1>0. apply'[e] = a /\ lostWork'[e] = lostWork[e] /\ stuck'[e] = stuck[e]
  BY DEF Untouched
<1>1. ASSUME NEW o, Own(e, o), o.kind = "volume" \/ Present(o)
      PROVE  Own(e, o)' /\ (o.kind # "volume" => Present(o)')
  BY <1>1 DEF Own, Present, Untouched
<1>2. Traced(e)'
  BY <1>0 DEF Consistent, Traced, Untouched
<1>3. ASSUME a.pc = "run" PROVE ToMake(e)' /\ Made(e)'
  <2>1. ToMake(e) /\ Made(e)
    BY <1>3 DEF Consistent
  <2>2. ToMake(e)'
    BY <1>0, <1>1, <2>1 DEF ToMake
  <2>3. Made(e)'
    BY <1>0, <1>1, <2>1 DEF Made
  <2> QED BY <2>2, <2>3
<1>4. ASSUME a.pc = "undo" PROVE ToRemove(e)'
  <2>1. ToRemove(e)
    BY <1>4 DEF Consistent
  <2> QED BY <1>0, <1>1, <2>1 DEF ToRemove
<1>5. (a.pc = "rolled" => a.undo = <<>>) /\ (a.pc = "plan" => a = Apply0)
  BY DEF Consistent
<1> QED BY <1>0, <1>2, <1>3, <1>4, <1>5 DEF Consistent

\* The beginning of a rollback: all that was made is to be removed, containers first.
LEMMA AbortConsistent ==
  ASSUME DeployTypeOK, NEW d \in Deployment, Consistent(d), apply[d].pc = "run", Abort(d),
         lostWork[d] \subseteq lostWork'[d],
         \A x \in DOMAIN host : x \in DOMAIN host' /\ host'[x] = host[x],
         \A x \in DOMAIN host' \ DOMAIN host : host'[x] = d /\ x \in lostWork'[d]
  PROVE  Consistent(d)'
<1> DEFINE j == apply[d].journal
<1>1. j \in Seq(Objects)
  BY DEF DeployTypeOK
<1>2. Made(d) /\ Traced(d)
  BY DEF Consistent
<1>3. apply'[d].pc = "undo" /\ apply'[d].undo = Undo(j) /\ apply'[d].journal = j
  BY DEF Abort, DeployTypeOK
<1>4. ContainersLast(j) /\ NotTwice(j)
  BY <1>2 DEF Made
<1>5. Range(Undo(j)) = Range(j) /\ ContainersFirst(Undo(j)) /\ NotTwice(Undo(j))
  <2> HIDE DEF j
  <2> QED BY <1>1, <1>4, UndoOrder
<1>6. ASSUME NEW o \in Range(j)
      PROVE  /\ Own(d, o)'
             /\ IF o.kind = "volume" THEN o \in Range(VolsOf(d)) ELSE Present(o)'
  BY <1>2, <1>6 DEF Made, Own, Present
<1>7. ToRemove(d)'
  BY <1>3, <1>5, <1>6 DEF ToRemove
<1>8. ASSUME NEW x \in DOMAIN host', host'[x] = d
      PROVE  x \in Range(apply'[d].undo) \cup lostWork'[d]
  BY <1>2, <1>3, <1>5, <1>8 DEF Traced
<1>9. Traced(d)'
  BY <1>3, <1>8 DEF Traced
<1> QED BY <1>3, <1>7, <1>9 DEF Consistent

ApplyRec == [pc : {"plan", "refused", "run", "done", "undo", "rolled"}, fresh : BOOLEAN,
             todo : Seq(Objects), journal : Seq(Objects), undo : Seq(Objects)]

LEMMA AbortTyped ==
  ASSUME DeployTypeOK, NEW d \in Deployment, Abort(d)
  PROVE  apply' \in [Deployment -> ApplyRec]
<1>1. apply[d].journal \in Seq(Objects) /\ apply \in [Deployment -> ApplyRec]
  BY DEF DeployTypeOK, ApplyRec
<1>2. Undo(apply[d].journal) \in Seq(Objects)
  BY <1>1 DEF Undo, Reverse
<1> QED BY <1>1, <1>2 DEF Abort, ApplyRec

LEMMA PlanTyped ==
  ASSUME NEW d \in Deployment
  PROVE  Missing(NetsOf(d)) \o Missing(VolsOf(d)) \o CtrsOf(d) \in Seq(Objects)
<1>1. /\ Missing(NetsOf(d)) \in Seq({o \in OfKind("network") : ~Present(o)})
      /\ Missing(VolsOf(d)) \in Seq({o \in OfKind("volume") : ~Present(o)})
      /\ CtrsOf(d) \in Seq(OfKind("container"))
  BY StepsTyped, MissingOnly
<1>2. ASSUME NEW s, NEW k, s \in Seq({o \in OfKind(k) : ~Present(o)}) PROVE s \in Seq(Objects)
  BY <1>2 DEF OfKind
<1>3. CtrsOf(d) \in Seq(Objects)
  BY <1>1 DEF OfKind
<1>4. Missing(NetsOf(d)) \in Seq(Objects) /\ Missing(VolsOf(d)) \in Seq(Objects)
  BY <1>1, <1>2
<1> QED BY <1>3, <1>4

\* Docker's part of the types.
HostTyped(h, u) ==
  /\ h \in [DOMAIN h -> Deployment \cup {"user"}] /\ DOMAIN h \subseteq Objects \cup Existing
  /\ u \in [{o \in DOMAIN h : o.kind = "container"} -> SUBSET Objects]
  /\ \A c \in DOMAIN u : \A o \in u[c] : ~IsContainer(o)

LEMMA MakeTyped ==
  ASSUME HostTyped(host, uses), NEW d \in Deployment, NEW o \in Objects, CanMake(o), MakeObject(d, o)
  PROVE  HostTyped(host', uses')
<1>0. Makes(d, o) \subseteq Objects
  BY KindsOf DEF Makes
<1>1. /\ host' \in [DOMAIN host \cup Makes(d, o) -> Deployment \cup {"user"}]
      /\ DOMAIN host' = DOMAIN host \cup Makes(d, o)
  BY DEF HostTyped, MakeObject, Present
<1>2. DOMAIN host' \subseteq Objects \cup Existing
  BY <1>0, <1>1 DEF HostTyped
<1>3. CASE o.kind = "container"
  <2>1. uses' = [x \in DOMAIN uses \cup {o} |-> IF x = o THEN Range(VolsOf(d)) ELSE uses[x]]
    BY <1>3 DEF MakeObject
  <2>2. DOMAIN uses \cup {o} = {x \in DOMAIN host' : x.kind = "container"}
    <3>1. \A x \in Makes(d, o) : x = o \/ x.kind = "volume"
      BY KindsOf DEF Makes
    <3>2. o \in DOMAIN host'
      BY <1>1 DEF Makes, Present
    <3> QED BY <1>1, <1>3, <3>1, <3>2 DEF HostTyped
  <2>3. Range(VolsOf(d)) \in SUBSET Objects /\ \A x \in Range(VolsOf(d)) : ~IsContainer(x)
    BY KindsOf DEF IsContainer
  <2>4. uses' \in [{x \in DOMAIN host' : x.kind = "container"} -> SUBSET Objects]
    BY <2>1, <2>2, <2>3 DEF HostTyped
  <2>5. \A c \in DOMAIN uses' : \A x \in uses'[c] : ~IsContainer(x)
    BY <2>1, <2>3 DEF HostTyped
  <2> QED BY <1>1, <1>2, <2>4, <2>5 DEF HostTyped
<1>4. CASE o.kind # "container"
  <2>1. uses' = uses
    BY <1>4 DEF MakeObject
  <2>2. {x \in DOMAIN host : x.kind = "container"} = {x \in DOMAIN host' : x.kind = "container"}
    BY <1>1, <1>4 DEF Makes
  <2> QED BY <1>1, <1>2, <2>1, <2>2 DEF HostTyped
<1> QED BY <1>3, <1>4

LEMMA HoldTyped ==
  ASSUME HostTyped(host, uses), NEW d \in Deployment, Hold(d), UNCHANGED host
  PROVE  HostTyped(host', uses')
<1>1. Range(NetsOf(d)) \in SUBSET Objects /\ \A x \in Range(NetsOf(d)) : ~IsContainer(x)
  BY KindsOf DEF IsContainer
<1>2. DOMAIN uses' = DOMAIN uses /\ \A c \in DOMAIN uses : uses'[c] \subseteq uses[c] \cup Range(NetsOf(d))
  BY DEF Hold, HostTyped
<1>3. uses' \in [DOMAIN uses -> SUBSET Objects]
  <2>1. uses' = [c \in DOMAIN uses |-> uses'[c]]
    BY DEF Hold, HostTyped
  <2>2. \A c \in DOMAIN uses : uses'[c] \in SUBSET Objects
    BY <1>1, <1>2 DEF HostTyped
  <2> QED BY <2>1, <2>2
<1>4. \A c \in DOMAIN uses' : \A x \in uses'[c] : ~IsContainer(x)
  BY <1>1, <1>2 DEF HostTyped
<1> QED BY <1>2, <1>3, <1>4 DEF HostTyped

LEMMA GoneTyped ==
  ASSUME HostTyped(host, uses), NEW o, host' = Gone(host, o), uses' = Gone(uses, o)
  PROVE  HostTyped(host', uses')
<1>1. /\ host' \in [DOMAIN host \ {o} -> Deployment \cup {"user"}] /\ DOMAIN host' = DOMAIN host \ {o}
  BY DEF Gone, HostTyped
<1>2. /\ uses' \in [DOMAIN uses \ {o} -> SUBSET Objects] /\ DOMAIN uses' = DOMAIN uses \ {o}
      /\ \A c \in DOMAIN uses' : uses'[c] = uses[c]
  BY DEF Gone, HostTyped
<1>3. DOMAIN uses \ {o} = {x \in DOMAIN host' : x.kind = "container"}
  BY <1>1 DEF HostTyped
<1> QED BY <1>1, <1>2, <1>3 DEF HostTyped

LEMMA DeployTypeStep ==
  ASSUME DeployInv, NEW d \in Deployment,
         \/ MakePlan(d) \/ CreateObject(d) \/ StartContainer(d) \/ Deployed(d)
         \/ UndoObject(d) \/ RolledBack(d)
  PROVE  DeployTypeOK' /\ \A c \in DOMAIN uses' : \A o \in uses'[c] : ~IsContainer(o)
<1>0. /\ HostTyped(host, uses) /\ apply \in [Deployment -> ApplyRec]
      /\ lostWork \in [Deployment -> SUBSET Objects] /\ stuck \in [Deployment -> SUBSET Objects]
      /\ errors \in 0..MaxError /\ DeployTypeOK
  BY DEF DeployInv, DeployTypeOK, HostTyped, ApplyRec
<1>1. SUFFICES /\ HostTyped(host', uses') /\ apply' \in [Deployment -> ApplyRec]
               /\ lostWork' \in [Deployment -> SUBSET Objects] /\ stuck' \in [Deployment -> SUBSET Objects]
               /\ errors' \in 0..MaxError
  BY DEF DeployTypeOK, HostTyped, ApplyRec
<1>2. CallFails => errors' \in 0..MaxError
  BY <1>0, DeployAssumption DEF CallFails
<1>3. apply[d] \in ApplyRec
  BY <1>0
<1>4. ASSUME NEW S \in SUBSET Objects
      PROVE  /\ [lostWork EXCEPT ![d] = @ \cup S] \in [Deployment -> SUBSET Objects]
             /\ [stuck EXCEPT ![d] = @ \cup S] \in [Deployment -> SUBSET Objects]
  BY <1>0
<1>5. CASE MakePlan(d)
  <2> DEFINE plan == Missing(NetsOf(d)) \o Missing(VolsOf(d)) \o CtrsOf(d)
  <2>1. plan \in Seq(Objects)
    BY PlanTyped
  <2> HIDE DEF plan
  <2>2. UNCHANGED <<host, uses, lostWork, stuck>> /\ errors' \in 0..MaxError
    BY <1>0, <1>2, <1>5 DEF MakePlan
  <2>3. \/ apply' = [apply EXCEPT ![d].pc = "refused"]
        \/ apply' = [apply EXCEPT ![d].pc = "run", ![d].todo = plan]
    BY <1>5 DEF MakePlan, plan
  <2>4. apply' \in [Deployment -> ApplyRec]
    <3>1. CASE apply' = [apply EXCEPT ![d].pc = "refused"]
      BY <1>0, <3>1 DEF ApplyRec
    <3>2. CASE apply' = [apply EXCEPT ![d].pc = "run", ![d].todo = plan]
      BY <1>0, <1>3, <2>1, <3>2 DEF ApplyRec
    <3> QED BY <2>3, <3>1, <3>2
  <2> QED BY <1>0, <2>2, <2>4
<1>6. CASE CreateObject(d)
  <2> DEFINE o == Head(apply[d].todo)
  <2>1. apply[d].todo \in Seq(Objects) /\ apply[d].todo # <<>> /\ apply[d].journal \in Seq(Objects)
    BY <1>3, <1>6 DEF ApplyRec, CreateObject
  <2>2. o \in Objects /\ Tail(apply[d].todo) \in Seq(Objects)
    BY <2>1, HeadTail
  <2>3. Append(apply[d].journal, o) \in Seq(Objects)
    BY <2>1, <2>2
  <2>4. stuck' = stuck /\ errors' \in 0..MaxError
    BY <1>0, <1>2, <1>6 DEF CreateObject
  <2>5. \/ lostWork' = lostWork \/ lostWork' = [lostWork EXCEPT ![d] = @ \cup Makes(d, o)]
        \/ lostWork' = [lostWork EXCEPT ![d] = @ \cup (Makes(d, o) \ {o})]
    BY <1>6 DEF CreateObject
  <2>6. \/ Abort(d)
        \/ apply' = [apply EXCEPT ![d].todo = Tail(@), ![d].journal = Append(@, o),
                                  ![d].fresh = (o.kind = "container")]
    BY <1>6 DEF CreateObject
  <2>7. (CanMake(o) /\ MakeObject(d, o)) \/ UNCHANGED <<host, uses>>
    BY <1>6 DEF CreateObject
  <2> HIDE DEF o
  <2>8. HostTyped(host', uses')
    BY <1>0, <2>2, <2>7, MakeTyped
  <2>9. apply' \in [Deployment -> ApplyRec]
    <3>1. CASE Abort(d)
      BY <1>0, <3>1, AbortTyped
    <3>2. CASE apply' = [apply EXCEPT ![d].todo = Tail(@), ![d].journal = Append(@, o),
                                  ![d].fresh = (o.kind = "container")]
      BY <1>0, <1>3, <2>2, <2>3, <3>2 DEF ApplyRec
    <3> QED BY <2>6, <3>1, <3>2
  <2>10. lostWork' \in [Deployment -> SUBSET Objects]
    <3>1. Makes(d, o) \in SUBSET Objects /\ Makes(d, o) \ {o} \in SUBSET Objects
      BY <2>2, KindsOf DEF Makes
    <3> QED BY <1>0, <1>4, <2>5, <3>1
  <2> QED BY <1>0, <2>4, <2>8, <2>9, <2>10
<1>7. CASE StartContainer(d)
  <2>1. UNCHANGED <<host, lostWork, stuck>> /\ errors' \in 0..MaxError
    BY <1>0, <1>2, <1>7 DEF StartContainer
  <2>2. Hold(d) \/ UNCHANGED uses
    BY <1>7 DEF StartContainer
  <2>3. Abort(d) \/ apply' = [apply EXCEPT ![d].fresh = FALSE]
    BY <1>7 DEF StartContainer
  <2>4. apply' \in [Deployment -> ApplyRec]
    <3>1. CASE Abort(d)
      BY <1>0, <3>1, AbortTyped
    <3>2. CASE apply' = [apply EXCEPT ![d].fresh = FALSE]
      BY <1>0, <3>2 DEF ApplyRec
    <3> QED BY <2>3, <3>1, <3>2
  <2> QED BY <1>0, <2>1, <2>2, <2>4, HoldTyped
<1>8. CASE Deployed(d)
  BY <1>0, <1>8 DEF Deployed, ApplyRec
<1>9. CASE RolledBack(d)
  BY <1>0, <1>9 DEF RolledBack, ApplyRec
<1>10. CASE UndoObject(d)
  <2> DEFINE o == Head(apply[d].undo)
  <2>1. apply[d].undo \in Seq(Objects) /\ apply[d].undo # <<>>
    BY <1>3, <1>10 DEF ApplyRec, UndoObject
  <2>2. o \in Objects /\ Tail(apply[d].undo) \in Seq(Objects)
    BY <2>1, HeadTail
  <2>3. lostWork' = lostWork /\ errors' \in 0..MaxError
    BY <1>0, <1>2, <1>10 DEF UndoObject
  <2>4. stuck' = stuck \/ stuck' = [stuck EXCEPT ![d] = @ \cup {o}]
    BY <1>10 DEF UndoObject
  <2>5. apply' = [apply EXCEPT ![d].undo = Tail(@)]
    BY <1>10 DEF UndoObject
  <2>6. apply' \in [Deployment -> ApplyRec]
    BY <1>0, <1>3, <2>2, <2>5 DEF ApplyRec
  <2>7. (host' = Gone(host, o) /\ uses' = Gone(uses, o)) \/ UNCHANGED <<host, uses>>
    BY <1>10 DEF UndoObject
  <2> HIDE DEF o
  <2>8. HostTyped(host', uses')
    BY <1>0, <2>7, GoneTyped
  <2>9. stuck' \in [Deployment -> SUBSET Objects]
    <3>1. {o} \in SUBSET Objects
      BY <2>2
    <3> QED BY <1>0, <1>4, <2>4, <3>1
  <2> QED BY <1>0, <2>3, <2>6, <2>8, <2>9
<1> QED BY <1>5, <1>6, <1>7, <1>8, <1>9, <1>10

LEMMA PlanConsistent ==
  ASSUME DeployInv, NEW d \in Deployment, MakePlan(d)
  PROVE  Consistent(d)' /\ \A e \in Deployment \ {d} : Untouched(e)
<1>0. DeployTypeOK /\ Consistent(d)
  BY DEF DeployInv
<1> DEFINE nets == Missing(NetsOf(d))
           vols == Missing(VolsOf(d))
           ctrs == CtrsOf(d)
           plan == nets \o vols \o ctrs
<1>1. UNCHANGED <<host, uses, lostWork, stuck>> /\ apply[d].pc = "plan"
  BY DEF MakePlan
<1>2. \A e \in Deployment \ {d} : apply'[e] = apply[e]
  BY <1>0 DEF MakePlan, DeployTypeOK
<1>3. \A e \in Deployment \ {d} : Untouched(e)
  BY <1>1, <1>2 DEF Untouched
<1>4. \A o \in DOMAIN host : host[o] # d
  BY <1>0, <1>1 DEF Consistent, Traced
<1>5. Traced(d)'
  BY <1>1, <1>4 DEF Traced
<1>6. CASE apply' = [apply EXCEPT ![d].pc = "refused"]
  <2>1. apply'[d].pc = "refused"
    BY <1>0, <1>6 DEF DeployTypeOK
  <2> QED BY <1>3, <1>5, <2>1 DEF Consistent
<1>7. CASE apply' = [apply EXCEPT ![d].pc = "run", ![d].todo = plan]
  <2>1. apply'[d].pc = "run" /\ apply'[d].todo = plan
    BY <1>0, <1>7 DEF DeployTypeOK
  <2>2. apply'[d].journal = <<>> /\ apply'[d].fresh = FALSE
    <3>1. apply[d] = Apply0
      BY <1>0, <1>1 DEF Consistent
    <3>2. apply'[d].journal = apply[d].journal /\ apply'[d].fresh = apply[d].fresh
      BY <1>0, <1>7 DEF DeployTypeOK
    <3> QED BY <3>1, <3>2 DEF Apply0
  <2> DEFINE N == {o \in Objects : o.kind = "network"}
             V == {o \in Range(VolsOf(d)) : ~Present(o)}
  <2>3. nets \in Seq(N) /\ vols \in Seq(V) /\ ctrs \in Seq(OfKind("container"))
    <3>1. nets \in Seq({o \in OfKind("network") : ~Present(o)})
      BY StepsTyped, MissingOnly
    <3>2. VolsOf(d) \in Seq(Range(VolsOf(d)))
      BY StepsTyped DEF Range
    <3>3. vols \in Seq(V)
      <4> DEFINE S == Range(VolsOf(d))
      <4> HIDE DEF S
      <4>1. VolsOf(d) \in Seq(S)
        BY <3>2 DEF S
      <4>2. vols \in Seq({o \in S : ~Present(o)})
        BY <4>1, MissingOnly
      <4> QED BY <4>2 DEF S
    <3>4. nets \in Seq(N)
      <4> HIDE DEF nets
      <4> QED BY <3>1 DEF OfKind
    <3> QED BY <3>3, <3>4, StepsTyped
  <2>4. /\ \A i \in 1..Len(nets) : nets[i] \in N
        /\ \A i \in 1..Len(vols) : vols[i] \in V
        /\ \A i \in 1..Len(ctrs) : ctrs[i].kind = "container"
        /\ Len(nets) \in Nat /\ Len(vols) \in Nat /\ Len(ctrs) \in Nat
    <3> HIDE DEF N, V, nets, vols, ctrs
    <3> QED BY <2>3 DEF OfKind
  <2> DEFINE m == Len(nets) + Len(vols)
  <2>5. /\ Len(plan) = m + Len(ctrs)
        /\ \A i \in 1..Len(plan) :
             \/ i <= Len(nets) /\ plan[i] = nets[i]
             \/ Len(nets) < i /\ i <= m /\ plan[i] = vols[i - Len(nets)]
             \/ m < i /\ plan[i] = ctrs[i - m]
    <3> HIDE DEF nets, vols, ctrs, N, V
    <3>1. nets \in Seq(N \cup V \cup OfKind("container")) /\ vols \in Seq(N \cup V \cup OfKind("container"))
          /\ ctrs \in Seq(N \cup V \cup OfKind("container"))
      BY <2>3
    <3> QED BY <3>1
  <2> HIDE DEF plan, nets, vols, ctrs
  <2>6. \A i \in 1..Len(plan) :
          \/ i <= m /\ plan[i] \in N
          \/ i <= m /\ plan[i] \in V
          \/ m < i /\ plan[i].kind = "container"
    <3> TAKE i \in 1..Len(plan)
    <3> HIDE DEF N, V
    <3>1. CASE i <= Len(nets) /\ plan[i] = nets[i]
      BY <2>4, <3>1
    <3>2. CASE Len(nets) < i /\ i <= m /\ plan[i] = vols[i - Len(nets)]
      <4>1. i - Len(nets) \in 1..Len(vols)
        BY <2>4, <3>2
      <4> QED BY <2>4, <3>2, <4>1
    <3>3. CASE m < i /\ plan[i] = ctrs[i - m]
      <4>1. i - m \in 1..Len(ctrs)
        BY <2>4, <2>5, <3>3
      <4> QED BY <2>4, <3>3, <4>1
    <3> QED BY <2>5, <3>1, <3>2, <3>3
  <2>7. \A o \in V : o.kind = "volume"
    BY KindsOf
  <2>8. ContainersLast(plan)
    <3> SUFFICES ASSUME NEW i \in 1..Len(plan), NEW j \in 1..Len(plan), i < j, IsContainer(plan[i])
                 PROVE  IsContainer(plan[j])
      BY DEF ContainersLast
    <3>1. m < i
      BY <2>6, <2>7 DEF IsContainer
    <3>2. ~(j <= m)
      BY <2>4, <3>1
    <3> QED BY <2>6, <3>2 DEF IsContainer
  <2>9. ASSUME NEW o \in Range(plan), o.kind = "volume" PROVE o \in Range(VolsOf(d)) /\ ~Present(o)
    <3>1. plan \in Seq(Objects)
      BY PlanTyped DEF plan, nets, vols, ctrs
    <3>2. PICK i \in 1..Len(plan) : o = plan[i]
      BY <3>1, RangeOf
    <3> QED BY <2>6, <2>9, <3>2
  <2>10. Range(apply'[d].journal) = {}
    BY <2>2 DEF Range
  <2>11. ToMake(d)'
    BY <1>1, <2>1, <2>8, <2>9, <2>10 DEF ToMake, Own, Present
  <2>12. Made(d)'
    BY <2>2, <2>10 DEF Made, ContainersLast, NotTwice
  <2> QED BY <1>3, <1>5, <2>1, <2>11, <2>12 DEF Consistent
<1> QED BY <1>6, <1>7 DEF MakePlan

LEMMA CreateConsistent ==
  ASSUME DeployInv, NEW d \in Deployment, CreateObject(d)
  PROVE  Consistent(d)' /\ \A e \in Deployment \ {d} : Untouched(e)
<1> DEFINE a == apply[d]
           o == Head(a.todo)
<1>0. DeployTypeOK /\ Consistent(d)
  BY DEF DeployInv
<1>1. /\ a.pc = "run" /\ a.todo # <<>> /\ a.todo \in Seq(Objects) /\ a.journal \in Seq(Objects)
      /\ ToMake(d) /\ Made(d) /\ Traced(d)
  BY <1>0 DEF CreateObject, Consistent, DeployTypeOK
<1>2. /\ o = a.todo[1] /\ o \in Objects /\ Tail(a.todo) \in Seq(Objects)
      /\ Len(Tail(a.todo)) = Len(a.todo) - 1 /\ Len(a.todo) \in Nat /\ Len(a.todo) >= 1
      /\ \A i \in 1..(Len(a.todo) - 1) : Tail(a.todo)[i] = a.todo[i + 1]
      /\ Range(a.todo) = {o} \cup Range(Tail(a.todo))
  <2> DEFINE s == a.todo
  <2>1. s \in Seq(Objects) /\ s # <<>>
    BY <1>1
  <2> HIDE DEF s
  <2>2. /\ Head(s) = s[1] /\ Head(s) \in Objects /\ Tail(s) \in Seq(Objects)
        /\ Len(Tail(s)) = Len(s) - 1 /\ Len(s) \in Nat /\ Len(s) >= 1
        /\ \A i \in 1..(Len(s) - 1) : Tail(s)[i] = s[i + 1]
        /\ Range(s) = {Head(s)} \cup Range(Tail(s))
    BY <2>1, HeadTail
  <2> QED BY <2>2 DEF s
<1>3. /\ stuck' = stuck /\ \A e \in Deployment \ {d} : apply'[e] = apply[e] /\ lostWork'[e] = lostWork[e]
  BY <1>0 DEF CreateObject, Abort, DeployTypeOK
<1>4. o.kind = "volume" => o \in Range(VolsOf(d)) /\ Own(d, o)
  BY <1>1, <1>2 DEF ToMake
<1>5. ASSUME CanMake(o), MakeObject(d, o)
      PROVE  /\ DOMAIN host' = DOMAIN host \cup Makes(d, o) /\ o \in DOMAIN host'
             /\ \A x \in DOMAIN host : host'[x] = host[x]
             /\ \A x \in DOMAIN host' \ DOMAIN host : host'[x] = d /\ x \in Makes(d, o)
  BY <1>5 DEF MakeObject, Makes, Present
<1>6. \/ UNCHANGED host
      \/ /\ DOMAIN host \subseteq DOMAIN host'
         /\ \A x \in DOMAIN host : host'[x] = host[x]
         /\ \A x \in DOMAIN host' \ DOMAIN host : host'[x] = d
  <2>1. (CanMake(o) /\ MakeObject(d, o)) \/ UNCHANGED host
    BY DEF CreateObject
  <2> QED BY <1>5, <2>1
<1>7. ASSUME NEW e \in Deployment, e # d PROVE Untouched(e)
  <2>1. /\ \A x \in DOMAIN host : x \in DOMAIN host' /\ host'[x] = host[x]
        /\ \A x \in DOMAIN host' : host'[x] = e => x \in DOMAIN host /\ host[x] = e
        /\ \A x \in DOMAIN host' : \/ x \in DOMAIN host /\ host'[x] = host[x]
                                   \/ host'[x] \in Deployment
    BY <1>6, <1>7
  <2> QED BY <1>3, <1>7, <2>1 DEF Untouched
<1>8. ASSUME Abort(d),
             \/ lostWork' = lostWork /\ UNCHANGED host
             \/ CanMake(o) /\ MakeObject(d, o) /\ lostWork' = [lostWork EXCEPT ![d] = @ \cup Makes(d, o)]
      PROVE  Consistent(d)'
  <2>1. /\ lostWork[d] \subseteq lostWork'[d]
        /\ \A x \in DOMAIN host : x \in DOMAIN host' /\ host'[x] = host[x]
        /\ \A x \in DOMAIN host' \ DOMAIN host : host'[x] = d /\ x \in lostWork'[d]
    <3>1. CASE lostWork' = lostWork /\ UNCHANGED host
      BY <3>1
    <3>2. CASE CanMake(o) /\ MakeObject(d, o) /\ lostWork' = [lostWork EXCEPT ![d] = @ \cup Makes(d, o)]
      <4>1. lostWork'[d] = lostWork[d] \cup Makes(d, o)
        BY <1>0, <3>2 DEF DeployTypeOK
      <4> HIDE DEF o
      <4> QED BY <1>5, <3>2, <4>1
    <3> QED BY <1>8, <3>1, <3>2
  <2> QED BY <1>0, <1>1, <1>8, <2>1, AbortConsistent
<1>9. ASSUME CanMake(o), MakeObject(d, o),
             lostWork' = [lostWork EXCEPT ![d] = @ \cup (Makes(d, o) \ {o})],
             apply' = [apply EXCEPT ![d].todo = Tail(@), ![d].journal = Append(@, o),
                                    ![d].fresh = (o.kind = "container")]
      PROVE  Consistent(d)'
  <2> DEFINE j == a.journal
             jj == Append(j, o)
  <2>1. apply'[d].pc = "run" /\ apply'[d].todo = Tail(a.todo) /\ apply'[d].journal = jj
    BY <1>0, <1>1, <1>9 DEF DeployTypeOK
  <2>2. /\ Len(jj) = Len(j) + 1 /\ Len(j) \in Nat /\ jj[Len(j) + 1] = o
        /\ \A i \in 1..Len(j) : jj[i] = j[i]
        /\ Range(jj) = Range(j) \cup {o} /\ \A i \in 1..Len(j) : j[i] \in Range(j)
    <3>1. j \in Seq(Objects) /\ o \in Objects
      BY <1>1, <1>2
    <3> HIDE DEF j, o
    <3>2. \A i \in 1..Len(j) : j[i] \in Range(j)
      BY <3>1, RangeOf
    <3> QED BY <3>1, <3>2, AppendRange
  <2>3. /\ o \in DOMAIN host' /\ DOMAIN host \subseteq DOMAIN host'
        /\ \A x \in DOMAIN host : host'[x] = host[x]
        /\ \A x \in DOMAIN host' \ DOMAIN host : host'[x] = d /\ x \in Makes(d, o)
    BY <1>5, <1>9
  <2>4. /\ ContainersLast(j) /\ NotTwice(j)
        /\ \A x \in Range(j) :
             Own(d, x) /\ IF x.kind = "volume" THEN x \in Range(VolsOf(d)) ELSE Present(x)
    BY <1>1 DEF Made
  <2>5. /\ ContainersLast(a.todo)
        /\ (\E x \in Range(j) : IsContainer(x)) => \A x \in Range(a.todo) : IsContainer(x)
        /\ \A x \in Range(a.todo) : x.kind = "volume" => x \in Range(VolsOf(d)) /\ Own(d, x)
    BY <1>1 DEF ToMake
  <2>6. \A x : Own(d, x) => Own(d, x)'
    <3> HIDE DEF o
    <3> QED BY <2>3 DEF Own, Present
  <2>8. CanMake(o)
    BY <1>9
  <2>7. \A x : /\ x = o => Present(x)' /\ Own(d, x)'
               /\ Present(x) => Present(x)'
    <3> HIDE DEF o
    <3> QED BY <1>4, <2>3, <2>6, <2>8 DEF Present, Own, CanMake
  <2> HIDE DEF o, jj, j
  <2>9. Traced(d)'
    <3>0. lostWork'[d] = lostWork[d] \cup (Makes(d, o) \ {o})
      BY <1>0, <1>9 DEF DeployTypeOK, o
    <3>1. ASSUME NEW x \in DOMAIN host', host'[x] = d PROVE x \in Range(jj) \cup lostWork'[d]
      <4>1. CASE x = o
        BY <2>2, <4>1
      <4>2. CASE x # o /\ x \in DOMAIN host
        BY <1>1, <2>2, <2>3, <3>0, <3>1, <4>2 DEF Traced, j
      <4>3. CASE x # o /\ x \notin DOMAIN host
        BY <2>3, <3>0, <4>3
      <4> QED BY <4>1, <4>2, <4>3
    <3> QED BY <2>1, <3>1 DEF Traced
  <2>10. ToMake(d)'
    <3> DEFINE s == a.todo
               t == Tail(a.todo)
    <3>1. /\ Len(t) = Len(s) - 1 /\ Len(s) \in Nat /\ Len(s) >= 1 /\ o = s[1]
          /\ \A i \in 1..(Len(s) - 1) : t[i] = s[i + 1]
          /\ Range(s) = {o} \cup Range(t) /\ t \in Seq(Objects)
      BY <1>2 DEF o
    <3>2. ContainersLast(s)
      BY <2>5
    <3> HIDE DEF s, t, a
    <3>3. ContainersLast(t)
      <4> SUFFICES ASSUME NEW i \in 1..Len(t), NEW k \in 1..Len(t), i < k, IsContainer(t[i])
                   PROVE  IsContainer(t[k])
        BY DEF ContainersLast
      <4>1. i + 1 \in 1..Len(s) /\ k + 1 \in 1..Len(s) /\ i + 1 < k + 1
        BY <3>1
      <4>2. t[i] = s[i + 1] /\ t[k] = s[k + 1]
        BY <3>1
      <4> QED BY <3>2, <4>1, <4>2 DEF ContainersLast
    <3>4. ASSUME IsContainer(o), NEW x \in Range(t) PROVE IsContainer(x)
      <4>1. PICK i \in 1..Len(t) : x = t[i]
        BY <3>1, RangeOf
      <4>2. 1 \in 1..Len(s) /\ i + 1 \in 1..Len(s) /\ 1 < i + 1
        BY <3>1
      <4>3. t[i] = s[i + 1]
        BY <3>1
      <4> QED BY <3>1, <3>2, <3>4, <4>1, <4>2, <4>3 DEF ContainersLast
    <3>5. ASSUME NEW y \in Range(jj), IsContainer(y), NEW x \in Range(t) PROVE IsContainer(x)
      BY <2>2, <2>5, <3>1, <3>4, <3>5 DEF s
    <3>6. ASSUME NEW x \in Range(t), x.kind = "volume" PROVE x \in Range(VolsOf(d)) /\ Own(d, x)'
      BY <2>5, <2>6, <3>1, <3>6 DEF s
    <3>7. apply'[d].todo = t /\ apply'[d].journal = jj
      BY <2>1 DEF t
    <3> QED BY <3>3, <3>5, <3>6, <3>7 DEF ToMake
  <2>11. Made(d)'
    <3>1. ContainersLast(jj)
      <4> SUFFICES ASSUME NEW i \in 1..Len(jj), NEW k \in 1..Len(jj), i < k, IsContainer(jj[i])
                   PROVE  IsContainer(jj[k])
        BY DEF ContainersLast
      <4>1. i \in 1..Len(j)
        BY <2>2
      <4>2. CASE k \in 1..Len(j)
        BY <2>2, <2>4, <4>1, <4>2 DEF ContainersLast
      <4>3. CASE k = Len(j) + 1
        BY <1>2, <2>2, <2>5, <4>1, <4>3 DEF o
      <4> QED BY <2>2, <4>2, <4>3
    <3>2. NotTwice(jj)
      <4>1. ASSUME NEW i \in 1..Len(j), j[i] = o PROVE o.kind = "volume"
        BY <2>2, <2>4, <2>8, <4>1 DEF CanMake
      <4> SUFFICES ASSUME NEW i \in 1..Len(jj), NEW k \in 1..Len(jj), i # k, jj[i] = jj[k]
                   PROVE  jj[i].kind = "volume"
        BY DEF NotTwice
      <4>2. (i \in 1..Len(j) \/ i = Len(j) + 1) /\ (k \in 1..Len(j) \/ k = Len(j) + 1)
        BY <2>2
      <4>3. CASE i \in 1..Len(j) /\ k \in 1..Len(j)
        BY <2>2, <2>4, <4>3 DEF NotTwice
      <4>4. CASE i \in 1..Len(j) /\ k = Len(j) + 1
        BY <2>2, <4>1, <4>4
      <4>5. CASE i = Len(j) + 1 /\ k \in 1..Len(j)
        BY <2>2, <4>1, <4>5
      <4> QED BY <4>2, <4>3, <4>4, <4>5
    <3>3. ASSUME NEW x \in Range(jj)
          PROVE  /\ Own(d, x)'
                 /\ IF x.kind = "volume" THEN x \in Range(VolsOf(d)) ELSE Present(x)'
      BY <1>4, <2>2, <2>4, <2>6, <2>7, <3>3 DEF o
    <3>4. jj # <<>>
      BY <2>2
    <3> QED BY <2>1, <3>1, <3>2, <3>3, <3>4 DEF Made
  <2> QED BY <2>1, <2>9, <2>10, <2>11 DEF Consistent
<1>10. Consistent(d)'
  <2>1. \/ /\ CanMake(o) /\ MakeObject(d, o)
           /\ lostWork' = [lostWork EXCEPT ![d] = @ \cup (Makes(d, o) \ {o})]
           /\ apply' = [apply EXCEPT ![d].todo = Tail(@), ![d].journal = Append(@, o),
                                     ![d].fresh = (o.kind = "container")]
        \/ /\ CanMake(o) /\ MakeObject(d, o) /\ Abort(d)
           /\ lostWork' = [lostWork EXCEPT ![d] = @ \cup Makes(d, o)]
        \/ Abort(d) /\ UNCHANGED <<host, lostWork>>
    BY DEF CreateObject
  <2> HIDE DEF o
  <2> QED BY <1>8, <1>9, <2>1
<1> QED BY <1>7, <1>10

LEMMA StartConsistent ==
  ASSUME DeployInv, NEW d \in Deployment, StartContainer(d)
  PROVE  Consistent(d)' /\ \A e \in Deployment \ {d} : Untouched(e)
<1>0. DeployTypeOK /\ Consistent(d)
  BY DEF DeployInv
<1>1. /\ UNCHANGED <<host, lostWork, stuck>> /\ apply[d].pc = "run"
      /\ \A e \in Deployment \ {d} : apply'[e] = apply[e]
  BY <1>0 DEF StartContainer, Abort, DeployTypeOK
<1>2. \A e \in Deployment \ {d} : Untouched(e)
  BY <1>1 DEF Untouched
<1>3. CASE Abort(d)
  BY <1>0, <1>1, <1>2, <1>3, AbortConsistent
<1>4. CASE apply' = [apply EXCEPT ![d].fresh = FALSE]
  <2>1. /\ apply'[d].pc = "run" /\ apply'[d].todo = apply[d].todo
        /\ apply'[d].journal = apply[d].journal /\ apply'[d].fresh = FALSE
    BY <1>0, <1>1, <1>4 DEF DeployTypeOK
  <2>2. ToMake(d) /\ Made(d) /\ Traced(d)
    BY <1>0, <1>1 DEF Consistent
  <2>3. ToMake(d)'
    BY <1>1, <2>1, <2>2 DEF ToMake, Own, Present
  <2>4. Made(d)'
    BY <1>1, <2>1, <2>2 DEF Made, Own, Present
  <2>5. Traced(d)'
    BY <1>1, <2>1, <2>2 DEF Traced
  <2> QED BY <1>2, <2>1, <2>3, <2>4, <2>5 DEF Consistent
<1> QED BY <1>3, <1>4 DEF StartContainer

LEMMA EndConsistent ==
  ASSUME DeployInv, NEW d \in Deployment, Deployed(d) \/ RolledBack(d)
  PROVE  Consistent(d)' /\ \A e \in Deployment \ {d} : Untouched(e)
<1>0. DeployTypeOK /\ Consistent(d)
  BY DEF DeployInv
<1>1. /\ UNCHANGED <<host, lostWork, stuck>>
      /\ \A e \in Deployment \ {d} : apply'[e] = apply[e]
  BY <1>0 DEF Deployed, RolledBack, DeployTypeOK
<1>2. \A e \in Deployment \ {d} : Untouched(e)
  BY <1>1 DEF Untouched
<1>3. CASE Deployed(d)
  <2>1. apply'[d].pc = "done"
    BY <1>0, <1>3 DEF Deployed, DeployTypeOK
  <2> QED BY <1>2, <2>1 DEF Consistent, Traced
<1>4. CASE RolledBack(d)
  <2>1. /\ apply'[d].pc = "rolled" /\ apply'[d].undo = apply[d].undo /\ apply[d].undo = <<>>
        /\ apply[d].pc = "undo"
    BY <1>0, <1>4 DEF RolledBack, DeployTypeOK
  <2>2. Traced(d)'
    BY <1>0, <1>1, <2>1 DEF Consistent, Traced
  <2> QED BY <1>2, <2>1, <2>2 DEF Consistent
<1> QED BY <1>3, <1>4

\* A removal Docker refuses: a container that is not to be removed any more has the object.
LEMMA KeptForOthers ==
  ASSUME DeployInv, NEW d \in Deployment, apply[d].pc = "undo", apply[d].undo # <<>>,
         InUse(Head(apply[d].undo))
  PROVE  HeldByOthers(d, Head(apply[d].undo))
<1> DEFINE u == apply[d].undo
<1>0. DeployTypeOK /\ Consistent(d) /\ \A c \in DOMAIN uses : \A x \in uses[c] : ~IsContainer(x)
  BY DEF DeployInv
<1>1. PICK c \in DOMAIN uses : Head(u) \in uses[c]
  BY DEF InUse
<1>2. c \in DOMAIN host /\ IsContainer(c) /\ ~IsContainer(Head(u))
  BY <1>0, <1>1 DEF DeployTypeOK, IsContainer
<1>3. u \in Seq(Objects) /\ u # <<>> /\ ContainersFirst(u)
  BY <1>0 DEF DeployTypeOK, Consistent, ToRemove
<1>4. c \notin Range(u)
  <2> HIDE DEF u
  <2> SUFFICES ASSUME c \in Range(u) PROVE FALSE
    OBVIOUS
  <2>1. PICK i \in 1..Len(u) : c = u[i]
    BY <1>3, RangeOf
  <2>2. Head(u) = u[1] /\ Len(u) >= 1 /\ Len(u) \in Nat
    BY <1>3, HeadTail
  <2>3. i # 1
    BY <1>2, <2>1, <2>2
  <2>4. 1 \in 1..Len(u) /\ 1 < i
    BY <2>2, <2>3
  <2> QED BY <1>2, <1>3, <2>1, <2>2, <2>4 DEF ContainersFirst
<1>5. host[c] = d => c \in lostWork[d] \cup stuck[d]
  BY <1>0, <1>2, <1>4 DEF Consistent, Traced
<1> QED BY <1>1, <1>5 DEF HeldByOthers

LEMMA UndoConsistent ==
  ASSUME DeployInv, NEW d \in Deployment, UndoObject(d)
  PROVE  Consistent(d)' /\ \A e \in Deployment \ {d} : Untouched(e)
<1> DEFINE u == apply[d].undo
           o == Head(u)
<1>0. DeployTypeOK /\ Consistent(d)
  BY DEF DeployInv
<1>1. /\ apply[d].pc = "undo" /\ u # <<>> /\ u \in Seq(Objects) /\ ToRemove(d) /\ Traced(d)
  BY <1>0 DEF UndoObject, Consistent, DeployTypeOK
<1>2. /\ apply'[d].pc = "undo" /\ apply'[d].undo = Tail(u) /\ lostWork' = lostWork
      /\ apply'[d].journal = apply[d].journal
      /\ \A e \in Deployment \ {d} : apply'[e] = apply[e] /\ stuck'[e] = stuck[e]
  BY <1>0, <1>1 DEF UndoObject, DeployTypeOK
<1>3. /\ o = u[1] /\ o \in Range(u) /\ Tail(u) \in Seq(Objects)
      /\ Len(Tail(u)) = Len(u) - 1 /\ Len(u) \in Nat /\ Len(u) >= 1
      /\ \A i \in 1..(Len(u) - 1) : Tail(u)[i] = u[i + 1]
      /\ Range(u) = {o} \cup Range(Tail(u))
  <2> HIDE DEF u
  <2>1. u \in Seq(Objects) /\ u # <<>> /\ Len(u) \in Nat
    BY <1>1
  <2> QED BY <2>1, HeadTail
<1>4. Own(d, o)
  BY <1>1, <1>3 DEF ToRemove
<1>5. \/ UNCHANGED host /\ stuck'[d] = stuck[d] \cup {o}
      \/ DOMAIN host' = DOMAIN host \ {o} /\ stuck' = stuck /\ \A x \in DOMAIN host' : host'[x] = host[x]
  <2>1. ASSUME InUse(o) PROVE HeldByOthers(d, o)
    BY <1>1, <2>1, KeptForOthers
  <2>2. \/ host' = Gone(host, o) /\ stuck' = stuck
        \/ UNCHANGED host /\ stuck' = [stuck EXCEPT ![d] = @ \cup {o}]
    BY <2>1 DEF UndoObject
  <2> HIDE DEF o
  <2> QED BY <1>0, <2>2 DEF Gone, DeployTypeOK
<1> DEFINE t == Tail(u)
<1>6. /\ ContainersFirst(u) /\ NotTwice(u) /\ Range(u) \subseteq Range(apply[d].journal)
      /\ \A x \in Range(u) : /\ Own(d, x)
                             /\ IF x.kind = "volume" THEN x \in Range(VolsOf(d)) ELSE Present(x)
  BY <1>1 DEF ToRemove
<1>7. \A x \in DOMAIN host : host[x] = d => x \in Range(u) \cup lostWork[d] \cup stuck[d]
  BY <1>1 DEF Traced
<1>8. apply'[d].undo = t
  BY <1>2
<1>9. /\ o = u[1] /\ o \in Range(u) /\ t \in Seq(Objects)
      /\ Len(t) = Len(u) - 1 /\ Len(u) \in Nat /\ Len(u) >= 1
      /\ \A i \in 1..(Len(u) - 1) : t[i] = u[i + 1]
      /\ Range(u) = {o} \cup Range(t)
  BY <1>3
<1> HIDE DEF u, o, t
<1>10. \A e \in Deployment \ {d} : Untouched(e)
  BY <1>2, <1>4, <1>5 DEF Untouched, Own, Present
<1>11. Traced(d)'
  <2>1. ASSUME NEW x \in DOMAIN host', host'[x] = d PROVE x \in Range(t) \cup lostWork'[d] \cup stuck'[d]
    BY <1>2, <1>5, <1>7, <1>9, <2>1
  <2> QED BY <1>2, <1>8, <2>1 DEF Traced
<1>12. ToRemove(d)'
  <2>1. ASSUME NEW i \in 1..Len(t) PROVE t[i] = u[i + 1] /\ i + 1 \in 1..Len(u)
    BY <1>9
  <2>2. ContainersFirst(t)
    <3> SUFFICES ASSUME NEW i \in 1..Len(t), NEW k \in 1..Len(t), i < k, IsContainer(t[k])
                 PROVE  IsContainer(t[i])
      BY DEF ContainersFirst
    <3>1. i + 1 < k + 1
      BY <1>9
    <3> QED BY <1>6, <2>1, <3>1 DEF ContainersFirst
  <2>3. NotTwice(t)
    <3> SUFFICES ASSUME NEW i \in 1..Len(t), NEW k \in 1..Len(t), i # k, t[i] = t[k]
                 PROVE  t[i].kind = "volume"
      BY DEF NotTwice
    <3>1. i + 1 # k + 1
      BY <1>9
    <3> QED BY <1>6, <2>1, <3>1 DEF NotTwice
  <2>4. ASSUME NEW x \in Range(t), x.kind # "volume" PROVE x # o
    <3>1. PICK i \in 1..Len(t) : x = t[i]
      BY <1>9, RangeOf
    <3>2. i + 1 \in 1..Len(u) /\ 1 \in 1..Len(u) /\ i + 1 # 1
      BY <1>9
    <3> QED BY <1>6, <1>9, <2>1, <2>4, <3>1, <3>2 DEF NotTwice
  <2>5. ASSUME NEW x \in Range(t)
        PROVE  /\ Own(d, x)'
               /\ IF x.kind = "volume" THEN x \in Range(VolsOf(d)) ELSE Present(x)'
    <3>1. Own(d, x)'
      BY <1>5, <1>6, <1>9 DEF Own, Present
    <3>2. x.kind # "volume" => Present(x)'
      BY <1>5, <1>6, <1>9, <2>4 DEF Present
    <3> QED BY <1>6, <1>9, <3>1, <3>2
  <2> QED BY <1>2, <1>6, <1>8, <1>9, <2>2, <2>3, <2>5 DEF ToRemove
<1> QED BY <1>2, <1>10, <1>11, <1>12 DEF Consistent

LEMMA DeployInvStep == DeployInv /\ [DeployNext]_deployVars => DeployInv'
<1> SUFFICES ASSUME DeployInv, [DeployNext]_deployVars PROVE DeployInv'
  OBVIOUS
<1>1. CASE UNCHANGED deployVars
  <2>1. DeployTypeOK'
    BY <1>1 DEF deployVars, DeployInv, DeployTypeOK
  <2>2. \A d \in Deployment : Consistent(d)'
    BY <1>1 DEF deployVars, DeployInv, Consistent, Traced, ToMake, Made, ToRemove, Own, Present
  <2>3. \A c \in DOMAIN uses' : \A o \in uses'[c] : ~IsContainer(o)
    BY <1>1 DEF deployVars, DeployInv
  <2> QED BY <2>1, <2>2, <2>3 DEF DeployInv
<1>2. ASSUME NEW d \in Deployment,
             \/ MakePlan(d) \/ CreateObject(d) \/ StartContainer(d) \/ Deployed(d)
             \/ UndoObject(d) \/ RolledBack(d)
      PROVE  DeployInv'
  <2>1. Consistent(d)' /\ \A e \in Deployment \ {d} : Untouched(e)
    BY <1>2, PlanConsistent, CreateConsistent, StartConsistent, EndConsistent, UndoConsistent
  <2>2. \A e \in Deployment \ {d} : Consistent(e)'
    BY <2>1, OthersConsistent DEF DeployInv
  <2>3. DeployTypeOK' /\ \A c \in DOMAIN uses' : \A o \in uses'[c] : ~IsContainer(o)
    BY <1>2, DeployTypeStep
  <2> QED BY <2>1, <2>2, <2>3 DEF DeployInv
<1> QED BY <1>1, <1>2 DEF DeployNext

\* What each deployment has on the host is in its journal, in what it is still to remove,
\* or among what it lost or could not remove: the invariant of the engine.
THEOREM DeployInvariant == DeploySpec => []DeployInv
BY DeployInvInit, DeployInvStep, PTL DEF DeploySpec

\* A deployment that failed and was rolled back has left nothing of its own but what a
\* failed call made, what Docker failed to remove, and what others use.
THEOREM RollbackComplete == DeploySpec => []FailureLeavesNothing
<1>1. DeployInv => FailureLeavesNothing
  <2> SUFFICES ASSUME DeployInv, NEW d \in Deployment, apply[d].pc = "rolled",
                      NEW o \in DOMAIN host, host[o] = d
               PROVE  o \in lostWork[d] \cup stuck[d]
    BY DEF FailureLeavesNothing
  <2>1. Traced(d) /\ apply[d].undo = <<>>
    BY DEF DeployInv, Consistent
  <2>2. Range(apply[d].undo) = {}
    BY <2>1 DEF Range
  <2> QED BY <2>1, <2>2 DEF Traced
<1> QED BY <1>1, DeployInvariant, PTL

\* No step removes an object that a container uses or that was there before, nor one that
\* the deployment rolling back did not make, except a volume in its journal that another
\* has made.
THEOREM RollbackKeepsOthers == DeploySpec => OthersKept
<1>1. ASSUME DeployInv, [DeployNext]_deployVars
      PROVE  [\A o \in DOMAIN host \ DOMAIN host' : \E d \in Deployment : MayTake(d, o)]_deployVars
  <2>1. SUFFICES ASSUME DeployNext, NEW o \in DOMAIN host \ DOMAIN host'
                 PROVE  \E d \in Deployment : MayTake(d, o)
    BY <1>1
  <2>2. PICK d \in Deployment : \/ MakePlan(d) \/ CreateObject(d) \/ StartContainer(d) \/ Deployed(d)
                                \/ UndoObject(d) \/ RolledBack(d)
    BY <2>1 DEF DeployNext
  <2>3. UndoObject(d)
    <3>1. CreateObject(d) => DOMAIN host \subseteq DOMAIN host'
      BY DEF CreateObject, MakeObject
    <3> QED BY <2>1, <2>2, <3>1 DEF MakePlan, StartContainer, Deployed, RolledBack
  <2> DEFINE h == Head(apply[d].undo)
  <2>4. host' = Gone(host, h) /\ ~InUse(h)
    BY <2>1, <2>3 DEF UndoObject
  <2>5. o = h
    BY <2>1, <2>4 DEF Gone
  <2>6. apply[d].pc = "undo" /\ apply[d].undo # <<>>
    BY <2>3 DEF UndoObject
  <2>7. h \in Range(apply[d].undo) /\ ToRemove(d)
    <3>1. apply[d].undo \in Seq(Objects)
      BY <1>1 DEF DeployInv, DeployTypeOK
    <3>2. h \in Range(apply[d].undo)
      BY <2>6, <3>1, HeadTail
    <3> QED BY <1>1, <2>6, <3>2 DEF DeployInv, Consistent
  <2>8. /\ o \in Range(apply[d].journal)
        /\ host[o] = d \/ (o.kind = "volume" /\ host[o] \in Deployment)
    BY <2>1, <2>5, <2>7 DEF ToRemove, Own, Present
  <2> QED BY <2>4, <2>5, <2>6, <2>8 DEF MayTake
<1>2. DeployInv /\ [DeployNext]_deployVars =>
        [\A o \in DOMAIN host \ DOMAIN host' : \E d \in Deployment : MayTake(d, o)]_deployVars
  BY <1>1
<1> QED BY <1>2, DeployInvariant, PTL DEF DeploySpec, OthersKept, MayTake

---------------------------------------------------------------------------
(* The links of an Agent *)

ConnPC == {"none", "serve", "pend", "look", "record", "commit", "persist", "register", "read", "done"}
Message == [type : {"approve", "rotate_hmac"}, hmac : Nat]
ConnShape == [pc : ConnPC, shown : Nat, hmac : Nat, approved : BOOLEAN, up : BOOLEAN,
              box : Seq(Message)]

OperatorShape(o) ==
  /\ o \in [pc : {"idle", "look", "record", "commit", "persist"}, of : Conn \cup {0}]
  /\ o.pc \in {"commit", "persist"} => o.of # 0

LEMMA LinkShapes ==
  LinkShape <=> /\ secret \in Nat /\ store \in Nat /\ issued \in Nat /\ link \in Conn \cup {0}
                /\ conn \in [Conn -> ConnShape]
                /\ loops \subseteq [of : Conn, forever : BOOLEAN, send : Nat]
                /\ pending \in Conn \cup {0} /\ OperatorShape(operator)
BY DEF LinkShape, ConnShape, ConnPC, Message, OperatorShape

\* A secret sent to a connection.
LEMMA SentShape ==
  ASSUME conn \in [Conn -> ConnShape], NEW c \in Conn, NEW h \in Nat
  PROVE  Sent(c, "approve", h) \in Seq(Message) /\ Sent(c, "rotate_hmac", h) \in Seq(Message)
<1>1. conn[c].box \in Seq(Message)
  BY DEF ConnShape
<1>2. [type |-> "approve", hmac |-> h] \in Message /\ [type |-> "rotate_hmac", hmac |-> h] \in Message
  BY DEF Message
<1> HIDE DEF Message
<1> QED BY <1>1, <1>2 DEF Sent

\* What a step of one goroutine may do to the connections without disturbing who can be
\* reached: their places may change, but none comes to be read, starts to enter or is up again.
Calm(cs) ==
  /\ \A c \in Conn : /\ cs[c].pc = "read" => conn[c].pc = "read"
                     /\ cs[c].pc \notin {"none", "read", "done"} => Entering(c)
                     /\ cs[c].up => conn[c].up

LEMMA CalmInv ==
  ASSUME LinkInv, Calm(conn'), link' \in {link, 0}, agentConns' = agentConns
  PROVE  EntersAlone' /\ ReachableWhileRead'
<1>1. 0 \notin Conn
  BY DEF Conn
<1> QED BY <1>1 DEF LinkInv, Calm, EntersAlone, ReachableWhileRead, Entering

\* One connection changes.
LEMMA OneConn ==
  ASSUME conn \in [Conn -> ConnShape], NEW c \in Conn, NEW r \in ConnShape,
         conn' = [conn EXCEPT ![c] = r]
  PROVE  /\ conn' \in [Conn -> ConnShape] /\ conn'[c] = r /\ \A d \in Conn \ {c} : conn'[d] = conn[d]
         /\ /\ r.pc = "read" => conn[c].pc = "read"
            /\ r.pc \notin {"none", "read", "done"} => Entering(c)
            /\ r.up => conn[c].up
            => Calm(conn')
<1>1. conn' \in [Conn -> ConnShape] /\ conn'[c] = r /\ \A d \in Conn \ {c} : conn'[d] = conn[d]
  OBVIOUS
<1> QED BY <1>1 DEF Calm, Entering

\* A goroutine on its way to the map, or giving up.
LEMMA OnItsWay ==
  ASSUME conn \in [Conn -> ConnShape], NEW c \in Conn, Entering(c), NEW pc \in ConnPC, pc # "read",
         NEW h \in Nat,
         \/ conn' = [conn EXCEPT ![c].pc = pc]
         \/ conn' = [conn EXCEPT ![c].pc = pc, ![c].up = FALSE]
         \/ conn' = [conn EXCEPT ![c].pc = pc, ![c].hmac = h, ![c].approved = TRUE]
  PROVE  conn' \in [Conn -> ConnShape] /\ Calm(conn')
<1>1. \E r : /\ conn' = [conn EXCEPT ![c] = r]
             /\ \/ r = [conn[c] EXCEPT !.pc = pc]
                \/ r = [conn[c] EXCEPT !.pc = pc, !.up = FALSE]
                \/ r = [conn[c] EXCEPT !.pc = pc, !.hmac = h, !.approved = TRUE]
  OBVIOUS
<1>2. conn[c] \in ConnShape /\ <<>> \in Seq(Message)
  OBVIOUS
<1>3. PICK r : conn' = [conn EXCEPT ![c] = r] /\ r \in ConnShape /\ r.pc = pc /\ (r.up => conn[c].up)
  <2>1. ASSUME NEW r, \/ r = [conn[c] EXCEPT !.pc = pc]
                      \/ r = [conn[c] EXCEPT !.pc = pc, !.up = FALSE]
                      \/ r = [conn[c] EXCEPT !.pc = pc, !.hmac = h, !.approved = TRUE]
        PROVE  r \in ConnShape /\ r.pc = pc /\ (r.up => conn[c].up)
    BY <1>2, <2>1 DEF ConnShape
  <2> QED BY <1>1, <2>1
<1> QED BY <1>3, OneConn

LEMMA NoConnShape == NoConn \in ConnShape
<1>1. <<>> \in Seq(Message)
  OBVIOUS
<1> QED BY <1>1 DEF NoConn, ConnShape, ConnPC

LEMMA LinkInvInit == LinkInit => LinkInv
<1> SUFFICES ASSUME LinkInit PROVE LinkInv
  OBVIOUS
<1>3. conn \in [Conn -> ConnShape] /\ \A c \in Conn : conn[c].pc = "none"
  BY NoConnShape DEF LinkInit, NoConn
<1>1. OperatorShape(operator)
  BY DEF LinkInit, Call0, OperatorShape
<1>4. LinkShape
  BY <1>1, <1>3, LinkShapes DEF LinkInit
<1> QED BY <1>3, <1>4 DEF LinkInv, EntersAlone, ReachableWhileRead, Entering

\* The steps of a connection.
LEMMA ConnLinkInv ==
  ASSUME LinkInv, ~Late, NEW c \in Conn,
         \/ Connect(c) \/ ServeHMAC(c) \/ ServeJoin(c) \/ ServeConsumed(c)
         \/ ConsumePreApproval(c) \/ Register(c) \/ Notice(c)
         \/ UnregisterAgent(c) \/ Receive(c)
  PROVE  LinkInv'
<1>0. /\ secret \in Nat /\ store \in Nat /\ issued \in Nat /\ link \in Conn \cup {0}
      /\ conn \in [Conn -> ConnShape] /\ conn[c] \in ConnShape
      /\ loops \subseteq [of : Conn, forever : BOOLEAN, send : Nat]
      /\ EntersAlone /\ ReachableWhileRead /\ 0 \notin Conn
  BY LinkShapes DEF LinkInv, Conn
<1>9. pending' \in Conn \cup {0} /\ OperatorShape(operator')
  <2>1. pending \in Conn \cup {0} /\ OperatorShape(operator)
    BY LinkShapes DEF LinkInv
  <2>2. operator' = operator
    BY DEF Connect, ServeHMAC, ServeJoin, ServeConsumed, ConsumePreApproval, Register, Notice,
       UnregisterAgent, Receive
  <2>3. pending' \in {pending, c, 0}
    BY DEF Connect, ServeHMAC, ServeJoin, ServeConsumed, ConsumePreApproval, Register, Notice,
       UnregisterAgent, Receive, hubMaps
  <2> QED BY <2>1, <2>2, <2>3
<1>1. CASE Connect(c)
  <2> DEFINE r == [NoConn EXCEPT !.pc = "serve", !.shown = secret, !.up = TRUE]
  <2>1. "serve" \in ConnPC /\ <<>> \in Seq(Message) /\ NoConn \in ConnShape
    BY NoConnShape DEF ConnPC
  <2>2. r \in ConnShape /\ r.pc = "serve"
    BY <1>0, <2>1 DEF ConnShape
  <2> HIDE DEF r
  <2>3. conn' \in [Conn -> ConnShape] /\ conn'[c].pc = "serve"
        /\ \A d \in Conn \ {c} : conn'[d] = conn[d]
    BY <1>0, <1>1, <2>2 DEF Connect, r
  <2>4. link' = c /\ UNCHANGED <<secret, store, issued, loops>>
        /\ \A d \in Conn : conn[d].pc \in {"none", "read", "done"}
    BY <1>1 DEF Connect
  <2>5. LinkShape'
    BY <1>0, <1>9, <2>3, <2>4 DEF LinkShape, ConnShape, ConnPC, Message, OperatorShape
  <2> QED BY <1>0, <2>3, <2>4, <2>5 DEF LinkInv, EntersAlone, ReachableWhileRead, Entering
<1>2. CASE ServeHMAC(c)
  <2>1. UNCHANGED <<secret, store, issued, loops, agentConns>> /\ conn[c].pc = "serve"
    BY <1>2 DEF ServeHMAC, hubMaps
  <2>2. conn[c].shown \in Nat
    BY <1>0 DEF ConnShape
  <2>3. \/ /\ conn' = [conn EXCEPT ![c].pc = "register", ![c].hmac = conn[c].shown, ![c].approved = TRUE]
           /\ link' = link
        \/ /\ conn' = [conn EXCEPT ![c].pc = "done", ![c].up = FALSE]
           /\ link' \in {0, link}
    BY <1>2 DEF ServeHMAC, Refuse
  <2>4. conn' \in [Conn -> ConnShape] /\ Calm(conn')
    <3>1. Entering(c) /\ "register" \in ConnPC /\ "done" \in ConnPC
      BY <2>1 DEF Entering, ConnPC
    <3> QED BY <1>0, <2>2, <2>3, <3>1, OnItsWay
  <2>5. LinkShape'
    BY <1>0, <1>9, <2>1, <2>3, <2>4 DEF LinkShape, ConnShape, ConnPC, Message, OperatorShape
  <2> QED BY <2>1, <2>3, <2>4, <2>5, CalmInv DEF LinkInv
<1>3. CASE ServeJoin(c) \/ ConsumePreApproval(c)
  <2>1. UNCHANGED <<secret, store, issued, loops, agentConns, link>> /\ conn[c].pc \in {"serve", "pend"}
    BY <1>3 DEF ServeJoin, ConsumePreApproval, agentEnd
  <2>2. \E pc \in {"pend", "look", "register"} : conn' = [conn EXCEPT ![c].pc = pc]
    BY <1>3 DEF ServeJoin, ConsumePreApproval
  <2>3. conn' \in [Conn -> ConnShape] /\ Calm(conn')
    <3>1. Entering(c) /\ \A pc \in {"pend", "look", "register"} : pc \in ConnPC /\ pc # "read"
      BY <2>1 DEF Entering, ConnPC
    <3> QED BY <1>0, <2>2, <3>1, OnItsWay
  <2>4. LinkShape'
    BY <1>0, <1>9, <2>1, <2>3 DEF LinkShape, ConnShape, ConnPC, Message, OperatorShape
  <2> QED BY <2>1, <2>3, <2>4, CalmInv DEF LinkInv
<1>4. CASE ServeConsumed(c)
  <2>1. UNCHANGED <<secret, loops, agentConns>> /\ conn[c].pc = "serve"
    BY <1>4 DEF ServeConsumed, hubMaps
  <2>2. store' \in Nat /\ issued' \in Nat
    BY <1>0, <1>4 DEF ServeConsumed
  <2>3. \/ /\ conn' = [conn EXCEPT ![c].pc = "register", ![c].hmac = store, ![c].approved = TRUE]
           /\ link' = link
        \/ /\ conn' = [conn EXCEPT ![c].pc = "done", ![c].up = FALSE]
           /\ link' \in {0, link}
    BY <1>4 DEF ServeConsumed, Refuse
  <2>4. conn' \in [Conn -> ConnShape] /\ Calm(conn')
    <3>1. Entering(c) /\ "register" \in ConnPC /\ "done" \in ConnPC
      BY <2>1 DEF Entering, ConnPC
    <3> QED BY <1>0, <2>3, <3>1, OnItsWay
  <2>5. LinkShape'
    BY <1>0, <1>9, <2>1, <2>2, <2>3, <2>4 DEF LinkShape, ConnShape, ConnPC, Message, OperatorShape
  <2> QED BY <2>1, <2>3, <2>4, <2>5, CalmInv DEF LinkInv
<1>5. CASE Register(c)
  <2>1. UNCHANGED <<secret, store, issued, link>> /\ agentConns' = c /\ Entering(c)
    BY <1>5 DEF Register, agentEnd, Entering
  <2>2. Sent(c, "approve", conn[c].hmac) \in Seq(Message) /\ conn[c].box \in Seq(Message)
    BY <1>0, SentShape DEF ConnShape
  <2>3. \E b \in Seq(Message) : conn' = [conn EXCEPT ![c].pc = "read", ![c].box = b]
    BY <1>0, <1>5, <2>2 DEF Register
  <2>4. conn' \in [Conn -> ConnShape] /\ conn'[c].pc = "read" /\ \A d \in Conn \ {c} : conn'[d] = conn[d]
    <3>1. PICK b \in Seq(Message) : conn' = [conn EXCEPT ![c] = [conn[c] EXCEPT !.pc = "read", !.box = b]]
      BY <1>0, <2>3
    <3> DEFINE r == [conn[c] EXCEPT !.pc = "read", !.box = b]
    <3>2. r \in ConnShape /\ r.pc = "read"
      <4>1. conn[c] \in ConnShape /\ "read" \in ConnPC
        BY <1>0 DEF ConnPC
      <4> QED BY <4>1 DEF ConnShape
    <3> HIDE DEF r
    <3>3. conn' = [conn EXCEPT ![c] = r]
      BY <3>1 DEF r
    <3> QED BY <1>0, <3>2, <3>3, OneConn
  <2>5. loops' \subseteq [of : Conn, forever : BOOLEAN, send : Nat]
    <3>1. [of |-> c, forever |-> FALSE, send |-> 0] \in [of : Conn, forever : BOOLEAN, send : Nat]
      OBVIOUS
    <3>2. loops' = loops \/ loops' = loops \cup {[of |-> c, forever |-> FALSE, send |-> 0]}
      BY <1>5 DEF Register
    <3> QED BY <1>0, <3>1, <3>2
  <2>6. LinkShape'
    BY <1>0, <1>9, <2>1, <2>4, <2>5 DEF LinkShape, ConnShape, ConnPC, Message, OperatorShape
  <2>7. link \in Conn => link = c
    BY <1>0, <2>1 DEF EntersAlone
  <2>8. EntersAlone'
    BY <1>0, <2>1, <2>4, <2>7 DEF EntersAlone, Entering
  <2>9. ReachableWhileRead'
    BY <2>1, <2>7 DEF ReachableWhileRead
  <2> QED BY <2>6, <2>8, <2>9 DEF LinkInv
<1>6. CASE Notice(c)
  <2>1. UNCHANGED <<secret, store, issued, loops, agentConns, link>>
    BY <1>6 DEF Notice, agentEnd, hubMaps
  <2>2. conn' \in [Conn -> ConnShape] /\ Calm(conn')
    BY <1>0, <1>6 DEF Notice, ConnShape, Calm, Entering
  <2>3. LinkShape'
    BY <1>0, <1>9, <2>1, <2>2 DEF LinkShape, ConnShape, ConnPC, Message, OperatorShape
  <2> QED BY <2>1, <2>2, <2>3, CalmInv DEF LinkInv
<1>7. CASE UnregisterAgent(c)
  <2>1. UNCHANGED <<secret, store, issued, link>> /\ conn[c].pc = "read" /\ ~conn[c].up
        /\ agentConns' = IF agentConns = c THEN 0 ELSE agentConns
    BY <1>7 DEF UnregisterAgent, agentEnd
  <2>2. conn' \in [Conn -> ConnShape] /\ conn'[c].pc = "done" /\ \A d \in Conn \ {c} : conn'[d] = conn[d]
    BY <1>0, <1>7 DEF UnregisterAgent, ConnShape, ConnPC
  <2>3. loops' \subseteq loops
    BY <1>7 DEF UnregisterAgent
  <2>4. LinkShape'
    BY <1>0, <1>9, <2>1, <2>2, <2>3 DEF LinkShape, ConnShape, ConnPC, Message, OperatorShape
  <2>5. EntersAlone'
    BY <1>0, <2>1, <2>2 DEF EntersAlone, Entering
  <2>6. ReachableWhileRead'
    BY <1>0, <2>1, <2>2 DEF ReachableWhileRead
  <2> QED BY <2>4, <2>5, <2>6 DEF LinkInv
<1>8. CASE Receive(c)
  <2>1. UNCHANGED <<store, issued, loops, agentConns, link>> /\ conn[c].box # <<>>
    BY <1>8 DEF Receive, hubMaps
  <2>2. conn[c].box \in Seq(Message)
    BY <1>0 DEF ConnShape
  <2>3. Head(conn[c].box) \in Message /\ Tail(conn[c].box) \in Seq(Message)
    BY <2>1, <2>2
  <2>4. secret' \in Nat
    BY <1>8, <2>3 DEF Receive, Message
  <2>5. conn' = [conn EXCEPT ![c].box = Tail(conn[c].box)]
    BY <1>0, <1>8 DEF Receive
  <2>6. conn' \in [Conn -> ConnShape] /\ Calm(conn')
    BY <1>0, <2>3, <2>5 DEF ConnShape, Calm, Entering
  <2>7. LinkShape'
    BY <1>0, <1>9, <2>1, <2>4, <2>6 DEF LinkShape, ConnShape, ConnPC, Message, OperatorShape
  <2> QED BY <2>1, <2>6, <2>7, CalmInv DEF LinkInv
<1> QED BY <1>1, <1>2, <1>3, <1>4, <1>5, <1>6, <1>7, <1>8

\* A step of an approval: the caller goes on, and the connection approved is where it was.
LEMMA GotoCalm ==
  ASSUME LinkInv, NEW d \in Conn \cup {0}, NEW cs \in [Conn -> ConnShape],
         \A c \in Conn : cs[c].pc = conn[c].pc /\ cs[c].up = conn[c].up,
         At(d) \in {"look", "record", "commit", "persist"},
         NEW pc \in {"idle", "record", "commit", "persist"}, NEW x, Goto(d, pc, x, cs)
  PROVE  conn' \in [Conn -> ConnShape] /\ Calm(conn')
<1>0. 0 \notin Conn
  BY DEF Conn
<1>1. CASE d = 0
  BY <1>1 DEF Goto, Calm, Entering
<1>2. CASE d # 0
  <2> DEFINE q == IF pc = "idle" THEN "register" ELSE pc
             r == [cs[d] EXCEPT !.pc = q]
  <2>1. d \in Conn /\ Entering(d) /\ q \in ConnPC /\ q # "read"
    BY <1>2 DEF At, Entering, ConnPC
  <2>2. cs[d] \in ConnShape
    BY <2>1
  <2> HIDE DEF q
  <2>3. r \in ConnShape /\ r.pc = q /\ r.up = cs[d].up
    BY <2>1, <2>2 DEF ConnShape
  <2>4. conn' = [cs EXCEPT ![d] = r]
    BY <1>2 DEF Goto, q
  <2> HIDE DEF r
  <2>5. conn' \in [Conn -> ConnShape] /\ conn'[d] = r /\ \A c \in Conn \ {d} : conn'[c] = cs[c]
    BY <2>1, <2>3, <2>4
  <2> QED BY <2>1, <2>3, <2>5 DEF Calm, Entering
<1> QED BY <1>1, <1>2

LEMMA ApproveLinkInv ==
  ASSUME LinkInv, NEW d \in Conn \cup {0},
         ApproveLook(d) \/ ApproveRecord(d) \/ ApproveCommit(d) \/ ApprovePersist(d)
  PROVE  LinkInv'
<1>0. /\ secret \in Nat /\ store \in Nat /\ issued \in Nat /\ link \in Conn \cup {0}
      /\ conn \in [Conn -> ConnShape] /\ pending \in Conn \cup {0} /\ OperatorShape(operator)
      /\ loops \subseteq [of : Conn, forever : BOOLEAN, send : Nat] /\ 0 \notin Conn
  BY LinkShapes DEF LinkInv, Conn
<1>1. link' = link /\ secret' = secret /\ agentConns' = agentConns
  BY DEF ApproveLook, ApproveRecord, ApproveCommit, ApprovePersist, agentEnd, hubMaps
<1>2. SUFFICES /\ conn' \in [Conn -> ConnShape] /\ Calm(conn')
               /\ store' \in Nat /\ issued' \in Nat
               /\ loops' \subseteq [of : Conn, forever : BOOLEAN, send : Nat]
               /\ pending' \in Conn \cup {0} /\ OperatorShape(operator')
  <2>1. LinkShape'
    BY <1>0, <1>1, <1>2 DEF LinkShape, ConnShape, ConnPC, Message, OperatorShape
  <2> QED BY <1>1, <1>2, <2>1, CalmInv DEF LinkInv
<1>3. ASSUME NEW pc \in {"idle", "record", "commit", "persist"}, NEW x \in Conn \cup {0}, NEW cs,
             pc \in {"commit", "persist"} => x # 0, Goto(d, pc, x, cs)
      PROVE  OperatorShape(operator')
  BY <1>0, <1>3 DEF Goto, OperatorShape
<1>4. CASE ApproveLook(d)
  <2>1. UNCHANGED <<store, issued, loops, pending>> /\ At(d) = "look"
    BY <1>4 DEF ApproveLook
  <2>2. PICK pc \in {"idle", "record", "commit", "persist"}, x \in Conn \cup {0} :
          Goto(d, pc, x, conn) /\ (pc \in {"commit", "persist"} => x # 0)
    BY <1>0, <1>4 DEF ApproveLook
  <2>3. OperatorShape(operator')
    BY <1>3, <2>2
  <2> QED BY <1>0, <2>1, <2>2, <2>3, GotoCalm
<1>5. CASE ApproveRecord(d)
  <2>1. UNCHANGED <<store, issued, loops, pending>> /\ At(d) = "record" /\ Goto(d, "idle", 0, conn)
    BY <1>5 DEF ApproveRecord
  <2>2. OperatorShape(operator')
    BY <1>3, <2>1
  <2> QED BY <1>0, <2>1, <2>2, GotoCalm
<1>6. At(d) \in {"commit", "persist"} => Target(d) \in Conn
  BY <1>0 DEF At, Target, OperatorShape
<1>7. CASE ApprovePersist(d)
  <2> DEFINE c == Target(d)
  <2>1. /\ UNCHANGED <<issued, pending>> /\ At(d) = "persist" /\ Goto(d, "idle", 0, conn)
        /\ store' = conn[c].hmac
        /\ loops' = loops \cup {[of |-> c, forever |-> TRUE, send |-> 0]}
    BY <1>7 DEF ApprovePersist, hubMaps
  <2>2. conn' \in [Conn -> ConnShape] /\ Calm(conn')
    BY <1>0, <2>1, GotoCalm
  <2>3. c \in Conn
    BY <1>6, <2>1
  <2>4. store' \in Nat
    BY <1>0, <2>1, <2>3 DEF ConnShape
  <2>5. [of |-> c, forever |-> TRUE, send |-> 0] \in [of : Conn, forever : BOOLEAN, send : Nat]
    BY <2>3
  <2>6. OperatorShape(operator')
    BY <1>3, <2>1
  <2> QED BY <1>0, <2>1, <2>2, <2>4, <2>5, <2>6
<1>8. CASE ApproveCommit(d)
  <2> DEFINE c == Target(d)
  <2>1. UNCHANGED <<store, loops>> /\ At(d) = "commit" /\ c \in Conn
    BY <1>6, <1>8 DEF ApproveCommit
  <2>2. CASE conn[c].approved
    <3>1. Goto(d, "idle", 0, conn) /\ UNCHANGED <<pending, issued>>
      BY <1>8, <2>2 DEF ApproveCommit
    <3>2. OperatorShape(operator')
      BY <1>3, <3>1
    <3> QED BY <1>0, <2>1, <3>1, <3>2, GotoCalm
  <2>3. CASE ~conn[c].approved
    <3> DEFINE b == IF conn[c].up THEN Sent(c, "approve", issued + 1) ELSE conn[c].box
               r == [conn[c] EXCEPT !.hmac = issued + 1, !.approved = TRUE, !.box = b]
               cs == [conn EXCEPT ![c] = r]
               pc == IF conn[c].up THEN "persist" ELSE "idle"
               x == IF conn[c].up THEN c ELSE 0
    <3>1. issued' = issued + 1 /\ pending' \in {pending, 0}
      BY <1>8, <2>3 DEF ApproveCommit
    <3>2. Goto(d, pc, x, [conn EXCEPT ![c].hmac = issued + 1, ![c].approved = TRUE, ![c].box = b])
      BY <1>8, <2>3 DEF ApproveCommit
    <3>3. [conn EXCEPT ![c].hmac = issued + 1, ![c].approved = TRUE, ![c].box = b] = cs
      BY <1>0, <2>1
    <3>4. issued + 1 \in Nat /\ conn[c] \in ConnShape
      BY <1>0, <2>1
    <3>5. Sent(c, "approve", issued + 1) \in Seq(Message)
      BY <1>0, <2>1, <3>4, SentShape
    <3>6. b \in Seq(Message)
      BY <3>4, <3>5 DEF ConnShape
    <3>7. pc \in {"idle", "record", "commit", "persist"} /\ x \in Conn \cup {0}
          /\ (pc \in {"commit", "persist"} => x # 0)
      BY <1>0, <2>1
    <3> HIDE DEF b, pc, x
    <3>8. r \in ConnShape /\ r.pc = conn[c].pc /\ r.up = conn[c].up
      BY <3>4, <3>6 DEF ConnShape
    <3> HIDE DEF r
    <3>9. cs \in [Conn -> ConnShape] /\ \A e \in Conn : cs[e].pc = conn[e].pc /\ cs[e].up = conn[e].up
      BY <1>0, <2>1, <3>8
    <3>10. Goto(d, pc, x, cs)
      BY <3>2, <3>3
    <3> HIDE DEF cs
    <3>11. OperatorShape(operator')
      BY <1>3, <3>7, <3>10
    <3>12. conn' \in [Conn -> ConnShape] /\ Calm(conn')
      BY <2>1, <3>7, <3>9, <3>10, GotoCalm
    <3> QED BY <1>0, <2>1, <3>1, <3>4, <3>11, <3>12
  <2> QED BY <2>2, <2>3
<1> QED BY <1>4, <1>5, <1>7, <1>8

\* Revocations, rotations, lost connections and restarts.
LEMMA FaultLinkInv ==
  ASSUME LinkInv,
         \/ OrderApproval \/ RevokeAgent
         \/ \E l \in loops : RotateSet(l) \/ RotateSend(l)
         \/ CutLink \/ RestartAgent \/ RestartHub
  PROVE  LinkInv'
<1>0. /\ secret \in Nat /\ store \in Nat /\ issued \in Nat /\ link \in Conn \cup {0}
      /\ conn \in [Conn -> ConnShape] /\ pending \in Conn \cup {0} /\ OperatorShape(operator)
      /\ loops \subseteq [of : Conn, forever : BOOLEAN, send : Nat] /\ 0 \notin Conn
      /\ EntersAlone /\ ReachableWhileRead
  BY LinkShapes DEF LinkInv, Conn
<1>1. ASSUME secret' \in Nat, store' \in Nat, issued' \in Nat, link' \in Conn \cup {0},
             conn' \in [Conn -> ConnShape],
             loops' \subseteq [of : Conn, forever : BOOLEAN, send : Nat],
             pending' \in Conn \cup {0}, OperatorShape(operator')
      PROVE  LinkShape'
  BY <1>1 DEF LinkShape, ConnShape, ConnPC, Message, OperatorShape
<1>2. CASE OrderApproval
  <2>1. UNCHANGED <<secret, store, issued, link, conn, loops, pending, agentConns>>
    BY <1>2 DEF OrderApproval, agentEnd, hubMaps
  <2>2. OperatorShape(operator')
    BY <1>0, <1>2 DEF OrderApproval, OperatorShape
  <2>3. LinkShape'
    BY <1>0, <1>1, <2>1, <2>2
  <2> QED BY <1>0, <2>1, <2>3 DEF LinkInv, EntersAlone, Entering, ReachableWhileRead
<1>3. CASE CutLink \/ RestartAgent
  <2>1. UNCHANGED <<secret, store, issued, conn, loops, pending, agentConns, operator>> /\ link' = 0
    BY <1>3 DEF CutLink, RestartAgent, hubMaps
  <2>2. LinkShape'
    BY <1>0, <1>1, <2>1
  <2> QED BY <1>0, <2>1, <2>2 DEF LinkInv, EntersAlone, Entering, ReachableWhileRead
<1>4. CASE RestartHub
  <2>1. UNCHANGED <<secret, store, issued>> /\ link' = 0 /\ pending' = 0 /\ operator' = Call0 /\ loops' = {}
    BY <1>4 DEF RestartHub
  <2>2. OperatorShape(operator')
    BY <2>1 DEF Call0, OperatorShape
  <2>3. [NoConn EXCEPT !.pc = "done"] \in ConnShape
    <3>1. "done" \in ConnPC
      BY DEF ConnPC
    <3> QED BY <3>1, NoConnShape DEF ConnShape
  <2>4. conn' \in [Conn -> ConnShape]
    BY <1>4, <2>3, NoConnShape DEF RestartHub
  <2>5. LinkShape'
    BY <1>0, <1>1, <2>1, <2>2, <2>4
  <2> QED BY <1>0, <2>1, <2>5 DEF LinkInv, EntersAlone, Entering, ReachableWhileRead
<1>5. CASE RevokeAgent
  <2> DEFINE c == IF agentConns # 0 THEN agentConns ELSE pending
  <2>1. /\ UNCHANGED <<secret, issued, loops, operator>> /\ store' = 0 /\ pending' = 0
        /\ agentConns' = 0 /\ link' = IF link = c THEN 0 ELSE link
        /\ conn' = IF c = 0 THEN conn ELSE [conn EXCEPT ![c].up = FALSE]
    BY <1>5 DEF RevokeAgent
  <2>2. conn' \in [Conn -> ConnShape] /\ \A d \in Conn : conn'[d].pc = conn[d].pc /\ (conn'[d].up => conn[d].up)
    <3>1. CASE c \in Conn
      <4> DEFINE r == [conn[c] EXCEPT !.up = FALSE]
      <4>1. conn' = [conn EXCEPT ![c] = r]
        BY <1>0, <2>1, <3>1
      <4>2. r \in ConnShape /\ r.pc = conn[c].pc /\ ~r.up
        <5>1. conn[c] \in ConnShape
          BY <1>0, <3>1
        <5> QED BY <5>1 DEF ConnShape
      <4> HIDE DEF r, c
      <4> QED BY <1>0, <3>1, <4>1, <4>2
    <3>2. CASE c \notin Conn
      <4>1. conn' = conn
        BY <1>0, <2>1, <3>2
      <4> QED BY <1>0, <4>1
    <3> QED BY <3>1, <3>2
  <2>3. LinkShape'
    BY <1>0, <1>1, <2>1, <2>2
  <2>4. EntersAlone'
    BY <1>0, <2>1, <2>2 DEF EntersAlone, Entering
  <2>5. ReachableWhileRead'
    <3> SUFFICES ASSUME NEW d \in Conn, link' = d, conn'[d].pc = "read", conn'[d].up PROVE FALSE
      BY DEF ReachableWhileRead
    <3>1. link = d /\ link # c /\ agentConns = d
      BY <1>0, <2>1, <2>2 DEF ReachableWhileRead
    <3> QED BY <1>0, <3>1
  <2> QED BY <2>3, <2>4, <2>5 DEF LinkInv
<1>6. ASSUME NEW l \in loops, RotateSet(l) \/ RotateSend(l) PROVE LinkInv'
  <2>0. l \in [of : Conn, forever : BOOLEAN, send : Nat] /\ l.of \in Conn /\ conn[l.of] \in ConnShape
    BY <1>0
  <2>1. UNCHANGED <<secret, link, pending, agentConns, operator>>
    BY <1>6 DEF RotateSet, RotateSend, agentEnd, hubMaps
  <2>2. store' \in Nat /\ issued' \in Nat
    BY <1>0, <1>6 DEF RotateSet, RotateSend
  <2>3. loops' \subseteq [of : Conn, forever : BOOLEAN, send : Nat]
    <3>1. ASSUME NEW h \in Nat PROVE [l EXCEPT !.send = h] \in [of : Conn, forever : BOOLEAN, send : Nat]
      BY <2>0
    <3>2. \/ loops' \subseteq loops
          \/ \E h \in Nat : loops' = (loops \ {l}) \cup {[l EXCEPT !.send = h]}
      BY <1>0, <1>6 DEF RotateSet, RotateSend
    <3> QED BY <1>0, <3>1, <3>2
  <2>4. \/ conn' = conn
        \/ conn' = [conn EXCEPT ![l.of] = [conn[l.of] EXCEPT !.hmac = issued + 1]]
        \/ conn' = [conn EXCEPT ![l.of] = [conn[l.of] EXCEPT !.box = Sent(l.of, "rotate_hmac", l.send)]]
    BY <1>6 DEF RotateSet, RotateSend
  <2>5. ASSUME NEW r, \/ r = [conn[l.of] EXCEPT !.hmac = issued + 1]
                      \/ r = [conn[l.of] EXCEPT !.box = Sent(l.of, "rotate_hmac", l.send)]
        PROVE  r \in ConnShape /\ r.pc = conn[l.of].pc /\ r.up = conn[l.of].up
    <3>1. Sent(l.of, "rotate_hmac", l.send) \in Seq(Message)
      BY <1>0, <2>0, SentShape
    <3>2. issued + 1 \in Nat
      BY <1>0
    <3> QED BY <2>0, <2>5, <3>1, <3>2 DEF ConnShape
  <2>6. \/ conn' = conn
        \/ \E r \in ConnShape : /\ conn' = [conn EXCEPT ![l.of] = r]
                                /\ r.pc = conn[l.of].pc /\ r.up = conn[l.of].up
    BY <2>4, <2>5
  <2>7. conn' \in [Conn -> ConnShape] /\ Calm(conn')
    <3>1. CASE conn' = conn
      BY <1>0, <3>1 DEF Calm, Entering
    <3>2. ASSUME NEW r \in ConnShape, conn' = [conn EXCEPT ![l.of] = r],
                 r.pc = conn[l.of].pc, r.up = conn[l.of].up
          PROVE  conn' \in [Conn -> ConnShape] /\ Calm(conn')
      <4>1. r.pc \notin {"none", "read", "done"} => Entering(l.of)
        BY <3>2 DEF Entering
      <4> DEFINE c == l.of
      <4>2. c \in Conn /\ conn' = [conn EXCEPT ![c] = r] /\ r.pc = conn[c].pc /\ r.up = conn[c].up
            /\ (r.pc \notin {"none", "read", "done"} => Entering(c))
        BY <2>0, <3>2, <4>1
      <4> HIDE DEF c
      <4>3. conn' \in [Conn -> ConnShape] /\ conn'[c] = r /\ \A d \in Conn \ {c} : conn'[d] = conn[d]
        BY <1>0, <3>2, <4>2
      <4> QED BY <4>2, <4>3 DEF Calm, Entering
    <3> QED BY <2>6, <3>1, <3>2
  <2>8. LinkShape'
    BY <1>0, <1>1, <2>1, <2>2, <2>3, <2>7
  <2> QED BY <2>1, <2>7, <2>8, CalmInv DEF LinkInv
<1> QED BY <1>2, <1>3, <1>4, <1>5, <1>6

LEMMA LinkInvStep ==
  ASSUME ~Late
  PROVE  LinkInv /\ [LinkNext]_linkVars => LinkInv'
<1> SUFFICES ASSUME LinkInv, [LinkNext]_linkVars PROVE LinkInv'
  OBVIOUS
<1>1. CASE UNCHANGED linkVars
  BY <1>1 DEF linkVars, LinkInv, LinkShape, EntersAlone, Entering, ReachableWhileRead
<1>2. CASE LinkNext
  BY <1>2, ConnLinkInv, ApproveLinkInv, FaultLinkInv DEF LinkNext
<1> QED BY <1>1, <1>2

\* As long as every goroutine of an older connection has registered before the Agent
\* connects again, the connection that is read is the one the gateway writes to,
\* whatever else ends, is approved, revoked, rotated or restarted meanwhile.
THEOREM AgentReachable ==
  ASSUME ~Late
  PROVE  LinkSpec => []ReachableWhileRead
<1>1. LinkInv => ReachableWhileRead
  BY DEF LinkInv
<1> QED BY <1>1, LinkInvInit, LinkInvStep, PTL DEF LinkSpec

---------------------------------------------------------------------------
(* The secret of an Agent that comes back *)

LEMMA LinkFacts ==
  ASSUME LinkInv
  PROVE  /\ secret \in Nat /\ store \in Nat /\ issued \in Nat /\ link \in Conn \cup {0}
         /\ conn \in [Conn -> ConnShape] /\ pending \in Conn \cup {0}
         /\ loops \subseteq [of : Conn, forever : BOOLEAN, send : Nat] /\ 0 \notin Conn
         /\ OperatorShape(operator)
         /\ \A d \in Conn \cup {0} : Persisting(d) => Target(d) \in Conn
         /\ \A d \in Conn \cup {0} : At(d) = "commit" => Target(d) \in Conn
<1>1. /\ secret \in Nat /\ store \in Nat /\ issued \in Nat /\ link \in Conn \cup {0}
      /\ conn \in [Conn -> ConnShape] /\ pending \in Conn \cup {0}
      /\ loops \subseteq [of : Conn, forever : BOOLEAN, send : Nat] /\ 0 \notin Conn
      /\ OperatorShape(operator)
  BY LinkShapes DEF LinkInv, Conn
<1> QED BY <1>1 DEF Persisting, At, Target, OperatorShape

\* What the Agent is told depends on its link only.
LEMMA EndsKept ==
  ASSUME LinkInv, LinkInv', NEW h, EndsWith(h), secret' = secret,
         \/ /\ link' = link
            /\ \A l : l.of = link /\ l.send # 0 => (l \in loops' <=> l \in loops)
            /\ link # 0 => conn'[link].box = conn[link].box
         \/ link' = 0 /\ (link = 0 \/ ~InFlight(link))
  PROVE  EndsWith(h)'
<1>1. /\ \A l \in loops : l.of # 0
      /\ \A l \in loops' : l.of # 0
  <2>1. loops \subseteq [of : Conn, forever : BOOLEAN, send : Nat] /\ 0 \notin Conn
    BY LinkFacts
  <2>2. loops' \subseteq [of : Conn, forever : BOOLEAN, send : Nat]
    BY DEF LinkInv, LinkShape
  <2> QED BY <2>1, <2>2
<1>2. CASE /\ link' = link
           /\ \A l : l.of = link /\ l.send # 0 => (l \in loops' <=> l \in loops)
           /\ link # 0 => conn'[link].box = conn[link].box
  BY <1>2 DEF EndsWith
<1>3. CASE link' = 0 /\ (link = 0 \/ ~InFlight(link))
  <2>1. secret = h
    BY <1>1, <1>3 DEF EndsWith, InFlight
  <2> QED BY <1>1, <1>3, <2>1 DEF EndsWith
<1> QED BY <1>2, <1>3

\* A gateway that goes on with the secret it has.
LEMMA AgreedKept ==
  ASSUME LinkInv, LinkInv', Stages, NEW x, NEW h, Agreed(x, h), EndsWith(h)',
         link' \in {link, 0}, agentConns' \in {agentConns, 0},
         store' \in {store, x}, NonePersists' => store' = x,
         \A d \in Conn \cup {0} : Persisting(d)' => Persisting(d) /\ Target(d)' = Target(d),
         \A c \in Conn : Entering(c)' => /\ Entering(c) /\ conn'[c].shown = conn[c].shown
                                         /\ conn'[c].hmac \in {conn[c].hmac, x},
         \A c \in Conn : agentConns' = c => conn'[c].hmac = conn[c].hmac,
         \A d \in Conn \cup {0} : Persisting(d)' =>
           conn'[Target(d)].hmac = conn[Target(d)].hmac,
         \A l \in loops' : l.of = link /\ agentConns \notin {0, link} =>
           conn[agentConns].hmac = 0 \/ \E k \in loops : k.of = link
  PROVE  Agreed(x, h)'
<1>0. /\ link \in Conn \cup {0} /\ 0 \notin Conn /\ agentConns \in Conn \cup {0}
      /\ \A d \in Conn \cup {0} : Persisting(d) => Target(d) \in Conn
      /\ \A l \in loops' : l.of # 0
  <2>1. loops' \subseteq [of : Conn, forever : BOOLEAN, send : Nat]
    BY DEF LinkInv, LinkShape
  <2> QED BY <2>1, LinkFacts DEF Stages
<1>1. EndsWith(h)' /\ h \in {0, x} /\ (NonePersists' => store' = x)
  BY DEF Agreed
<1>2. ASSUME NEW d \in Conn \cup {0}, Persisting(d)'
      PROVE  /\ conn'[Target(d)'].hmac = x /\ h = x /\ x # 0 /\ store' \in {0, x}
             /\ \A c \in Conn : Entering(c)' /\ conn'[c].shown = 0 => conn'[c].hmac = x
             /\ Target(d)' = link' /\ agentConns' \notin {0, link'} => conn'[agentConns'].hmac = 0
  <2>1. Persisting(d) /\ Target(d)' = Target(d) /\ Target(d) \in Conn
    BY <1>0, <1>2
  <2>2. /\ conn[Target(d)].hmac = x /\ h = x /\ x # 0 /\ store \in {0, x}
        /\ \A c \in Conn : Entering(c) /\ conn[c].shown = 0 => conn[c].hmac = x
        /\ Target(d) = link /\ agentConns \notin {0, link} => conn[agentConns].hmac = 0
    BY <2>1 DEF Agreed
  <2>3. conn'[Target(d)'].hmac = x /\ store' \in {0, x}
    BY <1>2, <2>1, <2>2
  <2>4. \A c \in Conn : Entering(c)' /\ conn'[c].shown = 0 => conn'[c].hmac = x
    BY <2>2
  <2>5. Target(d)' = link' /\ agentConns' \notin {0, link'} => conn'[agentConns'].hmac = 0
    BY <1>0, <2>1, <2>2
  <2> QED BY <2>2, <2>3, <2>4, <2>5
<1>3. \A c \in Conn : (agentConns' = c \/ Entering(c)') /\ conn'[c].hmac # 0 => conn'[c].hmac = x
  BY <1>0 DEF Agreed
<1>4. \A l \in loops' : l.of = link' /\ agentConns' \notin {0, link'} => conn'[agentConns'].hmac = 0
  BY <1>0 DEF Agreed
<1> QED BY <1>1, <1>2, <1>3, <1>4 DEF Agreed

\* Steps that keep every connection that is not served yet as it is, and make no secret.
LEMMA BaseKept ==
  ASSUME LinkInv, LinkInv', Stages, FirstSecret, LoopsInv',
         agentConns' \in Conn \cup {0} /\ (agentConns' # 0 => conn'[agentConns'].pc = "read"),
         \A c \in Conn : conn'[c].pc \in {"none", "serve"} =>
           /\ conn[c].pc \in {"none", "serve"} /\ conn'[c].hmac = conn[c].hmac
           /\ conn'[c].approved = conn[c].approved /\ conn'[c].box = conn[c].box,
         \A c \in Conn : link' = c => conn'[c].up /\ conn'[c].pc \notin {"none", "done"},
         \A d \in Conn \cup {0} : Persisting(d)' => conn'[Target(d)'].approved,
         pending' # 0 => used' /\ conn'[pending'].pc \notin {"none", "serve"},
         operator'.pc \in {"commit", "persist"} =>
           used' /\ conn'[operator'.of].pc \notin {"none", "serve"},
         \A c \in Conn : conn'[c].pc \in {"pend", "look", "record", "commit", "persist"} => used',
         ~used' => issued' = 0,
         lost => lost',
         issued' = 0 => /\ secret' = 0 /\ store' = 0 /\ loops' = {} /\ NonePersists'
                        /\ \A c \in Conn : /\ conn'[c].shown = 0 /\ conn'[c].hmac = 0
                                           /\ ~conn'[c].approved /\ conn'[c].box = <<>>,
         \A c \in Conn : ~lost' /\ link' = c /\ ~conn'[c].approved /\ conn'[c].pc # "serve" =>
           \/ issued' = 0
           \/ issued' = issued /\ link = c /\ ~conn[c].approved /\ conn[c].pc # "serve"
  PROVE  Stages' /\ LoopsInv' /\ FirstSecret'
<1>1. \A c \in Conn : conn'[c].pc \in {"none", "serve"} =>
        conn'[c].hmac = 0 /\ ~conn'[c].approved /\ conn'[c].box = <<>>
  BY DEF Stages
<1>2. Stages'
  BY <1>1 DEF Stages
<1>4. issued' = 0 => NoSecretYet'
  BY DEF NoSecretYet
<1>6. FirstSecret'
  BY <1>4 DEF FirstSecret
<1> QED BY <1>2, <1>6

Waiting == {"pend", "look", "record", "commit", "persist"}

\* Connections keep their secrets; only their places, messages and errors change.
SteadyConns ==
  \A c \in Conn :
    /\ conn'[c].shown = conn[c].shown /\ conn'[c].hmac = conn[c].hmac
    /\ conn'[c].approved = conn[c].approved
    /\ conn'[c].pc \in {"none", "serve"} =>
         conn'[c].pc = conn[c].pc /\ conn'[c].box = conn[c].box
    /\ conn[c].box = <<>> /\ ~conn[c].approved => conn'[c].box = <<>>
    /\ Entering(c)' => Entering(c)
    /\ conn'[c].pc \in Waiting => used'

SamePersisting ==
  \A d \in Conn \cup {0} : /\ Persisting(d)' <=> Persisting(d)
                           /\ Persisting(d) => Target(d)' = Target(d)

LEMMA SteadyStep ==
  ASSUME ReturnInv, LinkInv', SteadyConns, SamePersisting,
         UNCHANGED <<store, issued>>, used => used', lost => lost', ~revoked' => ~revoked,
         agentConns' \in {agentConns, 0}, agentConns' # 0 => conn'[agentConns'].pc = "read",
         link' \in {link, 0},
         \A c \in Conn : link' = c =>
           /\ conn'[c].up /\ conn'[c].pc \notin {"none", "done"}
           /\ conn'[c].pc # "serve" => issued = 0 \/ conn[c].pc # "serve",
         pending' # 0 => used' /\ conn'[pending'].pc \notin {"none", "serve"},
         operator'.pc \in {"commit", "persist"} =>
           used' /\ conn'[operator'.of].pc \notin {"none", "serve"},
         \A l \in loops' : (\E k \in loops : k.of = l.of) /\ (l.send # 0 => l \in loops),
         issued = 0 => secret' = 0,
         \A h : EndsWith(h) /\ ~lost' => EndsWith(h)'
  PROVE  ReturnInv'
<1>0. LinkInv /\ Stages /\ LoopsInv /\ FirstSecret
  BY DEF ReturnInv
<1>1. /\ link \in Conn \cup {0} /\ 0 \notin Conn /\ agentConns \in Conn \cup {0}
      /\ \A d \in Conn \cup {0} : Persisting(d) => Target(d) \in Conn
      /\ loops \subseteq [of : Conn, forever : BOOLEAN, send : Nat]
  BY <1>0, LinkFacts DEF Stages
<1>2. \A d \in Conn \cup {0} : Persisting(d)' => Persisting(d) /\ Target(d)' = Target(d)
  BY DEF SamePersisting
<1>3. \A d \in Conn \cup {0} : Persisting(d)' =>
        conn'[Target(d)].approved /\ conn'[Target(d)].hmac = conn[Target(d)].hmac
  BY <1>0, <1>1, <1>2 DEF Stages, SteadyConns
<1>8. \A l \in loops' : conn'[l.of].approved /\ (l.send # 0 => l \in loops)
  <2> SUFFICES ASSUME NEW l \in loops' PROVE conn'[l.of].approved /\ (l.send # 0 => l \in loops)
    OBVIOUS
  <2>1. PICK k \in loops : k.of = l.of
    OBVIOUS
  <2>2. conn[k.of].approved /\ k.of \in Conn
    BY <1>0, <1>1 DEF LoopsInv
  <2> QED BY <2>1, <2>2 DEF SteadyConns
<1>4. LoopsInv'
  BY <1>0, <1>8 DEF LoopsInv
<1>5. issued' = 0 => /\ secret' = 0 /\ store' = 0 /\ loops' = {} /\ NonePersists'
                    /\ \A c \in Conn : /\ conn'[c].shown = 0 /\ conn'[c].hmac = 0
                                       /\ ~conn'[c].approved /\ conn'[c].box = <<>>
  BY <1>0 DEF FirstSecret, NoSecretYet, SteadyConns, SamePersisting, NonePersists
<1>6. Stages' /\ LoopsInv' /\ FirstSecret'
  <2>1. agentConns' \in Conn \cup {0}
    BY <1>1
  <2>2. \A c \in Conn : conn'[c].pc \in {"none", "serve"} =>
           /\ conn[c].pc \in {"none", "serve"} /\ conn'[c].hmac = conn[c].hmac
           /\ conn'[c].approved = conn[c].approved /\ conn'[c].box = conn[c].box
    BY DEF SteadyConns
  <2>3. \A c \in Conn : link' = c => conn'[c].up /\ conn'[c].pc \notin {"none", "done"}
    OBVIOUS
  <2>4. \A c \in Conn : conn'[c].pc \in {"pend", "look", "record", "commit", "persist"} => used'
    BY DEF SteadyConns, Waiting
  <2>5. \A d \in Conn \cup {0} : Persisting(d)' => conn'[Target(d)'].approved
    BY <1>2, <1>3
  <2>6. \A c \in Conn : ~lost' /\ link' = c /\ ~conn'[c].approved /\ conn'[c].pc # "serve" =>
           \/ issued' = 0
           \/ issued' = issued /\ link = c /\ ~conn[c].approved /\ conn[c].pc # "serve"
    BY <1>1 DEF SteadyConns
  <2>7. ~used' => issued' = 0
    BY <1>0 DEF FirstSecret
  <2> QED BY <1>0, <1>4, <1>5, <2>1, <2>2, <2>3, <2>4, <2>5, <2>6, <2>7, BaseKept
<1>7. ASSUME ~lost', ~revoked' PROVE \E x \in 0..issued' : \E h \in {0, x} : Agreed(x, h)'
  <2>1. PICK x \in 0..issued : \E h \in {0, x} : Agreed(x, h)
    BY <1>7 DEF ReturnInv
  <2>2. PICK h \in {0, x} : Agreed(x, h)
    BY <2>1
  <2>3. EndsWith(h)'
    BY <1>7, <2>2 DEF Agreed
  <2>4. NonePersists' => store' = x
    BY <2>2 DEF NonePersists, SamePersisting, Agreed
  <2>5. \A c \in Conn : Entering(c)' => /\ Entering(c) /\ conn'[c].shown = conn[c].shown
                                        /\ conn'[c].hmac \in {conn[c].hmac, x}
    BY DEF SteadyConns
  <2>6. \A c \in Conn : agentConns' = c => conn'[c].hmac = conn[c].hmac
    BY DEF SteadyConns
  <2>7. \A d \in Conn \cup {0} : Persisting(d)' => conn'[Target(d)].hmac = conn[Target(d)].hmac
    BY <1>3
  <2>8. store' \in {store, x}
    OBVIOUS
  <2>9. \A l \in loops' : l.of = link /\ agentConns \notin {0, link} =>
           conn[agentConns].hmac = 0 \/ \E k \in loops : k.of = link
    OBVIOUS
  <2>10. Agreed(x, h)'
    BY <1>0, <1>2, <2>2, <2>3, <2>4, <2>5, <2>6, <2>7, <2>8, <2>9, AgreedKept
  <2> QED BY <2>1, <2>10
<1> QED BY <1>6, <1>7 DEF ReturnInv

LEMMA PersistSame ==
  ASSUME operator' = operator, \A c \in Conn : conn'[c].pc = "persist" <=> conn[c].pc = "persist"
  PROVE  SamePersisting
BY DEF SamePersisting, Persisting, At, Target, Conn

\* What is read is the last message, or does not change the last one.
LEMMA LastStays ==
  ASSUME NEW S, NEW b \in Seq(S), b # <<>>
  PROVE  \/ Tail(b) = <<>> /\ Head(b) = b[Len(b)]
         \/ Tail(b) # <<>> /\ Tail(b)[Len(Tail(b))] = b[Len(b)]
<1> DEFINE t == Tail(b)
<1>1. /\ Len(b) \in Nat /\ Len(b) > 0 /\ Head(b) = b[1]
      /\ t \in Seq(S) /\ Len(t) = Len(b) - 1 /\ \A i \in 1..Len(t) : t[i] = b[i + 1]
  OBVIOUS
<1> HIDE DEF t
<1>2. CASE Len(b) = 1
  <2>1. t = <<>>
    BY <1>1, <1>2
  <2> QED BY <1>1, <1>2, <2>1 DEF t
<1>3. CASE Len(b) > 1
  <2>1. t # <<>>
    BY <1>1, <1>3
  <2>2. Len(t) \in 1..Len(t) /\ Len(t) + 1 = Len(b)
    BY <1>1, <1>3
  <2>3. t[Len(t)] = b[Len(b)]
    BY <1>1, <2>2
  <2> QED BY <2>1, <2>3 DEF t
<1> QED BY <1>1, <1>2, <1>3

\* The steps of a connection that make or accept no secret.
LEMMA QuietReturn ==
  ASSUME ReturnInv, LinkInv', NEW c \in Conn,
         ServeJoin(c) \/ ConsumePreApproval(c) \/ Notice(c) \/ UnregisterAgent(c) \/ Receive(c)
  PROVE  ReturnInv'
<1>0. /\ LinkInv /\ Stages /\ LoopsInv /\ FirstSecret
      /\ conn \in [Conn -> ConnShape] /\ conn[c] \in ConnShape /\ 0 \notin Conn
      /\ link \in Conn \cup {0} /\ pending \in Conn \cup {0} /\ agentConns \in Conn \cup {0}
      /\ OperatorShape(operator)
  BY LinkFacts DEF ReturnInv, Stages
<1>1. /\ UNCHANGED <<store, issued, operator, revoked, lost>> /\ link' = link
      /\ used => used'
  BY DEF ServeJoin, ConsumePreApproval, Notice, UnregisterAgent, Receive, hubMaps, agentEnd, linkBounds
<1>2. CASE ServeJoin(c) \/ ConsumePreApproval(c)
  <2>1. PICK pc \in {"pend", "look", "register"} : conn' = [conn EXCEPT ![c].pc = pc]
    BY <1>2 DEF ServeJoin, ConsumePreApproval
  <2>2. \A d \in Conn : /\ conn'[d].shown = conn[d].shown /\ conn'[d].hmac = conn[d].hmac
                        /\ conn'[d].approved = conn[d].approved /\ conn'[d].box = conn[d].box
                        /\ conn'[d].up = conn[d].up /\ (d # c => conn'[d].pc = conn[d].pc)
                        /\ (d = c => conn'[d].pc = pc)
    BY <1>0, <2>1 DEF ConnShape
  <2>3. /\ UNCHANGED <<secret, agentConns, loops>> /\ used'
        /\ conn[c].pc \in {"serve", "pend"} /\ pending' \in {pending, c}
    BY <1>0, <1>2 DEF ServeJoin, ConsumePreApproval, agentEnd, Stages
  <2>4. conn[c].pc = "serve" => issued = 0
    BY <1>0, <1>2 DEF ServeJoin, ConsumePreApproval, FirstSecret
  <2>5. SteadyConns
    BY <2>2, <2>3 DEF SteadyConns, Entering, Waiting
  <2>6. SamePersisting
    <3>1. \A d \in Conn : conn'[d].pc = "persist" <=> conn[d].pc = "persist"
      BY <2>2, <2>3
    <3> QED BY <1>1, <3>1, PersistSame
  <2>7. \A h : EndsWith(h) => EndsWith(h)'
    BY <1>0, <1>1, <2>2, <2>3, EndsKept
  <2>8. \A d \in Conn : link' = d => /\ conn'[d].up /\ conn'[d].pc \notin {"none", "done"}
                                     /\ conn'[d].pc # "serve" => issued = 0 \/ conn[d].pc # "serve"
    BY <1>0, <1>1, <2>2, <2>3, <2>4 DEF Stages
  <2>9. pending' # 0 => used' /\ conn'[pending'].pc \notin {"none", "serve"}
    BY <1>0, <2>2, <2>3 DEF Stages
  <2>10. operator'.pc \in {"commit", "persist"} =>
           used' /\ conn'[operator'.of].pc \notin {"none", "serve"}
    BY <1>0, <1>1, <2>2, <2>3 DEF Stages, OperatorShape
  <2>11. agentConns' # 0 => conn'[agentConns'].pc = "read"
    BY <1>0, <2>2, <2>3 DEF Stages
  <2>12. issued = 0 => secret' = 0
    BY <1>0, <2>3 DEF FirstSecret, NoSecretYet
  <2> QED BY <1>1, <2>3, <2>5, <2>6, <2>7, <2>8, <2>9, <2>10, <2>11, <2>12, SteadyStep
<1>3. ASSUME \A d \in Conn : /\ conn'[d].shown = conn[d].shown /\ conn'[d].hmac = conn[d].hmac
                             /\ conn'[d].approved = conn[d].approved
                             /\ conn'[d].pc = conn[d].pc
                               \/ (conn[d].pc = "read" /\ conn'[d].pc = "done" /\ ~conn[d].up),
             \A d \in Conn : /\ (conn[d].box = <<>> => conn'[d].box = <<>>)
                             /\ link = d => conn'[d].up,
             used' = used, pending' \in {0, pending}, agentConns' \in {0, agentConns},
             agentConns' # 0 => conn'[agentConns'].pc = "read",
             loops' \subseteq loops, issued = 0 => secret' = 0,
             \A h : EndsWith(h) => EndsWith(h)'
      PROVE  ReturnInv'
  <2>1. SteadyConns
    BY <1>0, <1>3 DEF SteadyConns, Entering, Waiting, Stages
  <2>2. SamePersisting
    <3>1. \A d \in Conn : conn'[d].pc = "persist" <=> conn[d].pc = "persist"
      BY <1>3
    <3> QED BY <1>1, <3>1, PersistSame
  <2>3. \A d \in Conn : link' = d => /\ conn'[d].up /\ conn'[d].pc \notin {"none", "done"}
                                     /\ conn'[d].pc # "serve" => issued = 0 \/ conn[d].pc # "serve"
    BY <1>0, <1>1, <1>3 DEF Stages
  <2>4. pending' # 0 => used' /\ conn'[pending'].pc \notin {"none", "serve"}
    BY <1>0, <1>3 DEF Stages
  <2>5. operator'.pc \in {"commit", "persist"} =>
           used' /\ conn'[operator'.of].pc \notin {"none", "serve"}
    BY <1>0, <1>1, <1>3 DEF Stages, OperatorShape
  <2>6. \A l \in loops' : (\E k \in loops : k.of = l.of) /\ (l.send # 0 => l \in loops)
    BY <1>3
  <2> QED BY <1>1, <1>3, <2>1, <2>2, <2>3, <2>4, <2>5, <2>6, SteadyStep
<1>4. CASE Notice(c)
  <2>1. \A d \in Conn : /\ conn'[d].shown = conn[d].shown /\ conn'[d].hmac = conn[d].hmac
                        /\ conn'[d].approved = conn[d].approved /\ conn'[d].box = conn[d].box
                        /\ conn'[d].pc = conn[d].pc /\ (d # c => conn'[d].up = conn[d].up)
    BY <1>0, <1>4 DEF Notice, ConnShape
  <2>2. UNCHANGED <<secret, agentConns, loops, used, pending>> /\ link # c
    BY <1>4 DEF Notice, agentEnd, hubMaps
  <2>3. \A h : EndsWith(h) => EndsWith(h)'
    BY <1>0, <1>1, <2>1, <2>2, EndsKept
  <2>4. agentConns' # 0 => conn'[agentConns'].pc = "read"
    BY <1>0, <2>1, <2>2 DEF Stages
  <2>5. issued = 0 => secret' = 0
    BY <1>0, <2>2 DEF FirstSecret, NoSecretYet
  <2> QED BY <1>0, <1>3, <2>1, <2>2, <2>3, <2>4, <2>5 DEF Stages
<1>5. CASE UnregisterAgent(c)
  <2>1. /\ UNCHANGED <<secret, used>> /\ conn[c].pc = "read" /\ ~conn[c].up
        /\ agentConns' = (IF agentConns = c THEN 0 ELSE agentConns) /\ pending' \in {0, pending}
        /\ loops' = {l \in loops : l.of # c \/ l.forever}
    BY <1>5 DEF UnregisterAgent, agentEnd
  <2>2. \A d \in Conn : /\ conn'[d].shown = conn[d].shown /\ conn'[d].hmac = conn[d].hmac
                        /\ conn'[d].approved = conn[d].approved /\ conn'[d].box = conn[d].box
                        /\ conn'[d].up = conn[d].up /\ (d # c => conn'[d].pc = conn[d].pc)
                        /\ (d = c => conn'[d].pc = "done")
    BY <1>0, <1>5 DEF UnregisterAgent, ConnShape
  <2>3. link # c
    BY <1>0, <2>1 DEF Stages
  <2>4. \A h : EndsWith(h) => EndsWith(h)'
    <3>1. \A l : l.of = link /\ l.send # 0 => (l \in loops' <=> l \in loops)
      BY <2>1, <2>3
    <3>2. link # 0 => conn'[link].box = conn[link].box
      BY <1>0, <2>2
    <3> QED BY <1>0, <1>1, <2>1, <3>1, <3>2, EndsKept
  <2>5. agentConns' # 0 => conn'[agentConns'].pc = "read"
    BY <1>0, <2>1, <2>2 DEF Stages
  <2>6. issued = 0 => secret' = 0
    BY <1>0, <2>1 DEF FirstSecret, NoSecretYet
  <2>7. \A d \in Conn : link = d => conn'[d].up
    BY <1>0, <2>2 DEF Stages
  <2> QED BY <1>3, <2>1, <2>2, <2>4, <2>5, <2>6, <2>7
<1>6. CASE Receive(c)
  <2> DEFINE b == conn[c].box
  <2>1. /\ link = c /\ b # <<>> /\ secret' = Head(b).hmac
        /\ UNCHANGED <<agentConns, loops, used, pending>>
        /\ conn' = [conn EXCEPT ![c].box = Tail(b)]
    BY <1>0, <1>6 DEF Receive, hubMaps
  <2>2. \A d \in Conn : /\ conn'[d].shown = conn[d].shown /\ conn'[d].hmac = conn[d].hmac
                        /\ conn'[d].approved = conn[d].approved /\ conn'[d].up = conn[d].up
                        /\ conn'[d].pc = conn[d].pc /\ (d # c => conn'[d].box = conn[d].box)
                        /\ (d = c => conn'[d].box = Tail(b))
    BY <1>0, <2>1 DEF ConnShape
  <2>3. b \in Seq(Message)
    BY <1>0 DEF ConnShape
  <2>4. \/ Tail(b) = <<>> /\ Head(b) = b[Len(b)]
        \/ Tail(b) # <<>> /\ Tail(b)[Len(Tail(b))] = b[Len(b)]
    BY <2>1, <2>3, LastStays
  <2> HIDE DEF b
  <2>5. ASSUME NEW h, EndsWith(h) PROVE EndsWith(h)'
    <3>1. CASE \E l \in loops : l.of = link /\ l.send # 0
      BY <1>1, <2>1, <2>5, <3>1 DEF EndsWith
    <3>2. CASE ~\E l \in loops : l.of = link /\ l.send # 0
      <4>1. b[Len(b)].hmac = h
        BY <1>0, <2>1, <2>5, <3>2 DEF EndsWith, b
      <4>2. ~\E l \in loops' : l.of = link' /\ l.send # 0
        BY <1>1, <2>1, <3>2
      <4>3. link' = c /\ link' # 0 /\ conn'[link'].box = Tail(b)
        BY <1>0, <1>1, <2>1, <2>2
      <4>4. CASE Tail(b) = <<>> /\ Head(b) = b[Len(b)]
        BY <2>1, <4>1, <4>2, <4>3, <4>4 DEF EndsWith
      <4>5. CASE Tail(b) # <<>> /\ Tail(b)[Len(Tail(b))] = b[Len(b)]
        BY <4>1, <4>2, <4>3, <4>5 DEF EndsWith
      <4> QED BY <2>4, <4>4, <4>5
    <3> QED BY <3>1, <3>2
  <2>6. issued # 0
    BY <1>0, <2>1 DEF FirstSecret, NoSecretYet, b
  <2>7. agentConns' # 0 => conn'[agentConns'].pc = "read"
    BY <1>0, <2>1, <2>2 DEF Stages
  <2>8. \A d \in Conn : /\ (conn[d].box = <<>> => conn'[d].box = <<>>)
                        /\ link = d => conn'[d].up
    BY <1>0, <2>1, <2>2 DEF Stages, b
  <2> QED BY <1>3, <2>1, <2>2, <2>5, <2>6, <2>7, <2>8
<1> QED BY <1>2, <1>4, <1>5, <1>6

\* Every goroutine but one is where it was, and that one persists nothing.
LEMMA PersistOthers ==
  ASSUME LinkInv, NEW c \in Conn, operator' = operator,
         \A d \in Conn \ {c} : conn'[d] = conn[d],
         conn[c].pc # "persist", conn'[c].pc # "persist"
  PROVE  SamePersisting
<1>1. \A d \in Conn : conn'[d].pc = "persist" <=> conn[d].pc = "persist"
  OBVIOUS
<1> QED BY <1>1, PersistSame

\* A connection is refused.
LEMMA RefuseReturn ==
  ASSUME ReturnInv, LinkInv', NEW c \in Conn, conn[c].pc = "serve", Refuse(c),
         UNCHANGED <<secret, store, used, hubMaps, operator, loops, issued, linkBounds, lost>>
  PROVE  ReturnInv'
<1>0. /\ LinkInv /\ Stages /\ LoopsInv /\ FirstSecret
      /\ conn \in [Conn -> ConnShape] /\ conn[c] \in ConnShape /\ 0 \notin Conn
      /\ link \in Conn \cup {0} /\ pending \in Conn \cup {0} /\ agentConns \in Conn \cup {0}
      /\ OperatorShape(operator)
  BY LinkFacts DEF ReturnInv, Stages
<1>1. /\ UNCHANGED <<secret, store, issued, used, pending, agentConns, operator, loops, revoked, lost>>
      /\ link' = IF link = c THEN 0 ELSE link
  BY DEF Refuse, hubMaps, linkBounds
<1>2. \A d \in Conn : /\ conn'[d].shown = conn[d].shown /\ conn'[d].hmac = conn[d].hmac
                      /\ conn'[d].approved = conn[d].approved /\ conn'[d].box = conn[d].box
                      /\ (d # c => conn'[d] = conn[d]) /\ (d = c => conn'[d].pc = "done")
  BY <1>0 DEF Refuse, ConnShape
<1>3. SteadyConns
  BY <1>0, <1>1, <1>2 DEF SteadyConns, Entering, Waiting, Stages
<1>4. SamePersisting
  BY <1>0, <1>1, <1>2, PersistOthers
<1>5. ~InFlight(c) /\ agentConns # c
  BY <1>0 DEF InFlight, Stages, LoopsInv
<1>6. \A h : EndsWith(h) => EndsWith(h)'
  <2>1. CASE link = c
    BY <1>0, <1>1, <1>5, <2>1, EndsKept
  <2>2. CASE link # c
    <3>1. link' = link /\ (link # 0 => conn'[link].box = conn[link].box)
      BY <1>0, <1>1, <1>2, <2>2
    <3> QED BY <1>0, <1>1, <3>1, EndsKept
  <2> QED BY <2>1, <2>2
<1>7. \A d \in Conn : link' = d => /\ conn'[d].up /\ conn'[d].pc \notin {"none", "done"}
                                   /\ conn'[d].pc # "serve" => issued = 0 \/ conn[d].pc # "serve"
  BY <1>0, <1>1, <1>2 DEF Stages
<1>8. pending' # 0 => used' /\ conn'[pending'].pc \notin {"none", "serve"}
  BY <1>0, <1>1, <1>2 DEF Stages
<1>9. operator'.pc \in {"commit", "persist"} =>
        used' /\ conn'[operator'.of].pc \notin {"none", "serve"}
  BY <1>0, <1>1, <1>2 DEF Stages, OperatorShape
<1>10. agentConns' # 0 => conn'[agentConns'].pc = "read"
  BY <1>0, <1>1, <1>2 DEF Stages
<1>11. issued = 0 => secret' = 0
  BY <1>0, <1>1 DEF FirstSecret, NoSecretYet
<1>12. link' \in {link, 0}
  BY <1>1
<1> QED BY <1>1, <1>3, <1>4, <1>6, <1>7, <1>8, <1>9, <1>10, <1>11, <1>12, SteadyStep

\* A connection is accepted: with a secret that was given, which is the gateway's.
LEMMA AcceptReturn ==
  ASSUME ReturnInv, LinkInv', NEW c \in Conn, conn[c].pc = "serve", NEW s \in Nat,
         conn' = [conn EXCEPT ![c].pc = "register", ![c].hmac = s, ![c].approved = TRUE],
         UNCHANGED <<secret, link, used, hubMaps, operator, loops, linkBounds, lost>>,
         issued' # 0, used \/ issued' = issued,
         issued' = issued \/ EntersAlone,
         ~lost /\ ~revoked => \E x \in 0..issued' : \E h \in {0, x} : Agreed(x, h)'
  PROVE  ReturnInv'
<1>0. /\ LinkInv /\ Stages /\ LoopsInv /\ FirstSecret
      /\ conn \in [Conn -> ConnShape] /\ conn[c] \in ConnShape /\ 0 \notin Conn
      /\ link \in Conn \cup {0} /\ pending \in Conn \cup {0} /\ agentConns \in Conn \cup {0}
      /\ OperatorShape(operator)
      /\ loops \subseteq [of : Conn, forever : BOOLEAN, send : Nat]
      /\ \A d \in Conn \cup {0} : Persisting(d) => Target(d) \in Conn
  BY LinkFacts DEF ReturnInv, Stages
<1>1. UNCHANGED <<secret, used, pending, agentConns, operator, loops, revoked, lost, link>>
  BY DEF hubMaps, linkBounds
<1>2. \A d \in Conn : /\ (d # c => conn'[d] = conn[d])
                      /\ (d = c => /\ conn'[d].pc = "register" /\ conn'[d].approved
                                   /\ conn'[d].up = conn[d].up)
  BY <1>0 DEF ConnShape
<1>3. SamePersisting
  BY <1>0, <1>1, <1>2, PersistOthers
<1>4. LoopsInv'
  BY <1>0, <1>1, <1>2 DEF LoopsInv
<1>5. agentConns' \in Conn \cup {0} /\ (agentConns' # 0 => conn'[agentConns'].pc = "read")
  BY <1>0, <1>1, <1>2 DEF Stages
<1>6. \A d \in Conn : conn'[d].pc \in {"none", "serve"} =>
        /\ conn[d].pc \in {"none", "serve"} /\ conn'[d].hmac = conn[d].hmac
        /\ conn'[d].approved = conn[d].approved /\ conn'[d].box = conn[d].box
  BY <1>2
<1>7. \A d \in Conn : link' = d => conn'[d].up /\ conn'[d].pc \notin {"none", "done"}
  BY <1>0, <1>1, <1>2 DEF Stages
<1>8. \A d \in Conn \cup {0} : Persisting(d)' => conn'[Target(d)'].approved
  BY <1>0, <1>2, <1>3 DEF Stages, SamePersisting
<1>9. pending' # 0 => used' /\ conn'[pending'].pc \notin {"none", "serve"}
  BY <1>0, <1>1, <1>2 DEF Stages
<1>10. operator'.pc \in {"commit", "persist"} =>
         used' /\ conn'[operator'.of].pc \notin {"none", "serve"}
  BY <1>0, <1>1, <1>2 DEF Stages, OperatorShape
<1>11. \A d \in Conn : conn'[d].pc \in {"pend", "look", "record", "commit", "persist"} => used'
  BY <1>0, <1>1, <1>2 DEF Stages
<1>12. \A d \in Conn : ~lost' /\ link' = d /\ ~conn'[d].approved /\ conn'[d].pc # "serve" =>
         \/ issued' = 0
         \/ issued' = issued /\ link = d /\ ~conn[d].approved /\ conn[d].pc # "serve"
  BY <1>0, <1>1, <1>2 DEF LinkInv, EntersAlone, Entering, Stages
<1>13. ~used' => issued' = 0
  BY <1>0, <1>1 DEF FirstSecret
<1>15. /\ issued' # 0
       /\ lost => lost'
  BY <1>1
<1>14. Stages' /\ LoopsInv' /\ FirstSecret'
  BY <1>0, <1>4, <1>5, <1>6, <1>7, <1>8, <1>9, <1>10, <1>11, <1>12, <1>13, <1>15, BaseKept
<1> QED BY <1>1, <1>14 DEF ReturnInv

\* A connection that shows a secret: the gateway's is accepted.
LEMMA ServeHMACReturn ==
  ASSUME ReturnInv, LinkInv', NEW c \in Conn, ServeHMAC(c)
  PROVE  ReturnInv'
<1>0. /\ LinkInv /\ Stages /\ LoopsInv /\ FirstSecret
      /\ conn \in [Conn -> ConnShape] /\ conn[c] \in ConnShape /\ 0 \notin Conn
      /\ link \in Conn \cup {0} /\ agentConns \in Conn \cup {0} /\ issued \in Nat
      /\ \A d \in Conn \cup {0} : Persisting(d) => Target(d) \in Conn
  BY LinkFacts DEF ReturnInv, Stages
<1>1. /\ conn[c].pc = "serve" /\ conn[c].shown # 0 /\ conn[c].shown \in Nat
      /\ UNCHANGED <<secret, store, used, hubMaps, operator, loops, issued, linkBounds, lost>>
  BY <1>0 DEF ServeHMAC, ConnShape
<1>2. CASE Refuse(c)
  BY <1>1, <1>2, RefuseReturn
<1>3. CASE /\ conn[c].shown = StoredHMAC
           /\ conn' = [conn EXCEPT ![c].pc = "register", ![c].hmac = StoredHMAC, ![c].approved = TRUE]
           /\ link' = link
  <2>1. issued # 0
    BY <1>0, <1>1 DEF FirstSecret, NoSecretYet
  <2>2. conn' = [conn EXCEPT ![c].pc = "register", ![c].hmac = conn[c].shown, ![c].approved = TRUE]
    BY <1>3
  <2>3. /\ \A d \in Conn : d # c => conn'[d] = conn[d]
        /\ conn'[c].pc = "register" /\ conn'[c].hmac = conn[c].shown
        /\ conn'[c].shown = conn[c].shown /\ conn'[c].box = conn[c].box
    BY <1>0, <2>2 DEF ConnShape
  <2>4. ASSUME ~lost, ~revoked PROVE \E x \in 0..issued' : \E h \in {0, x} : Agreed(x, h)'
    <3>1. PICK x \in 0..issued : \E h \in {0, x} : Agreed(x, h)
      BY <2>4 DEF ReturnInv
    <3>2. PICK h \in {0, x} : Agreed(x, h)
      BY <3>1
    <3>3. conn[c].shown = x
      <4>1. CASE agentConns # 0 /\ conn[agentConns].hmac # 0
        BY <1>0, <1>3, <3>2, <4>1 DEF StoredHMAC, Agreed
      <4>2. CASE ~(agentConns # 0 /\ conn[agentConns].hmac # 0)
        <5>1. store # 0 /\ conn[c].shown = store
          BY <1>1, <1>3, <4>2 DEF StoredHMAC
        <5>2. store \in {0, x}
          BY <3>2 DEF Agreed, NonePersists
        <5> QED BY <5>1, <5>2
      <4> QED BY <4>1, <4>2
    <3>4. EndsWith(h)'
      <4>1. EndsWith(h)
        BY <3>2 DEF Agreed
      <4>2. link # 0 => conn'[link].box = conn[link].box
        BY <1>0, <2>3
      <4> QED BY <1>0, <1>1, <1>3, <4>1, <4>2, EndsKept
    <3>5. SamePersisting
      BY <1>0, <1>1, <2>3, PersistOthers
    <3>6. /\ \A d \in Conn \cup {0} : Persisting(d)' => Persisting(d) /\ Target(d)' = Target(d)
          /\ NonePersists' => NonePersists
      BY <3>5 DEF SamePersisting, NonePersists
    <3>7. NonePersists' => store' = x
      BY <1>1, <3>2, <3>6 DEF Agreed
    <3>8. \A d \in Conn : Entering(d)' => /\ Entering(d) /\ conn'[d].shown = conn[d].shown
                                          /\ conn'[d].hmac \in {conn[d].hmac, x}
      BY <1>1, <2>3, <3>3 DEF Entering
    <3>9. agentConns' = agentConns /\ agentConns # c
      BY <1>0, <1>1 DEF hubMaps, Stages
    <3>10. \A d \in Conn : agentConns' = d => conn'[d].hmac = conn[d].hmac
      BY <2>3, <3>9
    <3>11. \A d \in Conn \cup {0} : Persisting(d)' => conn'[Target(d)].hmac = conn[Target(d)].hmac
      <4>1. \A d \in Conn \cup {0} : Persisting(d) => Target(d) # c
        BY <1>0, <1>1 DEF Stages
      <4> QED BY <1>0, <2>3, <3>6, <4>1
    <3>12. loops' = loops /\ store' = store
      BY <1>1
    <3>13. Agreed(x, h)'
      BY <1>0, <1>3, <3>2, <3>4, <3>6, <3>7, <3>8, <3>9, <3>10, <3>11, <3>12, AgreedKept
    <3> QED BY <1>1, <3>1, <3>13
  <2>5. issued' # 0 /\ issued' = issued
    BY <1>1, <2>1
  <2>6. used \/ issued' = issued
    BY <2>5
  <2>7. issued' = issued \/ EntersAlone
    BY <2>5
  <2>8. UNCHANGED <<secret, link, used, hubMaps, operator, loops, linkBounds, lost>>
    BY <1>1, <1>3
  <2> QED BY <1>1, <2>2, <2>4, <2>5, <2>6, <2>7, <2>8, AcceptReturn
<1> QED BY <1>2, <1>3 DEF ServeHMAC

\* A connection that shows a consumed token: what is kept for the Agent is sent again.
LEMMA ServeConsumedReturn ==
  ASSUME ReturnInv, LinkInv', NEW c \in Conn, ServeConsumed(c)
  PROVE  ReturnInv'
<1>0. /\ LinkInv /\ Stages /\ LoopsInv /\ FirstSecret /\ EntersAlone
      /\ conn \in [Conn -> ConnShape] /\ conn[c] \in ConnShape /\ 0 \notin Conn
      /\ link \in Conn \cup {0} /\ agentConns \in Conn \cup {0} /\ issued \in Nat /\ store \in Nat
      /\ \A d \in Conn \cup {0} : Persisting(d) => Target(d) \in Conn
  BY LinkFacts DEF ReturnInv, Stages, LinkInv
<1>1. /\ conn[c].pc = "serve" /\ conn[c].shown = 0 /\ used /\ conn[c].hmac = 0
      /\ UNCHANGED <<secret, used, hubMaps, operator, loops, linkBounds, lost>>
  BY <1>0 DEF ServeConsumed, Stages
<1>2. CASE Refuse(c) /\ UNCHANGED <<store, issued>>
  BY <1>1, <1>2, RefuseReturn
<1>3. CASE /\ conn' = [conn EXCEPT ![c].pc = "register", ![c].hmac = store, ![c].approved = TRUE]
           /\ store' = IF store = 0 THEN issued + 1 ELSE store
           /\ issued' = IF store = 0 THEN issued + 1 ELSE issued
           /\ link' = link
  <2>1. issued' # 0 /\ issued' \in Nat
    BY <1>0, <1>3 DEF FirstSecret, NoSecretYet
  <2>3. /\ \A d \in Conn : d # c => conn'[d] = conn[d]
        /\ conn'[c].pc = "register" /\ conn'[c].hmac = store
        /\ conn'[c].shown = conn[c].shown /\ conn'[c].box = conn[c].box
    BY <1>0, <1>3 DEF ConnShape
  <2>5. SamePersisting
    BY <1>0, <1>1, <2>3, PersistOthers
  <2>6. /\ \A d \in Conn \cup {0} : Persisting(d)' => Persisting(d) /\ Target(d)' = Target(d)
        /\ NonePersists' => NonePersists
    BY <2>5 DEF SamePersisting, NonePersists
  <2>7. agentConns' = agentConns /\ agentConns # c /\ loops' = loops
    BY <1>0, <1>1 DEF hubMaps, Stages
  <2>8. ASSUME NEW h, EndsWith(h) PROVE EndsWith(h)'
    <3>1. link # 0 => conn'[link].box = conn[link].box
      BY <1>0, <2>3
    <3> QED BY <1>0, <1>1, <1>3, <2>8, <3>1, EndsKept
  <2>4. ASSUME ~lost, ~revoked PROVE \E x \in 0..issued' : \E h \in {0, x} : Agreed(x, h)'
    <3>1. PICK x \in 0..issued : \E h \in {0, x} : Agreed(x, h)
      BY <2>4 DEF ReturnInv
    <3>2. PICK h \in {0, x} : Agreed(x, h)
      BY <3>1
    <3>3. NonePersists
      <4>1. Entering(c)
        BY <1>1 DEF Entering
      <4>2. ASSUME NEW d \in Conn \cup {0}, Persisting(d) PROVE FALSE
        BY <1>1, <3>2, <4>1, <4>2 DEF Agreed
      <4> QED BY <4>2 DEF NonePersists
    <3>4. store = x /\ EndsWith(h)'
      BY <2>8, <3>2, <3>3 DEF Agreed
    <3>5. \A d \in Conn \cup {0} : ~Persisting(d)'
      BY <2>6, <3>3 DEF NonePersists
    <3>6. CASE store # 0
      <4>1. \A d \in Conn : Entering(d)' => /\ Entering(d) /\ conn'[d].shown = conn[d].shown
                                            /\ conn'[d].hmac \in {conn[d].hmac, x}
        BY <1>1, <2>3, <3>4 DEF Entering
      <4>2. \A d \in Conn : agentConns' = d => conn'[d].hmac = conn[d].hmac
        BY <2>3, <2>7
      <4>3. Agreed(x, h)'
        BY <1>0, <1>3, <2>7, <3>2, <3>4, <3>5, <3>6, <4>1, <4>2, AgreedKept
      <4> QED BY <1>3, <3>6, <4>3
    <3>7. CASE store = 0
      <4>0. PICK y \in Nat : y = issued + 1
        BY <1>0
      <4>1. h = 0 /\ y \in 0..issued' /\ store' = y /\ 0 \in {0, y}
        BY <1>0, <1>3, <3>4, <3>7, <4>0
      <4>2. \A d \in Conn : (agentConns' = d \/ Entering(d)') => conn'[d].hmac = 0
        <5> SUFFICES ASSUME NEW d \in Conn, agentConns' = d \/ Entering(d)' PROVE conn'[d].hmac = 0
          OBVIOUS
        <5>1. CASE d = c
          BY <2>3, <3>7, <5>1
        <5>2. CASE d # c
          <6>1. (agentConns = d \/ Entering(d)) /\ conn'[d] = conn[d]
            BY <2>3, <2>7, <5>2 DEF Entering
          <6> QED BY <3>2, <3>4, <3>7, <6>1 DEF Agreed
        <5> QED BY <5>1, <5>2
      <4>3. agentConns' # 0 => conn'[agentConns'].hmac = 0
        BY <1>0, <2>7, <4>2
      <4>4. EndsWith(0)'
        BY <3>4, <4>1
      <4>5. Agreed(y, 0)'
        BY <3>5, <4>1, <4>2, <4>3, <4>4 DEF Agreed
      <4> QED BY <4>1, <4>5
    <3> QED BY <3>6, <3>7
  <2>9. UNCHANGED <<secret, link, used, hubMaps, operator, loops, linkBounds, lost>>
    BY <1>1, <1>3
  <2>10. used \/ issued' = issued
    BY <1>1
  <2>11. issued' = issued \/ EntersAlone
    BY <1>0
  <2> QED BY <1>0, <1>1, <1>3, <2>1, <2>4, <2>9, <2>10, <2>11, AcceptReturn
<1> QED BY <1>2, <1>3 DEF ServeConsumed

\* A new connection has nothing to read.
LEMMA ConnectReturn ==
  ASSUME ReturnInv, LinkInv', ~Late, NEW c \in Conn, Connect(c)
  PROVE  ReturnInv'
<1>0. /\ LinkInv /\ Stages /\ LoopsInv /\ FirstSecret
      /\ conn \in [Conn -> ConnShape] /\ 0 \notin Conn
      /\ agentConns \in Conn \cup {0} /\ pending \in Conn \cup {0} /\ OperatorShape(operator)
      /\ loops \subseteq [of : Conn, forever : BOOLEAN, send : Nat]
      /\ \A d \in Conn \cup {0} : Persisting(d) => Target(d) \in Conn
  BY LinkFacts DEF ReturnInv, Stages
<1>1. /\ link = 0 /\ link' = c /\ conn[c].pc = "none"
      /\ \A d \in Conn : conn[d].pc \in {"none", "read", "done"}
      /\ UNCHANGED <<secret, store, used, issued, pending, agentConns, operator, loops, revoked, lost>>
  BY DEF Connect, hubMaps, linkBounds
<1>2. /\ \A d \in Conn : d # c => conn'[d] = conn[d]
      /\ conn'[c] = [NoConn EXCEPT !.pc = "serve", !.shown = secret, !.up = TRUE]
  BY <1>0 DEF Connect
<1>3. /\ conn'[c].pc = "serve" /\ conn'[c].shown = secret /\ conn'[c].up
      /\ conn'[c].hmac = 0 /\ ~conn'[c].approved /\ conn'[c].box = <<>>
  BY <1>2 DEF NoConn
<1>4. SamePersisting
  BY <1>0, <1>1, <1>2, <1>3, PersistOthers
<1>5. \A l \in loops : l.of \in Conn /\ conn[l.of].approved /\ l.of # c
  BY <1>0, <1>1 DEF LoopsInv, Stages
<1>6. Stages' /\ LoopsInv' /\ FirstSecret'
  <2>1. LoopsInv'
    BY <1>0, <1>1, <1>2, <1>5 DEF LoopsInv
  <2>2. agentConns' \in Conn \cup {0} /\ (agentConns' # 0 => conn'[agentConns'].pc = "read")
    BY <1>0, <1>1, <1>2 DEF Stages
  <2>3. \A d \in Conn : conn'[d].pc \in {"none", "serve"} =>
          /\ conn[d].pc \in {"none", "serve"} /\ conn'[d].hmac = conn[d].hmac
          /\ conn'[d].approved = conn[d].approved /\ conn'[d].box = conn[d].box
    <3>1. conn[c].hmac = 0 /\ conn[c].approved = FALSE /\ conn[c].box = <<>>
      BY <1>0, <1>1 DEF Stages, ConnShape
    <3>2. conn'[c].approved = FALSE
      BY <1>2 DEF NoConn
    <3> QED BY <1>1, <1>2, <1>3, <3>1, <3>2
  <2>4. \A d \in Conn : link' = d => conn'[d].up /\ conn'[d].pc \notin {"none", "done"}
    BY <1>1, <1>3
  <2>5. \A d \in Conn \cup {0} : Persisting(d)' => conn'[Target(d)'].approved
    BY <1>0, <1>1, <1>2, <1>4 DEF Stages, SamePersisting
  <2>6. pending' # 0 => used' /\ conn'[pending'].pc \notin {"none", "serve"}
    BY <1>0, <1>1, <1>2 DEF Stages
  <2>7. operator'.pc \in {"commit", "persist"} =>
          used' /\ conn'[operator'.of].pc \notin {"none", "serve"}
    BY <1>0, <1>1, <1>2 DEF Stages, OperatorShape
  <2>8. \A d \in Conn : conn'[d].pc \in {"pend", "look", "record", "commit", "persist"} => used'
    BY <1>0, <1>1, <1>2, <1>3 DEF Stages
  <2>9. /\ ~used' => issued' = 0
        /\ lost => lost'
    BY <1>0, <1>1 DEF FirstSecret
  <2>10. issued' = 0 => /\ secret' = 0 /\ store' = 0 /\ loops' = {} /\ NonePersists'
                        /\ \A d \in Conn : /\ conn'[d].shown = 0 /\ conn'[d].hmac = 0
                                           /\ ~conn'[d].approved /\ conn'[d].box = <<>>
    <3> SUFFICES ASSUME issued' = 0
                 PROVE  /\ secret' = 0 /\ store' = 0 /\ loops' = {} /\ NonePersists'
                        /\ \A d \in Conn : /\ conn'[d].shown = 0 /\ conn'[d].hmac = 0
                                           /\ ~conn'[d].approved /\ conn'[d].box = <<>>
      OBVIOUS
    <3>1. NoSecretYet
      BY <1>0, <1>1 DEF FirstSecret
    <3>2. NonePersists'
      BY <1>4, <3>1 DEF NoSecretYet, NonePersists, SamePersisting
    <3>3. secret' = 0 /\ store' = 0 /\ loops' = {}
      BY <1>1, <3>1 DEF NoSecretYet
    <3>4. \A d \in Conn : d # c => /\ conn'[d].shown = 0 /\ conn'[d].hmac = 0
                                   /\ ~conn'[d].approved /\ conn'[d].box = <<>>
      BY <1>2, <3>1 DEF NoSecretYet
    <3>5. conn'[c].shown = 0
      BY <1>1, <1>3, <3>1 DEF NoSecretYet
    <3> QED BY <1>3, <3>2, <3>3, <3>4, <3>5
  <2>11. \A d \in Conn : ~lost' /\ link' = d /\ ~conn'[d].approved /\ conn'[d].pc # "serve" =>
          \/ issued' = 0
          \/ issued' = issued /\ link = d /\ ~conn[d].approved /\ conn[d].pc # "serve"
    BY <1>1, <1>3
  <2> QED BY <1>0, <2>1, <2>2, <2>3, <2>4, <2>5, <2>6, <2>7, <2>8, <2>9, <2>10, <2>11, BaseKept
<1>7. ASSUME ~lost', ~revoked' PROVE \E x \in 0..issued' : \E h \in {0, x} : Agreed(x, h)'
  <2>1. PICK x \in 0..issued : \E h \in {0, x} : Agreed(x, h)
    BY <1>1, <1>7 DEF ReturnInv
  <2>2. PICK h \in {0, x} : Agreed(x, h)
    BY <2>1
  <2>3. secret = h
    BY <1>0, <1>1, <1>5, <2>2 DEF Agreed, EndsWith
  <2>4. EndsWith(h)'
    <3>1. ~\E l \in loops' : l.of = link' /\ l.send # 0
      BY <1>1, <1>5
    <3>2. conn'[link'].box = <<>> /\ secret' = h
      BY <1>1, <1>3, <2>3
    <3> QED BY <3>1, <3>2 DEF EndsWith
  <2>5. NonePersists' => store' = x
    BY <1>1, <1>4, <2>2 DEF Agreed, NonePersists, SamePersisting
  <2>6. \A d \in Conn \cup {0} : Persisting(d)' =>
          /\ conn'[Target(d)'].hmac = x /\ h = x /\ x # 0 /\ store' \in {0, x}
          /\ \A e \in Conn : Entering(e)' /\ conn'[e].shown = 0 => conn'[e].hmac = x
          /\ Target(d)' = link' /\ agentConns' \notin {0, link'} => conn'[agentConns'].hmac = 0
    <3> SUFFICES ASSUME NEW d \in Conn \cup {0}, Persisting(d)'
                 PROVE  /\ conn'[Target(d)'].hmac = x /\ h = x /\ x # 0 /\ store' \in {0, x}
                        /\ \A e \in Conn : Entering(e)' /\ conn'[e].shown = 0 => conn'[e].hmac = x
                        /\ Target(d)' = link' /\ agentConns' \notin {0, link'} =>
                             conn'[agentConns'].hmac = 0
      OBVIOUS
    <3>1. Persisting(d) /\ Target(d)' = Target(d) /\ Target(d) \in Conn
      BY <1>0, <1>4 DEF SamePersisting
    <3>2. conn[Target(d)].hmac = x /\ h = x /\ x # 0 /\ store \in {0, x}
      BY <2>2, <3>1 DEF Agreed
    <3>3. Target(d) # c
      BY <1>0, <1>1, <3>1 DEF Stages
    <3>4. \A e \in Conn : Entering(e)' /\ conn'[e].shown = 0 => conn'[e].hmac = x
      BY <1>1, <1>2, <1>3, <2>3, <3>2 DEF Entering
    <3> QED BY <1>1, <1>2, <3>1, <3>2, <3>3, <3>4
  <2>7. \A d \in Conn : (agentConns' = d \/ Entering(d)') /\ conn'[d].hmac # 0 => conn'[d].hmac = x
    <3> SUFFICES ASSUME NEW d \in Conn, agentConns' = d \/ Entering(d)', conn'[d].hmac # 0
                 PROVE  conn'[d].hmac = x
      OBVIOUS
    <3>1. d # c /\ conn'[d] = conn[d]
      BY <1>2, <1>3
    <3>2. agentConns = d \/ Entering(d)
      BY <1>1, <3>1 DEF Entering
    <3> QED BY <2>2, <3>1, <3>2 DEF Agreed
  <2>8. \A l \in loops' : l.of = link' /\ agentConns' \notin {0, link'} => conn'[agentConns'].hmac = 0
    BY <1>1, <1>5
  <2>9. Agreed(x, h)'
    BY <2>2, <2>4, <2>5, <2>6, <2>7, <2>8 DEF Agreed
  <2> QED BY <1>1, <2>1, <2>9
<1> QED BY <1>6, <1>7 DEF ReturnInv

\* The last element of a sequence that one is appended to.
LEMMA AppendLast ==
  ASSUME NEW S, NEW s \in Seq(S), NEW e \in S
  PROVE  /\ Append(s, e) # <<>> /\ Len(s) \in Nat /\ Len(Append(s, e)) = Len(s) + 1
         /\ Append(s, e)[Len(s) + 1] = e
OBVIOUS

\* The last message of a connection that one is written to.
LEMMA SentLast ==
  ASSUME conn \in [Conn -> ConnShape], NEW c \in Conn, NEW h \in Nat, NEW type
  PROVE  Sent(c, type, h) # <<>> /\ Sent(c, type, h)[Len(Sent(c, type, h))].hmac = h
<1> DEFINE b == conn[c].box
           m == [type |-> type, hmac |-> h]
           S == Message \cup {m}
<1>1. b \in Seq(S) /\ m \in S
  <2>1. b \in Seq(Message)
    BY DEF ConnShape
  <2> HIDE DEF b, m
  <2> QED BY <2>1
<1>2. m.hmac = h
  OBVIOUS
<1> HIDE DEF b, m, S
<1>3. /\ Append(b, m) # <<>> /\ Len(b) \in Nat /\ Len(Append(b, m)) = Len(b) + 1
      /\ Append(b, m)[Len(b) + 1] = m
  BY <1>1, AppendLast
<1> QED BY <1>2, <1>3 DEF Sent, b, m

\* A connection enters the map; it has the gateway's secret, or none.
LEMMA RegisterReturn ==
  ASSUME ReturnInv, LinkInv', NEW c \in Conn, Register(c)
  PROVE  ReturnInv'
<1>0. /\ LinkInv /\ Stages /\ LoopsInv /\ FirstSecret /\ EntersAlone
      /\ conn \in [Conn -> ConnShape] /\ conn[c] \in ConnShape /\ 0 \notin Conn
      /\ link \in Conn \cup {0} /\ pending \in Conn \cup {0} /\ OperatorShape(operator)
      /\ loops \subseteq [of : Conn, forever : BOOLEAN, send : Nat]
      /\ \A d \in Conn \cup {0} : Persisting(d) => Target(d) \in Conn
  BY LinkFacts DEF ReturnInv, Stages, LinkInv
<1>1. /\ conn[c].pc = "register" /\ agentConns' = c /\ link' = link
      /\ UNCHANGED <<secret, store, used, issued, pending, operator, revoked, lost>>
  BY DEF Register, agentEnd, linkBounds
<1> DEFINE repeated == conn[c].approved /\ conn[c].shown = 0 /\ conn[c].up
<1>2. /\ \A d \in Conn : d # c => conn'[d] = conn[d]
      /\ conn'[c].pc = "read" /\ conn'[c].shown = conn[c].shown /\ conn'[c].hmac = conn[c].hmac
      /\ conn'[c].approved = conn[c].approved /\ conn'[c].up = conn[c].up
      /\ conn'[c].box = IF repeated THEN Sent(c, "approve", conn[c].hmac) ELSE conn[c].box
  BY <1>0 DEF Register, ConnShape
<1>3. /\ ~conn[c].approved => loops' = loops
      /\ \A l \in loops' \ loops : l.of = c /\ l.send = 0 /\ conn[c].approved
      /\ \A l : l.send # 0 => (l \in loops' <=> l \in loops)
  <2> DEFINE n == [of |-> c, forever |-> FALSE, send |-> 0]
  <2>1. loops' = IF conn[c].approved THEN loops \cup {n} ELSE loops
    BY DEF Register
  <2>2. n.of = c /\ n.send = 0
    OBVIOUS
  <2> HIDE DEF n
  <2>3. CASE conn[c].approved
    BY <2>1, <2>2, <2>3
  <2>4. CASE ~conn[c].approved
    BY <2>1, <2>4
  <2> QED BY <2>3, <2>4
<1>4. SamePersisting
  BY <1>0, <1>1, <1>2, PersistOthers
<1>5. Entering(c) /\ link \in {c, 0}
  BY <1>0, <1>1 DEF Entering, EntersAlone
<1>6. Stages' /\ LoopsInv' /\ FirstSecret'
  <2>1. LoopsInv'
    <3>1. \A l \in loops' : conn'[l.of].approved
      BY <1>0, <1>2, <1>3 DEF LoopsInv
    <3>2. \A k, l \in loops' : k.of = l.of /\ k.send # 0 /\ l.send # 0 => k = l
      BY <1>0, <1>3 DEF LoopsInv
    <3> QED BY <3>1, <3>2 DEF LoopsInv
  <2>2. agentConns' \in Conn \cup {0} /\ (agentConns' # 0 => conn'[agentConns'].pc = "read")
    BY <1>1, <1>2
  <2>3. \A d \in Conn : conn'[d].pc \in {"none", "serve"} =>
          /\ conn[d].pc \in {"none", "serve"} /\ conn'[d].hmac = conn[d].hmac
          /\ conn'[d].approved = conn[d].approved /\ conn'[d].box = conn[d].box
    BY <1>2
  <2>4. \A d \in Conn : link' = d => conn'[d].up /\ conn'[d].pc \notin {"none", "done"}
    BY <1>0, <1>1, <1>2 DEF Stages
  <2>5. \A d \in Conn \cup {0} : Persisting(d)' => conn'[Target(d)'].approved
    BY <1>0, <1>1, <1>2, <1>4 DEF Stages, SamePersisting
  <2>6. pending' # 0 => used' /\ conn'[pending'].pc \notin {"none", "serve"}
    BY <1>0, <1>1, <1>2 DEF Stages
  <2>7. operator'.pc \in {"commit", "persist"} =>
          used' /\ conn'[operator'.of].pc \notin {"none", "serve"}
    BY <1>0, <1>1, <1>2 DEF Stages, OperatorShape
  <2>8. \A d \in Conn : conn'[d].pc \in {"pend", "look", "record", "commit", "persist"} => used'
    BY <1>0, <1>1, <1>2 DEF Stages
  <2>9. /\ ~used' => issued' = 0
        /\ lost => lost'
    BY <1>0, <1>1 DEF FirstSecret
  <2>10. issued' = 0 => /\ secret' = 0 /\ store' = 0 /\ loops' = {} /\ NonePersists'
                        /\ \A d \in Conn : /\ conn'[d].shown = 0 /\ conn'[d].hmac = 0
                                           /\ ~conn'[d].approved /\ conn'[d].box = <<>>
    <3> SUFFICES ASSUME issued' = 0
                 PROVE  /\ secret' = 0 /\ store' = 0 /\ loops' = {} /\ NonePersists'
                        /\ \A d \in Conn : /\ conn'[d].shown = 0 /\ conn'[d].hmac = 0
                                           /\ ~conn'[d].approved /\ conn'[d].box = <<>>
      OBVIOUS
    <3>1. NoSecretYet
      BY <1>0, <1>1 DEF FirstSecret
    <3>2. NonePersists'
      BY <1>4, <3>1 DEF NoSecretYet, NonePersists, SamePersisting
    <3>3. secret' = 0 /\ store' = 0 /\ loops' = {} /\ ~repeated
      BY <1>1, <1>3, <3>1 DEF NoSecretYet
    <3>4. \A d \in Conn : /\ conn'[d].shown = 0 /\ conn'[d].hmac = 0
                          /\ ~conn'[d].approved /\ conn'[d].box = <<>>
      BY <1>2, <3>1, <3>3 DEF NoSecretYet
    <3> QED BY <3>2, <3>3, <3>4
  <2>11. \A d \in Conn : ~lost' /\ link' = d /\ ~conn'[d].approved /\ conn'[d].pc # "serve" =>
          \/ issued' = 0
          \/ issued' = issued /\ link = d /\ ~conn[d].approved /\ conn[d].pc # "serve"
    BY <1>1, <1>2
  <2> QED BY <1>0, <2>1, <2>2, <2>3, <2>4, <2>5, <2>6, <2>7, <2>8, <2>9, <2>10, <2>11, BaseKept
<1>7. ASSUME ~lost', ~revoked' PROVE \E x \in 0..issued' : \E h \in {0, x} : Agreed(x, h)'
  <2>1. PICK x \in 0..issued : \E h \in {0, x} : Agreed(x, h)
    BY <1>1, <1>7 DEF ReturnInv
  <2>2. PICK h \in {0, x} : Agreed(x, h)
    BY <2>1
  <2> DEFINE waits == \E l \in loops : l.of = link /\ l.send # 0
  <2>3. PICK g \in {0, x} : /\ EndsWith(g)' /\ g \in {0, x}
                            /\ ~NonePersists => g = x
    <3>1. CASE link = c /\ repeated /\ ~waits
      <4>1. conn[c].hmac \in {0, x} /\ conn[c].hmac \in Nat
        BY <1>0, <1>5, <2>2 DEF Agreed, ConnShape
      <4>2. ~\E l \in loops' : l.of = link' /\ l.send # 0
        BY <1>1, <1>3, <3>1
      <4>3. conn'[c].box # <<>> /\ conn'[c].box[Len(conn'[c].box)].hmac = conn[c].hmac
        BY <1>0, <1>2, <3>1, <4>1, SentLast
      <4>4. PICK g : g = conn[c].hmac
        OBVIOUS
      <4>5. EndsWith(g)'
        BY <1>0, <1>1, <3>1, <4>2, <4>3, <4>4 DEF EndsWith
      <4>6. ~NonePersists => g = x
        BY <1>5, <2>2, <3>1, <4>4 DEF Agreed, NonePersists
      <4> QED BY <4>1, <4>4, <4>5, <4>6
    <3>2. CASE ~(link = c /\ repeated /\ ~waits)
      <4>1. EndsWith(h) /\ (~NonePersists => h = x)
        BY <2>2 DEF Agreed, NonePersists
      <4>2. EndsWith(h)'
        <5>1. CASE link = c /\ waits
          <6>1. /\ \E l \in loops' : l.of = link' /\ l.send # 0
                /\ \A l \in loops' : l.of = link' /\ l.send # 0 => l.send = h
            BY <1>1, <1>3, <4>1, <5>1 DEF EndsWith
          <6> QED BY <6>1 DEF EndsWith
        <5>2. CASE ~(link = c /\ waits)
          <6>1. link # 0 => conn'[link].box = conn[link].box
            BY <1>2, <1>5, <3>2, <5>2
          <6> QED BY <1>0, <1>1, <1>3, <4>1, <6>1, EndsKept
        <5> QED BY <5>1, <5>2
      <4> QED BY <4>1, <4>2
    <3> QED BY <3>1, <3>2
  <2>4. NonePersists' => store' = x
    BY <1>1, <1>4, <2>2 DEF Agreed, NonePersists, SamePersisting
  <2>5. \A d \in Conn \cup {0} : Persisting(d)' =>
          /\ conn'[Target(d)'].hmac = x /\ g = x /\ x # 0 /\ store' \in {0, x}
          /\ \A e \in Conn : Entering(e)' /\ conn'[e].shown = 0 => conn'[e].hmac = x
          /\ Target(d)' = link' /\ agentConns' \notin {0, link'} => conn'[agentConns'].hmac = 0
    <3> SUFFICES ASSUME NEW d \in Conn \cup {0}, Persisting(d)'
                 PROVE  /\ conn'[Target(d)'].hmac = x /\ g = x /\ x # 0 /\ store' \in {0, x}
                        /\ \A e \in Conn : Entering(e)' /\ conn'[e].shown = 0 => conn'[e].hmac = x
                        /\ Target(d)' = link' /\ agentConns' \notin {0, link'} =>
                             conn'[agentConns'].hmac = 0
      OBVIOUS
    <3>1. Persisting(d) /\ Target(d)' = Target(d) /\ Target(d) \in Conn /\ ~NonePersists
      BY <1>0, <1>4 DEF SamePersisting, NonePersists
    <3>2. conn[Target(d)].hmac = x /\ x # 0 /\ store \in {0, x}
          /\ \A e \in Conn : Entering(e) /\ conn[e].shown = 0 => conn[e].hmac = x
      BY <2>2, <3>1 DEF Agreed
    <3>3. \A e \in Conn : Entering(e)' /\ conn'[e].shown = 0 => conn'[e].hmac = x
      BY <1>2, <3>2 DEF Entering
    <3>4. Target(d)' = link' => agentConns' = link'
      BY <1>0, <1>1, <1>5, <3>1
    <3>5. conn'[Target(d)].hmac = x
      BY <1>2, <3>1, <3>2
    <3> QED BY <1>1, <2>3, <3>1, <3>2, <3>3, <3>4, <3>5
  <2>6. \A d \in Conn : (agentConns' = d \/ Entering(d)') /\ conn'[d].hmac # 0 => conn'[d].hmac = x
    <3> SUFFICES ASSUME NEW d \in Conn, agentConns' = d \/ Entering(d)', conn'[d].hmac # 0
                 PROVE  conn'[d].hmac = x
      OBVIOUS
    <3>1. Entering(d) /\ conn'[d].hmac = conn[d].hmac
      BY <1>1, <1>2, <1>5 DEF Entering
    <3> QED BY <2>2, <3>1 DEF Agreed
  <2>7. \A l \in loops' : l.of = link' => agentConns' \in {0, link'}
    BY <1>0, <1>1, <1>3, <1>5
  <2>8. Agreed(x, g)'
    BY <2>3, <2>4, <2>5, <2>6, <2>7 DEF Agreed
  <2> QED BY <1>1, <2>1, <2>8
<1> QED BY <1>6, <1>7 DEF ReturnInv

\* The next step of an approval.
LEMMA GotoFields ==
  ASSUME NEW d \in Conn \cup {0}, NEW pc, NEW x, NEW cs \in [Conn -> ConnShape], Goto(d, pc, x, cs),
         At(d) # "idle", \A e \in Conn : cs[e].pc = conn[e].pc
  PROVE  /\ \A e \in Conn : /\ conn'[e].shown = cs[e].shown /\ conn'[e].hmac = cs[e].hmac
                            /\ conn'[e].approved = cs[e].approved /\ conn'[e].up = cs[e].up
                            /\ conn'[e].box = cs[e].box /\ (e # d => conn'[e].pc = conn[e].pc)
         /\ d \in Conn => /\ conn'[d].pc = IF pc = "idle" THEN "register" ELSE pc
                          /\ operator' = operator
         /\ d = 0 => operator'.pc = pc /\ operator'.of = x
         /\ \A e \in (Conn \cup {0}) \ {d} : /\ Persisting(e)' <=> Persisting(e)
                                             /\ Target(e)' = Target(e)
         /\ Persisting(d)' <=> pc = "persist"
         /\ Target(d)' = IF d = 0 THEN x ELSE d
<1>0. 0 \notin Conn
  BY DEF Conn
<1>1. CASE d = 0
  <2>1. conn' = cs /\ operator' = [pc |-> pc, of |-> x]
    BY <1>1 DEF Goto
  <2>2. \A e \in Conn : conn'[e].pc = conn[e].pc
    BY <2>1
  <2>3. \A e \in Conn : (Persisting(e)' <=> Persisting(e)) /\ Target(e)' = Target(e)
    BY <1>0, <2>2 DEF Persisting, At, Target
  <2>4. (Persisting(d)' <=> pc = "persist") /\ Target(d)' = x
    BY <1>1, <2>1 DEF Persisting, At, Target
  <2> QED BY <1>0, <1>1, <2>1, <2>2, <2>3, <2>4
<1>2. CASE d # 0
  <2> DEFINE q == IF pc = "idle" THEN "register" ELSE pc
  <2>1. conn' = [cs EXCEPT ![d].pc = q] /\ operator' = operator /\ d \in Conn
    BY <1>2 DEF Goto
  <2>2. q = "persist" <=> pc = "persist"
    OBVIOUS
  <2> HIDE DEF q
  <2>3. \A e \in Conn : e # d => conn'[e] = cs[e]
    BY <2>1
  <2>4. conn'[d] = [cs[d] EXCEPT !.pc = q]
    BY <2>1
  <2>5. cs[d] \in ConnShape
    BY <2>1
  <2>6. /\ conn'[d].shown = cs[d].shown /\ conn'[d].hmac = cs[d].hmac
        /\ conn'[d].approved = cs[d].approved /\ conn'[d].up = cs[d].up
        /\ conn'[d].box = cs[d].box /\ conn'[d].pc = q
    BY <2>4, <2>5 DEF ConnShape
  <2>7. \A e \in Conn \ {d} : (Persisting(e)' <=> Persisting(e)) /\ Target(e)' = Target(e)
    BY <1>0, <2>3 DEF Persisting, At, Target
  <2>8. (Persisting(0)' <=> Persisting(0)) /\ Target(0)' = Target(0)
    BY <2>1 DEF Persisting, At, Target
  <2>9. (Persisting(d)' <=> pc = "persist") /\ Target(d)' = d
    BY <1>2, <2>2, <2>6 DEF Persisting, At, Target
  <2>10. \A e \in (Conn \cup {0}) \ {d} : (Persisting(e)' <=> Persisting(e)) /\ Target(e)' = Target(e)
    BY <2>7, <2>8
  <2> QED BY <1>2, <2>1, <2>3, <2>6, <2>9, <2>10 DEF q
<1> QED BY <1>1, <1>2

\* A step of an approval that makes no secret.
LEMMA QuietApproval ==
  ASSUME ReturnInv, LinkInv', NEW d \in Conn \cup {0}, At(d) \in {"look", "record", "commit"},
         NEW pc \in {"idle", "record", "commit"}, NEW x, Goto(d, pc, x, conn),
         pc = "commit" => x = pending /\ pending # 0,
         UNCHANGED <<agentEnd, store, used, pending, agentConns, loops, issued, linkBounds, lost>>
  PROVE  ReturnInv'
<1>0. /\ LinkInv /\ Stages /\ LoopsInv /\ FirstSecret
      /\ conn \in [Conn -> ConnShape] /\ 0 \notin Conn
      /\ link \in Conn \cup {0} /\ pending \in Conn \cup {0} /\ agentConns \in Conn \cup {0}
      /\ OperatorShape(operator)
  BY LinkFacts DEF ReturnInv, Stages
<1>1. /\ UNCHANGED <<secret, link, store, issued, used, pending, agentConns, loops, revoked, lost>>
  BY DEF agentEnd, linkBounds
<1>2. /\ \A e \in Conn : /\ conn'[e].shown = conn[e].shown /\ conn'[e].hmac = conn[e].hmac
                         /\ conn'[e].approved = conn[e].approved /\ conn'[e].up = conn[e].up
                         /\ conn'[e].box = conn[e].box /\ (e # d => conn'[e].pc = conn[e].pc)
      /\ d \in Conn => /\ conn'[d].pc = IF pc = "idle" THEN "register" ELSE pc
                       /\ operator' = operator
      /\ d = 0 => operator'.pc = pc /\ operator'.of = x
      /\ \A e \in (Conn \cup {0}) \ {d} : /\ Persisting(e)' <=> Persisting(e)
                                          /\ Target(e)' = Target(e)
      /\ Persisting(d)' <=> pc = "persist"
  BY <1>0, GotoFields
<1>3. SamePersisting
  <2>1. ~Persisting(d) /\ ~Persisting(d)'
    BY <1>2 DEF Persisting
  <2> QED BY <1>2, <2>1 DEF SamePersisting
<1>4. d \in Conn => /\ conn[d].pc \in {"look", "record", "commit"} /\ used
                    /\ conn'[d].pc \in {"register", "record", "commit"}
  BY <1>0, <1>2 DEF At, Stages
<1>5. SteadyConns
  <2> SUFFICES ASSUME NEW e \in Conn
               PROVE  /\ conn'[e].shown = conn[e].shown /\ conn'[e].hmac = conn[e].hmac
                      /\ conn'[e].approved = conn[e].approved
                      /\ conn'[e].pc \in {"none", "serve"} =>
                           conn'[e].pc = conn[e].pc /\ conn'[e].box = conn[e].box
                      /\ conn[e].box = <<>> /\ ~conn[e].approved => conn'[e].box = <<>>
                      /\ Entering(e)' => Entering(e)
                      /\ conn'[e].pc \in Waiting => used'
    BY DEF SteadyConns
  <2>1. CASE e = d
    BY <1>1, <1>2, <1>4, <2>1 DEF Entering
  <2>2. CASE e # d
    BY <1>0, <1>1, <1>2, <2>2 DEF Entering, Waiting, Stages
  <2> QED BY <2>1, <2>2
<1>6. \A h : EndsWith(h) => EndsWith(h)'
  <2>1. link # 0 => conn'[link].box = conn[link].box
    BY <1>0, <1>2
  <2> QED BY <1>0, <1>1, <2>1, EndsKept
<1>7. \A e \in Conn : link' = e => /\ conn'[e].up /\ conn'[e].pc \notin {"none", "done"}
                                   /\ conn'[e].pc # "serve" => issued = 0 \/ conn[e].pc # "serve"
  BY <1>0, <1>1, <1>2, <1>4 DEF Stages
<1>8. pending' # 0 => used' /\ conn'[pending'].pc \notin {"none", "serve"}
  BY <1>0, <1>1, <1>2, <1>4 DEF Stages
<1>9. operator'.pc \in {"commit", "persist"} =>
        used' /\ conn'[operator'.of].pc \notin {"none", "serve"}
  <2>1. CASE d = 0
    BY <1>0, <1>1, <1>2, <2>1 DEF Stages
  <2>2. CASE d \in Conn
    BY <1>0, <1>1, <1>2, <1>4, <2>2 DEF Stages, OperatorShape
  <2> QED BY <2>1, <2>2
<1>10. agentConns' # 0 => conn'[agentConns'].pc = "read"
  BY <1>0, <1>1, <1>2, <1>4 DEF Stages
<1>11. issued = 0 => secret' = 0
  BY <1>0, <1>1 DEF FirstSecret, NoSecretYet
<1> QED BY <1>1, <1>3, <1>5, <1>6, <1>7, <1>8, <1>9, <1>10, <1>11, SteadyStep

\* An approval makes a secret; an Agent that hears of it had none before.
LEMMA FreshApproval ==
  ASSUME ReturnInv, LinkInv', NEW d \in Conn \cup {0}, ApproveCommit(d), ~conn[Target(d)].approved
  PROVE  ReturnInv'
<1> DEFINE c == Target(d)
           b == IF conn[c].up THEN Sent(c, "approve", issued + 1) ELSE conn[c].box
           r == [conn[c] EXCEPT !.hmac = issued + 1, !.approved = TRUE, !.box = b]
           cs == [conn EXCEPT ![c] = r]
           pc == IF conn[c].up THEN "persist" ELSE "idle"
           x == IF conn[c].up THEN c ELSE 0
<1>0. /\ LinkInv /\ Stages /\ LoopsInv /\ FirstSecret
      /\ conn \in [Conn -> ConnShape] /\ 0 \notin Conn
      /\ link \in Conn \cup {0} /\ pending \in Conn \cup {0} /\ agentConns \in Conn \cup {0}
      /\ OperatorShape(operator) /\ issued \in Nat
      /\ \A e \in Conn \cup {0} : Persisting(e) => Target(e) \in Conn
  BY LinkFacts DEF ReturnInv, Stages
<1>1. At(d) = "commit" /\ c \in Conn
  BY <1>0, LinkFacts DEF ApproveCommit
<1>2. /\ UNCHANGED <<secret, link, store, used, agentConns, loops>> /\ issued' = issued + 1
      /\ pending' \in {pending, 0} /\ (lost' <=> lost \/ link # c) /\ ~revoked'
  BY DEF ApproveCommit, agentEnd, Unheard
<1>3. /\ cs \in [Conn -> ConnShape] /\ Goto(d, pc, x, cs)
      /\ \A e \in Conn \ {c} : cs[e] = conn[e]
      /\ cs[c].pc = conn[c].pc /\ cs[c].up = conn[c].up /\ cs[c].shown = conn[c].shown
      /\ cs[c].approved /\ cs[c].hmac = issued + 1 /\ cs[c].box = b
  <2>1. Goto(d, pc, x, [conn EXCEPT ![c].hmac = issued + 1, ![c].approved = TRUE, ![c].box = b])
    BY DEF ApproveCommit
  <2>2. [conn EXCEPT ![c].hmac = issued + 1, ![c].approved = TRUE, ![c].box = b] = cs
    BY <1>0, <1>1
  <2>3. issued + 1 \in Nat /\ conn[c] \in ConnShape
    BY <1>0, <1>1
  <2>4. Sent(c, "approve", issued + 1) \in Seq(Message)
    BY <1>0, <1>1, <2>3, SentShape
  <2>5. b \in Seq(Message)
    BY <2>3, <2>4 DEF ConnShape
  <2> HIDE DEF b, c
  <2>6. /\ r \in ConnShape /\ r.pc = conn[c].pc /\ r.up = conn[c].up /\ r.shown = conn[c].shown
        /\ r.approved /\ r.hmac = issued + 1 /\ r.box = b
    BY <2>3, <2>5 DEF ConnShape
  <2> HIDE DEF r
  <2>7. cs \in [Conn -> ConnShape] /\ cs[c] = r /\ \A e \in Conn \ {c} : cs[e] = conn[e]
    BY <1>0, <1>1, <2>6
  <2> QED BY <2>1, <2>2, <2>6, <2>7
<1>4. /\ (pc = "persist" /\ x = c) \/ (pc = "idle" /\ x = 0)
      /\ conn[c].up => pc = "persist"
  OBVIOUS
<1>5. conn[c].pc \notin {"none", "serve"} /\ used /\ (d # 0 => c = d) /\ (d = 0 => c = operator.of)
  BY <1>0, <1>1 DEF At, Target, Stages
<1> HIDE DEF cs, pc, x, b, c
<1>6. /\ \A e \in Conn : /\ conn'[e].shown = cs[e].shown /\ conn'[e].hmac = cs[e].hmac
                         /\ conn'[e].approved = cs[e].approved /\ conn'[e].up = cs[e].up
                         /\ conn'[e].box = cs[e].box /\ (e # d => conn'[e].pc = conn[e].pc)
      /\ d \in Conn => /\ conn'[d].pc = IF pc = "idle" THEN "register" ELSE pc
                       /\ operator' = operator
      /\ d = 0 => operator'.pc = pc /\ operator'.of = x
      /\ \A e \in (Conn \cup {0}) \ {d} : /\ Persisting(e)' <=> Persisting(e)
                                          /\ Target(e)' = Target(e)
      /\ Persisting(d)' <=> pc = "persist"
      /\ Target(d)' = IF d = 0 THEN x ELSE d
  <2>1. \A e \in Conn : cs[e].pc = conn[e].pc
    BY <1>3
  <2>2. At(d) # "idle"
    BY <1>1
  <2> QED BY <1>3, <2>1, <2>2, GotoFields
<1>7. /\ \A e \in Conn \ {c} : /\ conn'[e].shown = conn[e].shown /\ conn'[e].hmac = conn[e].hmac
                               /\ conn'[e].approved = conn[e].approved /\ conn'[e].up = conn[e].up
                               /\ conn'[e].box = conn[e].box /\ conn'[e].pc = conn[e].pc
      /\ conn'[c].up = conn[c].up /\ conn'[c].shown = conn[c].shown
      /\ conn'[c].approved /\ conn'[c].hmac = issued + 1 /\ conn'[c].box = b
      /\ conn'[c].pc \in {conn[c].pc, "persist", "register"}
      /\ d = 0 => conn'[c].pc = conn[c].pc
  <2>1. \A e \in Conn \ {c} : e # d
    BY <1>0, <1>5
  <2>2. conn'[c].pc \in {conn[c].pc, "persist", "register"} /\ (d = 0 => conn'[c].pc = conn[c].pc)
    BY <1>0, <1>1, <1>4, <1>5, <1>6
  <2> QED BY <1>1, <1>3, <1>6, <2>1, <2>2
<1>8. /\ Persisting(d)' => Target(d)' = c
      /\ \A e \in Conn \cup {0} : Persisting(e)' => e = d \/ (Persisting(e) /\ Target(e)' = Target(e))
  BY <1>4, <1>5, <1>6
<1>9. Stages' /\ LoopsInv' /\ FirstSecret'
  <2>1. LoopsInv'
    BY <1>0, <1>2, <1>7, LinkFacts DEF LoopsInv
  <2>2. agentConns' \in Conn \cup {0} /\ (agentConns' # 0 => conn'[agentConns'].pc = "read")
    <3>1. agentConns = c => conn'[c].pc = conn[c].pc
      BY <1>0, <1>1, <1>5, <1>7 DEF At, Stages
    <3> QED BY <1>0, <1>2, <1>7, <3>1 DEF Stages
  <2>3. \A e \in Conn : conn'[e].pc \in {"none", "serve"} =>
          /\ conn[e].pc \in {"none", "serve"} /\ conn'[e].hmac = conn[e].hmac
          /\ conn'[e].approved = conn[e].approved /\ conn'[e].box = conn[e].box
    BY <1>5, <1>7
  <2>4. \A e \in Conn : link' = e => conn'[e].up /\ conn'[e].pc \notin {"none", "done"}
    <3> SUFFICES ASSUME NEW e \in Conn, link' = e PROVE conn'[e].up /\ conn'[e].pc \notin {"none", "done"}
      OBVIOUS
    <3>1. conn[e].up /\ conn[e].pc \notin {"none", "done"}
      BY <1>0, <1>2 DEF Stages
    <3> QED BY <1>7, <3>1
  <2>5. \A e \in Conn \cup {0} : Persisting(e)' => conn'[Target(e)'].approved
    <3> SUFFICES ASSUME NEW e \in Conn \cup {0}, Persisting(e)' PROVE conn'[Target(e)'].approved
      OBVIOUS
    <3>1. CASE e = d
      BY <1>7, <1>8, <3>1
    <3>2. CASE e # d
      <4>1. Target(e)' = Target(e) /\ Target(e) \in Conn /\ conn[Target(e)].approved
        BY <1>0, <1>8, <3>2 DEF Stages
      <4> QED BY <1>7, <4>1
    <3> QED BY <3>1, <3>2
  <2>6. pending' # 0 => used' /\ conn'[pending'].pc \notin {"none", "serve"}
    BY <1>0, <1>2, <1>5, <1>7 DEF Stages
  <2>7. operator'.pc \in {"commit", "persist"} =>
          used' /\ conn'[operator'.of].pc \notin {"none", "serve"}
    <3>1. CASE d = 0
      BY <1>2, <1>4, <1>5, <1>6, <1>7, <3>1
    <3>2. CASE d \in Conn
      <4>1. operator' = operator
        BY <1>6, <3>2
      <4> QED BY <1>0, <1>2, <1>5, <1>7, <4>1 DEF Stages, OperatorShape
    <3> QED BY <3>1, <3>2
  <2>8. \A e \in Conn : conn'[e].pc \in {"pend", "look", "record", "commit", "persist"} => used'
    BY <1>2, <1>5
  <2>9. /\ ~used' => issued' = 0
        /\ lost => lost'
    BY <1>2, <1>5
  <2>10. issued' # 0
    BY <1>0, <1>2
  <2>11. \A e \in Conn : ~lost' /\ link' = e /\ ~conn'[e].approved /\ conn'[e].pc # "serve" =>
          \/ issued' = 0
          \/ issued' = issued /\ link = e /\ ~conn[e].approved /\ conn[e].pc # "serve"
    BY <1>2, <1>7
  <2> QED BY <1>0, <2>1, <2>2, <2>3, <2>4, <2>5, <2>6, <2>7, <2>8, <2>9, <2>10, <2>11, BaseKept
<1>10. ASSUME ~lost' PROVE \E y \in 0..issued' : \E h \in {0, y} : Agreed(y, h)'
  <2>1. link = c /\ ~lost /\ issued = 0 /\ NoSecretYet /\ issued' = 1
    <3>1. link = c /\ ~lost
      BY <1>2, <1>10
    <3>2. issued = 0
      BY <1>0, <1>1, <1>5, <3>1 DEF FirstSecret, c
    <3> QED BY <1>0, <1>2, <3>1, <3>2 DEF FirstSecret
  <2>2. conn[c].up /\ pc = "persist"
    BY <1>0, <1>1, <1>4, <2>1 DEF Stages
  <2>3. EndsWith(1)'
    <3>1. loops' = {} /\ link' = c /\ link' # 0
      BY <1>0, <1>1, <1>2, <2>1 DEF NoSecretYet
    <3>2. b = Sent(c, "approve", 1)
      BY <2>1, <2>2 DEF b
    <3>3. conn'[c].box # <<>> /\ conn'[c].box[Len(conn'[c].box)].hmac = 1
      BY <1>0, <1>1, <1>7, <3>2, SentLast
    <3> QED BY <3>1, <3>3 DEF EndsWith
  <2>4. Persisting(d)' /\ \A e \in Conn \cup {0} : Persisting(e)' => e = d
    BY <1>6, <1>8, <2>1, <2>2 DEF NoSecretYet, NonePersists
  <2>5. conn'[c].hmac = 1 /\ \A e \in Conn \ {c} : conn'[e].hmac = 0
    BY <1>7, <2>1 DEF NoSecretYet
  <2>6. \A e \in Conn : Entering(e)' => e = c
    <3>1. EntersAlone' /\ link' = c
      BY <1>2, <2>1 DEF LinkInv
    <3> QED BY <1>1, <3>1 DEF EntersAlone
  <2>7. \A e \in Conn \cup {0} : Persisting(e)' =>
          /\ conn'[Target(e)'].hmac = 1 /\ store' \in {0, 1}
          /\ \A f \in Conn : Entering(f)' /\ conn'[f].shown = 0 => conn'[f].hmac = 1
          /\ Target(e)' = link' /\ agentConns' \notin {0, link'} => conn'[agentConns'].hmac = 0
    <3>1. store' = 0 /\ Target(d)' = c /\ link' = c /\ agentConns' = agentConns
      BY <1>2, <1>8, <2>1, <2>4 DEF NoSecretYet
    <3>2. \A f \in Conn : Entering(f)' /\ conn'[f].shown = 0 => conn'[f].hmac = 1
      BY <2>5, <2>6
    <3>3. agentConns' \notin {0, link'} => conn'[agentConns'].hmac = 0
      BY <1>0, <2>5, <3>1
    <3> QED BY <2>4, <2>5, <3>1, <3>2, <3>3
  <2>8. \A e \in Conn : (agentConns' = e \/ Entering(e)') /\ conn'[e].hmac # 0 => conn'[e].hmac = 1
    BY <2>5
  <2>9. loops' = {} /\ ~NonePersists'
    BY <1>2, <2>1, <2>4 DEF NoSecretYet, NonePersists
  <2>10. Agreed(1, 1)'
    BY <2>3, <2>7, <2>8, <2>9 DEF Agreed
  <2> QED BY <2>1, <2>10
<1> QED BY <1>9, <1>10 DEF ReturnInv

\* The secret of an approval is stored: it is the one that counts.
LEMMA PersistReturn ==
  ASSUME ReturnInv, LinkInv', NEW d \in Conn \cup {0}, ApprovePersist(d)
  PROVE  ReturnInv'
<1> DEFINE c == Target(d)
           n == [of |-> c, forever |-> TRUE, send |-> 0]
<1>0. /\ LinkInv /\ Stages /\ LoopsInv /\ FirstSecret
      /\ conn \in [Conn -> ConnShape] /\ 0 \notin Conn
      /\ link \in Conn \cup {0} /\ pending \in Conn \cup {0} /\ agentConns \in Conn \cup {0}
      /\ OperatorShape(operator)
      /\ loops \subseteq [of : Conn, forever : BOOLEAN, send : Nat]
      /\ \A e \in Conn \cup {0} : Persisting(e) => Target(e) \in Conn
  BY LinkFacts DEF ReturnInv, Stages
<1>1. /\ UNCHANGED <<secret, link, issued, used, pending, agentConns, revoked, lost>>
      /\ At(d) = "persist" /\ Goto(d, "idle", 0, conn) /\ store' = conn[c].hmac
      /\ loops' = loops \cup {n}
  BY DEF ApprovePersist, agentEnd, hubMaps, linkBounds
<1>2. Persisting(d) /\ c \in Conn /\ conn[c].approved /\ n.of = c /\ n.send = 0
  BY <1>0, <1>1 DEF Persisting, Stages
<1>3. /\ \A e \in Conn : /\ conn'[e].shown = conn[e].shown /\ conn'[e].hmac = conn[e].hmac
                         /\ conn'[e].approved = conn[e].approved /\ conn'[e].up = conn[e].up
                         /\ conn'[e].box = conn[e].box /\ (e # d => conn'[e].pc = conn[e].pc)
      /\ d \in Conn => conn'[d].pc = "register" /\ operator' = operator
      /\ d = 0 => operator'.pc = "idle"
      /\ \A e \in (Conn \cup {0}) \ {d} : /\ Persisting(e)' <=> Persisting(e)
                                          /\ Target(e)' = Target(e)
      /\ ~Persisting(d)'
  BY <1>0, <1>1, GotoFields
<1> HIDE DEF n, c
<1>4. /\ \A e \in Conn \cup {0} : Persisting(e)' => Persisting(e) /\ Target(e)' = Target(e)
      /\ d \in Conn => conn[d].pc = "persist"
  BY <1>0, <1>1, <1>3 DEF At
<1>5. issued # 0
  BY <1>0, <1>2 DEF FirstSecret, NoSecretYet, NonePersists
<1>6. Stages' /\ LoopsInv' /\ FirstSecret'
  <2>1. LoopsInv'
    <3>1. \A l \in loops' : l.of \in Conn /\ conn[l.of].approved
      BY <1>0, <1>1, <1>2 DEF LoopsInv
    <3>2. \A l \in loops' : conn'[l.of].approved
      BY <1>3, <3>1
    <3>3. \A k, l \in loops' : k.of = l.of /\ k.send # 0 /\ l.send # 0 => k = l
      BY <1>0, <1>1, <1>2 DEF LoopsInv
    <3> QED BY <3>2, <3>3 DEF LoopsInv
  <2>2. agentConns' \in Conn \cup {0} /\ (agentConns' # 0 => conn'[agentConns'].pc = "read")
    BY <1>0, <1>1, <1>3, <1>4 DEF Stages
  <2>3. \A e \in Conn : conn'[e].pc \in {"none", "serve"} =>
          /\ conn[e].pc \in {"none", "serve"} /\ conn'[e].hmac = conn[e].hmac
          /\ conn'[e].approved = conn[e].approved /\ conn'[e].box = conn[e].box
    BY <1>3
  <2>4. \A e \in Conn : link' = e => conn'[e].up /\ conn'[e].pc \notin {"none", "done"}
    BY <1>0, <1>1, <1>3 DEF Stages
  <2>5. \A e \in Conn \cup {0} : Persisting(e)' => conn'[Target(e)'].approved
    BY <1>0, <1>3, <1>4 DEF Stages
  <2>6. pending' # 0 => used' /\ conn'[pending'].pc \notin {"none", "serve"}
    BY <1>0, <1>1, <1>3, <1>4 DEF Stages
  <2>7. operator'.pc \in {"commit", "persist"} =>
          used' /\ conn'[operator'.of].pc \notin {"none", "serve"}
    <3>1. CASE d = 0
      BY <1>3, <3>1
    <3>2. CASE d \in Conn
      BY <1>0, <1>1, <1>3, <1>4, <3>2 DEF Stages, OperatorShape
    <3> QED BY <3>1, <3>2
  <2>8. \A e \in Conn : conn'[e].pc \in {"pend", "look", "record", "commit", "persist"} => used'
    BY <1>0, <1>1, <1>3 DEF Stages
  <2>9. /\ ~used' => issued' = 0
        /\ lost => lost'
        /\ issued' # 0
    BY <1>0, <1>1, <1>5 DEF FirstSecret
  <2>10. \A e \in Conn : ~lost' /\ link' = e /\ ~conn'[e].approved /\ conn'[e].pc # "serve" =>
          \/ issued' = 0
          \/ issued' = issued /\ link = e /\ ~conn[e].approved /\ conn[e].pc # "serve"
    BY <1>1, <1>3, <1>4
  <2> QED BY <1>0, <2>1, <2>2, <2>3, <2>4, <2>5, <2>6, <2>7, <2>8, <2>9, <2>10, BaseKept
<1>7. ASSUME ~lost', ~revoked' PROVE \E x \in 0..issued' : \E h \in {0, x} : Agreed(x, h)'
  <2>1. PICK x \in 0..issued : \E h \in {0, x} : Agreed(x, h)
    BY <1>1, <1>7 DEF ReturnInv
  <2>2. PICK h \in {0, x} : Agreed(x, h)
    BY <2>1
  <2>3. EndsWith(h)'
    <3>1. EndsWith(h) /\ (link # 0 => conn'[link].box = conn[link].box)
      BY <1>0, <1>3, <2>2 DEF Agreed
    <3>2. \A l : l.of = link /\ l.send # 0 => (l \in loops' <=> l \in loops)
      BY <1>1, <1>2
    <3> QED BY <1>0, <1>1, <3>1, <3>2, EndsKept
  <2>4. store' = x
    BY <1>1, <1>2, <2>2 DEF Agreed, c
  <2>5. \A e \in Conn : Entering(e)' => /\ Entering(e) /\ conn'[e].shown = conn[e].shown
                                        /\ conn'[e].hmac \in {conn[e].hmac, x}
    BY <1>3, <1>4 DEF Entering
  <2>6. \A e \in Conn : agentConns' = e => conn'[e].hmac = conn[e].hmac
    BY <1>3
  <2>7. \A e \in Conn \cup {0} : Persisting(e)' => conn'[Target(e)].hmac = conn[Target(e)].hmac
    BY <1>0, <1>3, <1>4
  <2>8. \A l \in loops' : l.of = link /\ agentConns \notin {0, link} =>
          conn[agentConns].hmac = 0 \/ \E k \in loops : k.of = link
    <3>1. c = link /\ agentConns \notin {0, link} => conn[agentConns].hmac = 0
      BY <1>2, <2>2 DEF Agreed, c
    <3> QED BY <1>1, <1>2, <3>1
  <2>9. link' \in {link, 0} /\ agentConns' \in {agentConns, 0} /\ store' \in {store, x}
    BY <1>1, <2>4
  <2>10. Agreed(x, h)'
    BY <1>0, <1>4, <2>2, <2>3, <2>4, <2>5, <2>6, <2>7, <2>8, <2>9, AgreedKept
  <2> QED BY <1>1, <2>1, <2>10
<1> QED BY <1>6, <1>7 DEF ReturnInv

LEMMA ApproveReturn ==
  ASSUME ReturnInv, LinkInv', NEW d \in Conn \cup {0},
         ApproveLook(d) \/ ApproveRecord(d) \/ ApproveCommit(d) \/ ApprovePersist(d)
  PROVE  ReturnInv'
<1>1. CASE ApproveLook(d)
  <2>1. /\ UNCHANGED <<agentEnd, store, used, pending, agentConns, loops, issued, linkBounds, lost>>
        /\ At(d) = "look"
    BY <1>1 DEF ApproveLook
  <2>2. PICK pc \in {"idle", "record", "commit"}, x \in {0, pending} :
          Goto(d, pc, x, conn) /\ (pc = "commit" => x = pending /\ pending # 0)
    BY <1>1 DEF ApproveLook
  <2> QED BY <2>1, <2>2, QuietApproval
<1>2. CASE ApproveRecord(d)
  BY <1>2, QuietApproval DEF ApproveRecord
<1>3. CASE ApproveCommit(d) /\ conn[Target(d)].approved
  <2>1. /\ UNCHANGED <<agentEnd, store, used, agentConns, loops>> /\ At(d) = "commit"
        /\ Goto(d, "idle", 0, conn) /\ UNCHANGED <<pending, issued, revoked, lost, orders, rotations, cuts>>
    BY <1>3 DEF ApproveCommit
  <2>2. UNCHANGED linkBounds
    BY <2>1 DEF linkBounds
  <2> QED BY <2>1, <2>2, QuietApproval
<1> QED BY <1>1, <1>2, <1>3, FreshApproval, PersistReturn

\* What the operator and the faults do to an Agent's secret.
LEMMA RevokeReturn ==
  ASSUME ReturnInv, LinkInv', RevokeAgent
  PROVE  ReturnInv'
<1> DEFINE c == IF agentConns # 0 THEN agentConns ELSE pending
<1>0. /\ LinkInv /\ Stages /\ LoopsInv /\ FirstSecret
      /\ conn \in [Conn -> ConnShape] /\ 0 \notin Conn
      /\ link \in Conn \cup {0} /\ pending \in Conn \cup {0} /\ agentConns \in Conn \cup {0}
      /\ OperatorShape(operator)
      /\ loops \subseteq [of : Conn, forever : BOOLEAN, send : Nat]
      /\ \A e \in Conn \cup {0} : Persisting(e) => Target(e) \in Conn
  BY LinkFacts DEF ReturnInv, Stages
<1>1. /\ UNCHANGED <<secret, used, operator, loops, issued, lost>>
      /\ revoked' /\ agentConns' = 0 /\ pending' = 0 /\ store' = 0
      /\ conn' = IF c = 0 THEN conn ELSE [conn EXCEPT ![c].up = FALSE]
      /\ link' = IF link = c THEN 0 ELSE link
  BY DEF RevokeAgent
<1>2. \A e \in Conn : /\ conn'[e].shown = conn[e].shown /\ conn'[e].hmac = conn[e].hmac
                      /\ conn'[e].approved = conn[e].approved /\ conn'[e].box = conn[e].box
                      /\ conn'[e].pc = conn[e].pc /\ (e # c => conn'[e].up = conn[e].up)
  <2>1. CASE c = 0
    BY <1>1, <2>1
  <2>2. CASE c # 0
    <3>1. c \in Conn /\ conn[c] \in ConnShape
      BY <1>0, <2>2
    <3>2. conn' = [conn EXCEPT ![c].up = FALSE]
      BY <1>1, <2>2
    <3> HIDE DEF c
    <3>3. conn'[c] = [conn[c] EXCEPT !.up = FALSE] /\ \A e \in Conn : e # c => conn'[e] = conn[e]
      BY <1>0, <3>1, <3>2
    <3>4. /\ conn'[c].shown = conn[c].shown /\ conn'[c].hmac = conn[c].hmac
          /\ conn'[c].approved = conn[c].approved /\ conn'[c].box = conn[c].box
          /\ conn'[c].pc = conn[c].pc
      BY <3>1, <3>3 DEF ConnShape
    <3> QED BY <3>3, <3>4
  <2> QED BY <2>1, <2>2
<1> HIDE DEF c
<1>3. SamePersisting
  BY <1>1, <1>2, PersistSame
<1>4. LoopsInv'
  BY <1>0, <1>1, <1>2 DEF LoopsInv
<1>5. Stages' /\ LoopsInv' /\ FirstSecret'
  <2>1. agentConns' \in Conn \cup {0} /\ (agentConns' # 0 => conn'[agentConns'].pc = "read")
    BY <1>1
  <2>2. \A e \in Conn : conn'[e].pc \in {"none", "serve"} =>
          /\ conn[e].pc \in {"none", "serve"} /\ conn'[e].hmac = conn[e].hmac
          /\ conn'[e].approved = conn[e].approved /\ conn'[e].box = conn[e].box
    BY <1>2
  <2>3. \A e \in Conn : link' = e => conn'[e].up /\ conn'[e].pc \notin {"none", "done"}
    <3> SUFFICES ASSUME NEW e \in Conn, link' = e PROVE conn'[e].up /\ conn'[e].pc \notin {"none", "done"}
      OBVIOUS
    <3>1. link = e /\ e # c
      BY <1>0, <1>1
    <3> QED BY <1>0, <1>2, <3>1 DEF Stages
  <2>4. \A e \in Conn \cup {0} : Persisting(e)' => conn'[Target(e)'].approved
    BY <1>0, <1>2, <1>3 DEF Stages, SamePersisting
  <2>5. operator'.pc \in {"commit", "persist"} =>
          used' /\ conn'[operator'.of].pc \notin {"none", "serve"}
    BY <1>0, <1>1, <1>2 DEF Stages, OperatorShape
  <2>6. \A e \in Conn : conn'[e].pc \in {"pend", "look", "record", "commit", "persist"} => used'
    BY <1>0, <1>1, <1>2 DEF Stages
  <2>7. /\ ~used' => issued' = 0
        /\ lost => lost'
        /\ pending' = 0
    BY <1>0, <1>1 DEF FirstSecret
  <2>8. issued' = 0 => /\ secret' = 0 /\ store' = 0 /\ loops' = {} /\ NonePersists'
                       /\ \A e \in Conn : /\ conn'[e].shown = 0 /\ conn'[e].hmac = 0
                                          /\ ~conn'[e].approved /\ conn'[e].box = <<>>
    <3> SUFFICES ASSUME issued' = 0
                 PROVE  /\ secret' = 0 /\ store' = 0 /\ loops' = {} /\ NonePersists'
                        /\ \A e \in Conn : /\ conn'[e].shown = 0 /\ conn'[e].hmac = 0
                                           /\ ~conn'[e].approved /\ conn'[e].box = <<>>
      OBVIOUS
    <3>1. NoSecretYet
      BY <1>0, <1>1 DEF FirstSecret
    <3>2. NonePersists'
      BY <1>3, <3>1 DEF NoSecretYet, NonePersists, SamePersisting
    <3> QED BY <1>1, <1>2, <3>1, <3>2 DEF NoSecretYet
  <2>9. \A e \in Conn : ~lost' /\ link' = e /\ ~conn'[e].approved /\ conn'[e].pc # "serve" =>
          \/ issued' = 0
          \/ issued' = issued /\ link = e /\ ~conn[e].approved /\ conn[e].pc # "serve"
    BY <1>0, <1>1, <1>2
  <2> QED BY <1>0, <1>4, <2>1, <2>2, <2>3, <2>4, <2>5, <2>6, <2>7, <2>8, <2>9, BaseKept
<1> QED BY <1>1, <1>5 DEF ReturnInv

\* The order to approve, and the Agent's end of a link that breaks.
LEMMA BreakReturn ==
  ASSUME ReturnInv, LinkInv', OrderApproval \/ CutLink \/ RestartAgent
  PROVE  ReturnInv'
<1>0. /\ LinkInv /\ Stages /\ LoopsInv /\ FirstSecret
      /\ link \in Conn \cup {0} /\ 0 \notin Conn /\ OperatorShape(operator)
  BY LinkFacts DEF ReturnInv, Stages
<1>1. /\ UNCHANGED <<secret, conn, store, used, pending, agentConns, loops, issued, revoked>>
      /\ lost => lost'
      /\ \/ link' = link /\ lost' = lost /\ operator.pc = "idle" /\ operator'.pc = "look"
         \/ link' = 0 /\ (~lost' => ~InFlight(link)) /\ operator' = operator
  <2>1. CASE OrderApproval
    <3>1. operator.pc = "idle" /\ operator' = [operator EXCEPT !.pc = "look"]
      BY <2>1 DEF OrderApproval
    <3>2. operator'.pc = "look"
      BY <1>0, <3>1 DEF OperatorShape
    <3> QED BY <2>1, <3>1, <3>2 DEF OrderApproval, agentEnd, hubMaps
  <2>2. CASE CutLink
    BY <2>2 DEF CutLink, hubMaps
  <2>3. CASE RestartAgent
    BY <2>3 DEF RestartAgent, hubMaps
  <2> QED BY <2>1, <2>2, <2>3
<1>2. SteadyConns
  BY <1>0, <1>1 DEF SteadyConns, Entering, Waiting, Stages
<1>3. SamePersisting
  <2>1. operator'.pc = "persist" <=> operator.pc = "persist"
    BY <1>1
  <2>2. operator.pc = "persist" => operator' = operator
    BY <1>1
  <2> QED BY <1>1, <2>1, <2>2 DEF SamePersisting, Persisting, At, Target
<1>4. \A h : EndsWith(h) /\ ~lost' => EndsWith(h)'
  BY <1>0, <1>1, EndsKept
<1>5. \A e \in Conn : link' = e => /\ conn'[e].up /\ conn'[e].pc \notin {"none", "done"}
                                   /\ conn'[e].pc # "serve" => issued = 0 \/ conn[e].pc # "serve"
  BY <1>0, <1>1 DEF Stages
<1>6. pending' # 0 => used' /\ conn'[pending'].pc \notin {"none", "serve"}
  BY <1>0, <1>1 DEF Stages
<1>7. operator'.pc \in {"commit", "persist"} =>
        used' /\ conn'[operator'.of].pc \notin {"none", "serve"}
  BY <1>0, <1>1 DEF Stages
<1>8. agentConns' # 0 => conn'[agentConns'].pc = "read"
  BY <1>0, <1>1 DEF Stages
<1>9. issued = 0 => secret' = 0
  BY <1>0, <1>1 DEF FirstSecret, NoSecretYet
<1>10. link' \in {link, 0} /\ (~revoked' => ~revoked)
  BY <1>1
<1> QED BY <1>1, <1>2, <1>3, <1>4, <1>5, <1>6, <1>7, <1>8, <1>9, <1>10, SteadyStep

\* The gateway restarts with what it stored.
LEMMA RestartReturn ==
  ASSUME ReturnInv, LinkInv', RestartHub
  PROVE  ReturnInv'
<1>0. /\ LinkInv /\ Stages /\ LoopsInv /\ FirstSecret
      /\ link \in Conn \cup {0} /\ 0 \notin Conn /\ conn \in [Conn -> ConnShape]
  BY LinkFacts DEF ReturnInv, Stages
<1>1. /\ UNCHANGED <<secret, store, used, issued, revoked>> /\ link' = 0 /\ pending' = 0
      /\ agentConns' = 0 /\ operator' = Call0 /\ loops' = {} /\ (lost => lost')
      /\ ~lost' => /\ ~InFlight(link) /\ operator.pc # "persist"
                   /\ \A e \in Conn : conn[e].pc # "persist"
  BY DEF RestartHub
<1>2. \A e \in Conn : /\ conn'[e].shown = 0 /\ conn'[e].hmac = 0 /\ ~conn'[e].approved
                      /\ conn'[e].box = <<>> /\ conn'[e].pc \in {"none", "done"}
                      /\ conn'[e].pc = "none" => conn[e].pc = "none" /\ conn'[e].approved = FALSE
  <2> SUFFICES ASSUME NEW e \in Conn
               PROVE  /\ conn'[e].shown = 0 /\ conn'[e].hmac = 0 /\ ~conn'[e].approved
                      /\ conn'[e].box = <<>> /\ conn'[e].pc \in {"none", "done"}
                      /\ conn'[e].pc = "none" => conn[e].pc = "none" /\ conn'[e].approved = FALSE
    OBVIOUS
  <2>1. conn'[e] = IF conn[e].pc = "none" THEN NoConn ELSE [NoConn EXCEPT !.pc = "done"]
    BY DEF RestartHub
  <2> QED BY <2>1 DEF NoConn
<1>3. \A d \in Conn \cup {0} : ~Persisting(d)'
  BY <1>1, <1>2 DEF Persisting, At, Call0
<1>4. LoopsInv'
  BY <1>1 DEF LoopsInv
<1>5. Stages' /\ LoopsInv' /\ FirstSecret'
  <2>1. \A e \in Conn : conn'[e].pc \in {"none", "serve"} =>
          /\ conn[e].pc \in {"none", "serve"} /\ conn'[e].hmac = conn[e].hmac
          /\ conn'[e].approved = conn[e].approved /\ conn'[e].box = conn[e].box
    <3> SUFFICES ASSUME NEW e \in Conn, conn'[e].pc \in {"none", "serve"}
                 PROVE  /\ conn[e].pc \in {"none", "serve"} /\ conn'[e].hmac = conn[e].hmac
                        /\ conn'[e].approved = conn[e].approved /\ conn'[e].box = conn[e].box
      OBVIOUS
    <3>1. conn[e].pc = "none" /\ conn'[e].approved = FALSE
      BY <1>2
    <3>2. conn[e].hmac = 0 /\ conn[e].approved = FALSE /\ conn[e].box = <<>>
      BY <1>0, <3>1 DEF Stages, ConnShape
    <3> QED BY <1>2, <3>1, <3>2
  <2>2. \A e \in Conn : conn'[e].pc \in {"pend", "look", "record", "commit", "persist"} => used'
    BY <1>2
  <2>3. operator'.pc \notin {"commit", "persist"}
    BY <1>1 DEF Call0
  <2>4. /\ ~used' => issued' = 0
        /\ lost => lost'
        /\ agentConns' = 0 /\ pending' = 0
        /\ \A e \in Conn : link' # e
    BY <1>0, <1>1 DEF FirstSecret
  <2>5. issued' = 0 => /\ secret' = 0 /\ store' = 0 /\ loops' = {} /\ NonePersists'
                       /\ \A e \in Conn : /\ conn'[e].shown = 0 /\ conn'[e].hmac = 0
                                          /\ ~conn'[e].approved /\ conn'[e].box = <<>>
    <3>1. NonePersists'
      BY <1>3 DEF NonePersists
    <3>2. issued' = 0 => secret' = 0 /\ store' = 0
      BY <1>0, <1>1 DEF FirstSecret, NoSecretYet
    <3> QED BY <1>1, <1>2, <3>1, <3>2
  <2> QED BY <1>0, <1>3, <1>4, <2>1, <2>2, <2>3, <2>4, <2>5, BaseKept
<1>6. ASSUME ~lost', ~revoked' PROVE \E x \in 0..issued' : \E h \in {0, x} : Agreed(x, h)'
  <2>1. PICK x \in 0..issued : \E h \in {0, x} : Agreed(x, h)
    BY <1>1, <1>6 DEF ReturnInv
  <2>2. PICK h \in {0, x} : Agreed(x, h)
    BY <2>1
  <2>3. EndsWith(h)'
    BY <1>0, <1>1, <1>6, <2>2, EndsKept DEF Agreed
  <2>4. store' = x
    <3>1. NonePersists
      BY <1>0, <1>1, <1>6 DEF NonePersists, Persisting, At
    <3> QED BY <1>1, <2>2, <3>1 DEF Agreed
  <2>5. \A e \in Conn : ~Entering(e)'
    BY <1>2 DEF Entering
  <2>6. Agreed(x, h)'
    BY <1>1, <1>3, <2>2, <2>3, <2>4, <2>5, <1>0 DEF Agreed
  <2> QED BY <1>1, <2>1, <2>6
<1> QED BY <1>5, <1>6 DEF ReturnInv

\* A rotation: the connection in the map has the new secret, and the Agent will.
LEMMA RotateSetReturn ==
  ASSUME ReturnInv, LinkInv', ~Crossing, NEW l \in loops, RotateSet(l)
  PROVE  ReturnInv'
<1> DEFINE c == l.of
           m == [l EXCEPT !.send = issued + 1]
<1>0. /\ LinkInv /\ Stages /\ LoopsInv /\ FirstSecret
      /\ conn \in [Conn -> ConnShape] /\ 0 \notin Conn
      /\ link \in Conn \cup {0} /\ pending \in Conn \cup {0} /\ agentConns \in Conn \cup {0}
      /\ OperatorShape(operator) /\ issued \in Nat
      /\ loops \subseteq [of : Conn, forever : BOOLEAN, send : Nat]
  BY LinkFacts DEF ReturnInv, Stages
<1>1. /\ UNCHANGED <<secret, link, used, pending, agentConns, operator, revoked>>
      /\ issued' = issued + 1 /\ store' = issued + 1 /\ loops' = (loops \ {l}) \cup {m}
      /\ conn' = [conn EXCEPT ![c].hmac = issued + 1]
      /\ (lost' <=> lost \/ link # c)
      /\ \A k \in loops : k.of = c => k.send = 0
      /\ operator.pc # "persist" /\ \A d \in Conn : conn[d].pc # "persist"
  BY DEF RotateSet, agentEnd, hubMaps, Unheard
<1>2. /\ c \in Conn /\ conn[c].approved /\ conn[c] \in ConnShape
      /\ m.of = c /\ m.send = issued + 1 /\ issued + 1 # 0
  <2>1. l \in [of : Conn, forever : BOOLEAN, send : Nat]
    BY <1>0
  <2> QED BY <1>0, <2>1 DEF LoopsInv
<1> HIDE DEF c, m
<1>3. \A e \in Conn : /\ conn'[e].shown = conn[e].shown /\ conn'[e].approved = conn[e].approved
                      /\ conn'[e].up = conn[e].up /\ conn'[e].box = conn[e].box
                      /\ conn'[e].pc = conn[e].pc /\ (e # c => conn'[e].hmac = conn[e].hmac)
                      /\ (e = c => conn'[e].hmac = issued + 1)
  BY <1>0, <1>1, <1>2 DEF ConnShape
<1>4. SamePersisting
  BY <1>1, <1>3, PersistSame
<1>5. \A d \in Conn \cup {0} : ~Persisting(d) /\ ~Persisting(d)'
  <2>1. \A d \in Conn \cup {0} : ~Persisting(d)
    BY <1>0, <1>1 DEF Persisting, At
  <2> QED BY <1>4, <2>1 DEF SamePersisting
<1>6. used
  <2>1. issued # 0
    BY <1>0, <1>2 DEF FirstSecret, NoSecretYet
  <2> QED BY <1>0, <2>1 DEF FirstSecret
<1>7. Stages' /\ LoopsInv' /\ FirstSecret'
  <2>1. LoopsInv'
    <3>1. \A k \in loops' : k.of \in Conn /\ conn[k.of].approved
      BY <1>0, <1>1, <1>2 DEF LoopsInv
    <3>2. \A k \in loops' : conn'[k.of].approved
      BY <1>3, <3>1
    <3>3. \A k, n \in loops' : k.of = n.of /\ k.send # 0 /\ n.send # 0 => k = n
      BY <1>0, <1>1, <1>2 DEF LoopsInv
    <3> QED BY <3>2, <3>3 DEF LoopsInv
  <2>2. agentConns' \in Conn \cup {0} /\ (agentConns' # 0 => conn'[agentConns'].pc = "read")
    BY <1>0, <1>1, <1>3 DEF Stages
  <2>3. \A e \in Conn : conn'[e].pc \in {"none", "serve"} =>
          /\ conn[e].pc \in {"none", "serve"} /\ conn'[e].hmac = conn[e].hmac
          /\ conn'[e].approved = conn[e].approved /\ conn'[e].box = conn[e].box
    BY <1>0, <1>2, <1>3 DEF Stages
  <2>4. \A e \in Conn : link' = e => conn'[e].up /\ conn'[e].pc \notin {"none", "done"}
    BY <1>0, <1>1, <1>3 DEF Stages
  <2>5. pending' # 0 => used' /\ conn'[pending'].pc \notin {"none", "serve"}
    BY <1>0, <1>1, <1>3 DEF Stages
  <2>6. operator'.pc \in {"commit", "persist"} =>
          used' /\ conn'[operator'.of].pc \notin {"none", "serve"}
    BY <1>0, <1>1, <1>3 DEF Stages, OperatorShape
  <2>7. \A e \in Conn : conn'[e].pc \in {"pend", "look", "record", "commit", "persist"} => used'
    BY <1>1, <1>6
  <2>8. /\ ~used' => issued' = 0
        /\ lost => lost'
        /\ issued' # 0
    BY <1>1, <1>2, <1>6
  <2>9. \A e \in Conn : ~lost' /\ link' = e /\ ~conn'[e].approved /\ conn'[e].pc # "serve" =>
          \/ issued' = 0
          \/ issued' = issued /\ link = e /\ ~conn[e].approved /\ conn[e].pc # "serve"
    BY <1>1, <1>2, <1>3
  <2> QED BY <1>0, <1>5, <2>1, <2>2, <2>3, <2>4, <2>5, <2>6, <2>7, <2>8, <2>9, BaseKept
<1>8. ASSUME ~lost', ~revoked' PROVE \E x \in 0..issued' : \E h \in {0, x} : Agreed(x, h)'
  <2>0. link = c /\ ~lost /\ ~revoked
    BY <1>1, <1>8
  <2>1. PICK x \in 0..issued : \E h \in {0, x} : Agreed(x, h)
    BY <2>0 DEF ReturnInv
  <2>2. PICK h \in {0, x} : Agreed(x, h)
    BY <2>1
  <2>3. PICK y \in Nat : y = issued + 1
    BY <1>0
  <2>4. EndsWith(y)'
    <3>1. /\ \E k \in loops' : k.of = link' /\ k.send # 0
          /\ \A k \in loops' : k.of = link' /\ k.send # 0 => k.send = y
      BY <1>1, <1>2, <2>0, <2>3
    <3> QED BY <3>1 DEF EndsWith
  <2>5. agentConns \notin {0, link} => conn[agentConns].hmac = 0
    BY <2>0, <2>2 DEF Agreed, c
  <2>6. agentConns' \notin {0, link'} => conn'[agentConns'].hmac = 0
    BY <1>0, <1>1, <1>3, <2>0, <2>5
  <2>7. \A e \in Conn : (agentConns' = e \/ Entering(e)') /\ conn'[e].hmac # 0 => conn'[e].hmac = y
    <3> SUFFICES ASSUME NEW e \in Conn, agentConns' = e \/ Entering(e)', conn'[e].hmac # 0
                 PROVE  conn'[e].hmac = y
      OBVIOUS
    <3>1. CASE agentConns' = e
      BY <1>0, <1>1, <1>3, <2>0, <2>3, <2>6, <3>1
    <3>2. CASE Entering(e)'
      <4>1. Entering(e)
        BY <1>3, <3>2 DEF Entering
      <4>2. e = c
        BY <1>0, <1>2, <2>0, <4>1 DEF LinkInv, EntersAlone
      <4> QED BY <1>3, <2>3, <4>2
    <3> QED BY <3>1, <3>2
  <2>8. Agreed(y, y)'
    BY <1>1, <1>5, <2>3, <2>4, <2>6, <2>7 DEF Agreed
  <2>9. y \in 0..issued'
    BY <1>1, <2>3
  <2> QED BY <2>8, <2>9
<1> QED BY <1>7, <1>8 DEF ReturnInv

\* The new secret is written to the connection it was made for.
LEMMA RotateSendReturn ==
  ASSUME ReturnInv, LinkInv', NEW l \in loops, RotateSend(l)
  PROVE  ReturnInv'
<1> DEFINE c == l.of
           m == [l EXCEPT !.send = 0]
<1>0. /\ LinkInv /\ Stages /\ LoopsInv /\ FirstSecret
      /\ conn \in [Conn -> ConnShape] /\ 0 \notin Conn
      /\ link \in Conn \cup {0} /\ pending \in Conn \cup {0} /\ agentConns \in Conn \cup {0}
      /\ OperatorShape(operator)
      /\ loops \subseteq [of : Conn, forever : BOOLEAN, send : Nat]
  BY LinkFacts DEF ReturnInv, Stages
<1>1. /\ UNCHANGED <<secret, link, store, used, pending, agentConns, operator, issued, revoked, lost>>
      /\ l.send # 0
      /\ conn[c].up => /\ conn' = [conn EXCEPT ![c].box = Sent(c, "rotate_hmac", l.send)]
                       /\ loops' = (loops \ {l}) \cup {m}
      /\ ~conn[c].up => conn' = conn /\ loops' = loops \ {l}
  BY DEF RotateSend, agentEnd, hubMaps, linkBounds
<1>2. /\ c \in Conn /\ conn[c].approved /\ conn[c] \in ConnShape /\ l.send \in Nat
      /\ m.of = c /\ m.send = 0
  <2>1. l \in [of : Conn, forever : BOOLEAN, send : Nat]
    BY <1>0
  <2> QED BY <1>0, <2>1 DEF LoopsInv
<1> HIDE DEF c, m
<1>3. /\ \A e \in Conn : /\ conn'[e].shown = conn[e].shown /\ conn'[e].approved = conn[e].approved
                         /\ conn'[e].up = conn[e].up /\ conn'[e].hmac = conn[e].hmac
                         /\ conn'[e].pc = conn[e].pc /\ (e # c => conn'[e].box = conn[e].box)
      /\ conn[c].up => conn'[c].box = Sent(c, "rotate_hmac", l.send)
  <2>1. CASE conn[c].up
    <3> DEFINE b == Sent(c, "rotate_hmac", l.send)
    <3>1. conn' = [conn EXCEPT ![c].box = b]
      BY <1>1, <2>1
    <3> HIDE DEF b
    <3>2. conn'[c] = [conn[c] EXCEPT !.box = b] /\ \A e \in Conn : e # c => conn'[e] = conn[e]
      BY <1>0, <1>2, <3>1
    <3>3. /\ conn'[c].shown = conn[c].shown /\ conn'[c].approved = conn[c].approved
          /\ conn'[c].up = conn[c].up /\ conn'[c].hmac = conn[c].hmac
          /\ conn'[c].pc = conn[c].pc /\ conn'[c].box = b
      BY <1>2, <3>2 DEF ConnShape
    <3> QED BY <3>2, <3>3 DEF b
  <2>2. CASE ~conn[c].up
    BY <1>1, <2>2
  <2> QED BY <2>1, <2>2
<1>4. /\ \A k \in loops' : k.of = c \/ k \in loops
      /\ \A k \in loops' : k.send # 0 => k \in loops /\ k # l
      /\ \A k : k.of # c => (k \in loops' <=> k \in loops)
  <2>1. l.of = c
    BY DEF c
  <2> QED BY <1>1, <1>2, <2>1
<1>5. \A k \in loops' : k.of = c => k.send = 0
  BY <1>0, <1>1, <1>4 DEF LoopsInv, c
<1>6. ASSUME NEW h, EndsWith(h) PROVE EndsWith(h)'
  <2>1. CASE link = c
    <3>1. l.send = h
      BY <1>1, <1>6, <2>1 DEF EndsWith, c
    <3>2. conn[c].up
      BY <1>0, <1>2, <2>1 DEF Stages
    <3>3. /\ ~\E k \in loops' : k.of = link' /\ k.send # 0
          /\ link' = c /\ link' # 0
      BY <1>0, <1>1, <1>2, <1>5, <2>1
    <3>4. conn'[c].box # <<>> /\ conn'[c].box[Len(conn'[c].box)].hmac = h
      BY <1>0, <1>2, <1>3, <3>1, <3>2, SentLast
    <3> QED BY <3>3, <3>4 DEF EndsWith
  <2>2. CASE link # c
    <3>1. link # 0 => conn'[link].box = conn[link].box
      BY <1>0, <1>3, <2>2
    <3> QED BY <1>0, <1>1, <1>4, <1>6, <2>2, <3>1, EndsKept
  <2> QED BY <2>1, <2>2
<1>7. SteadyConns
  <2>1. conn[c].pc \notin {"none", "serve"}
    BY <1>0, <1>2 DEF Stages
  <2> SUFFICES ASSUME NEW e \in Conn
               PROVE  /\ conn'[e].shown = conn[e].shown /\ conn'[e].hmac = conn[e].hmac
                      /\ conn'[e].approved = conn[e].approved
                      /\ conn'[e].pc \in {"none", "serve"} =>
                           conn'[e].pc = conn[e].pc /\ conn'[e].box = conn[e].box
                      /\ conn[e].box = <<>> /\ ~conn[e].approved => conn'[e].box = <<>>
                      /\ Entering(e)' => Entering(e)
                      /\ conn'[e].pc \in Waiting => used'
    BY DEF SteadyConns
  <2>2. conn'[e].pc \in {"none", "serve"} => conn'[e].pc = conn[e].pc /\ conn'[e].box = conn[e].box
    BY <1>3, <2>1
  <2>3. conn[e].box = <<>> /\ ~conn[e].approved => conn'[e].box = <<>>
    BY <1>2, <1>3
  <2>4. (Entering(e)' => Entering(e)) /\ (conn'[e].pc \in Waiting => used')
    BY <1>0, <1>1, <1>3 DEF Entering, Waiting, Stages
  <2> QED BY <1>3, <2>2, <2>3, <2>4
<1>8. SamePersisting
  BY <1>1, <1>3, PersistSame
<1>9. \A e \in Conn : link' = e => /\ conn'[e].up /\ conn'[e].pc \notin {"none", "done"}
                                   /\ conn'[e].pc # "serve" => issued = 0 \/ conn[e].pc # "serve"
  BY <1>0, <1>1, <1>3 DEF Stages
<1>10. pending' # 0 => used' /\ conn'[pending'].pc \notin {"none", "serve"}
  BY <1>0, <1>1, <1>3 DEF Stages
<1>11. operator'.pc \in {"commit", "persist"} =>
        used' /\ conn'[operator'.of].pc \notin {"none", "serve"}
  BY <1>0, <1>1, <1>3 DEF Stages, OperatorShape
<1>12. agentConns' # 0 => conn'[agentConns'].pc = "read"
  BY <1>0, <1>1, <1>3 DEF Stages
<1>13. issued = 0 => secret' = 0
  BY <1>0, <1>1 DEF FirstSecret, NoSecretYet
<1>14. \A k \in loops' : (\E n \in loops : n.of = k.of) /\ (k.send # 0 => k \in loops)
  BY <1>4 DEF c
<1> QED BY <1>1, <1>6, <1>7, <1>8, <1>9, <1>10, <1>11, <1>12, <1>13, <1>14, SteadyStep

LEMMA ReturnInvInit == LinkInit => ReturnInv
<1> SUFFICES ASSUME LinkInit PROVE ReturnInv
  OBVIOUS
<1>1. LinkInv /\ 0 \notin Conn
  BY LinkInvInit DEF Conn
<1>2. \A c \in Conn : /\ conn[c].pc = "none" /\ conn[c].shown = 0 /\ conn[c].hmac = 0
                      /\ ~conn[c].approved /\ conn[c].box = <<>>
  BY DEF LinkInit, NoConn
<1>3. NonePersists
  BY <1>2 DEF LinkInit, NonePersists, Persisting, At, Call0
<1>4. Stages
  BY <1>1, <1>2, <1>3 DEF LinkInit, Stages, NonePersists, Call0
<1>5. LoopsInv /\ FirstSecret
  BY <1>2, <1>3 DEF LinkInit, LoopsInv, FirstSecret, NoSecretYet
<1>6. EndsWith(0)
  BY DEF LinkInit, EndsWith
<1>7. Agreed(0, 0)
  BY <1>2, <1>3, <1>6 DEF Agreed, LinkInit, NonePersists
<1>8. 0 \in 0..issued
  BY DEF LinkInit
<1> QED BY <1>1, <1>4, <1>5, <1>7, <1>8 DEF ReturnInv

LEMMA ReturnInvStep ==
  ASSUME ~Late, ~Crossing
  PROVE  ReturnInv /\ [LinkNext]_linkVars => ReturnInv'
<1> SUFFICES ASSUME ReturnInv, [LinkNext]_linkVars PROVE ReturnInv'
  OBVIOUS
<1>1. LinkInv'
  BY LinkInvStep DEF ReturnInv
<1>2. CASE UNCHANGED linkVars
  <2>1. UNCHANGED <<secret, link, conn, store, used, pending, agentConns, operator, loops, issued, revoked, lost>>
    BY <1>2 DEF linkVars
  <2>2. Stages' /\ LoopsInv' /\ FirstSecret'
    BY <2>1 DEF ReturnInv, Stages, LoopsInv, FirstSecret, NoSecretYet, NonePersists, Persisting, At, Target
  <2>3. ASSUME NEW x, NEW h, Agreed(x, h) PROVE Agreed(x, h)'
    BY <2>1, <2>3 DEF Agreed, EndsWith, NonePersists, Persisting, At, Target, Entering
  <2> QED BY <1>1, <2>1, <2>2, <2>3 DEF ReturnInv
<1>3. CASE \E c \in Conn : \/ Connect(c) \/ ServeHMAC(c) \/ ServeJoin(c) \/ ServeConsumed(c)
                           \/ ConsumePreApproval(c) \/ Register(c) \/ Notice(c)
                           \/ UnregisterAgent(c) \/ Receive(c)
  BY <1>1, <1>3, ConnectReturn, ServeHMACReturn, ServeConsumedReturn, RegisterReturn, QuietReturn
<1>4. CASE \E d \in Conn \cup {0} :
             ApproveLook(d) \/ ApproveRecord(d) \/ ApproveCommit(d) \/ ApprovePersist(d)
  BY <1>1, <1>4, ApproveReturn
<1>5. CASE \/ OrderApproval \/ RevokeAgent \/ CutLink \/ RestartAgent \/ RestartHub
           \/ \E l \in loops : RotateSet(l) \/ RotateSend(l)
  BY <1>1, <1>5, RevokeReturn, BreakReturn, RestartReturn, RotateSetReturn, RotateSendReturn
<1> QED BY <1>2, <1>3, <1>4, <1>5 DEF LinkNext

\* The secret the Agent will have is the one the gateway accepts, unless the gateway is
\* still telling it or about to store it.
LEMMA ReturnInvSuffices == ReturnInv => AgentCanReturnUnlessCut
<1> SUFFICES ASSUME ReturnInv, ~lost, secret # 0, ~revoked, ~InFlight(link), NonePersists
             PROVE  secret = StoredHMAC
  BY DEF AgentCanReturnUnlessCut, Accepted, NonePersists, Persisting, At, Conn
<1>1. LinkInv /\ Stages
  BY DEF ReturnInv
<1>2. PICK x \in 0..issued : \E h \in {0, x} : Agreed(x, h)
  BY DEF ReturnInv
<1>3. PICK h \in {0, x} : Agreed(x, h)
  BY <1>2
<1>4. link \in Conn \cup {0} /\ agentConns \in Conn \cup {0} /\ 0 \notin Conn
      /\ \A l \in loops : l.of # 0
  BY <1>1, LinkFacts DEF Stages
<1>5. secret = h
  BY <1>3, <1>4 DEF Agreed, EndsWith, InFlight
<1>6. secret = x /\ store = x
  BY <1>3, <1>5 DEF Agreed
<1> QED BY <1>3, <1>4, <1>6 DEF StoredHMAC, Agreed

\* An Agent that was not revoked, and was told of every secret made for it, is accepted with
\* the one it has: through the order of an approval's steps, reconnections, rotations and
\* restarts of both sides, as long as two rotations of one connection do not cross.
THEOREM AgentReturns ==
  ASSUME ~Late, ~Crossing
  PROVE  LinkSpec => []AgentCanReturnUnlessCut
<1> QED BY ReturnInvInit, ReturnInvStep, ReturnInvSuffices, PTL DEF LinkSpec

---------------------------------------------------------------------------
(* How many secrets are made *)

Number == Secret \cup {0}
Letter == [type : {"approve", "rotate_hmac"}, hmac : Number]

\* A goroutine makes a secret for its Agent at most once, and so does an approval of the
\* operator: these may still.
BeforeIssue == {"none", "serve", "pend", "look", "commit"}
MayIssue == {c \in Conn : conn[c].pc \in BeforeIssue}
ToIssue == IF operator.pc \in {"look", "commit"} THEN 1 ELSE 0
IssueBound == issued + Cardinality(MayIssue) + ToIssue <= MaxConn + orders + rotations

LinkWithin ==
  /\ LinkTypeOK /\ IssueBound
  /\ operator.pc \in {"commit", "persist"} => operator.of # 0

LEMMA LinkNumbers ==
  /\ MaxConn \in Nat /\ MaxOrder \in Nat /\ MaxRotate \in Nat /\ MaxCut \in Nat
  /\ Number = 0..(MaxConn + MaxOrder + MaxRotate) /\ Number \subseteq Nat
  /\ Conn = 1..MaxConn /\ 0 \notin Conn
BY LinkAssumption DEF Number, Secret, Conn

LEMMA ConnStateIs ==
  ConnState = [pc : ConnPC, shown : Number, hmac : Number, approved : BOOLEAN, up : BOOLEAN,
               box : Seq(Letter)]
BY DEF ConnState, ConnPC, Number, Letter

LEMMA IssuersCounted ==
  ASSUME NEW S \in SUBSET Conn
  PROVE  /\ IsFiniteSet(S) /\ Cardinality(S) \in 0..MaxConn
         /\ \A T \in SUBSET S : Cardinality(T) <= Cardinality(S)
         /\ \A c \in S : \A T \in SUBSET (S \ {c}) : Cardinality(T) + 1 <= Cardinality(S)
<1>1. IsFiniteSet(Conn) /\ Cardinality(Conn) = MaxConn
  BY LinkNumbers, FS_Interval
<1>2. IsFiniteSet(S) /\ Cardinality(S) <= MaxConn
  BY <1>1, FS_Subset
<1>3. Cardinality(S) \in Nat
  BY <1>2, FS_CardinalityType
<1>4. \A T \in SUBSET S : Cardinality(T) <= Cardinality(S)
  BY <1>2, FS_Subset
<1>5. ASSUME NEW c \in S, NEW T \in SUBSET (S \ {c}) PROVE Cardinality(T) + 1 <= Cardinality(S)
  <2>1. IsFiniteSet(S \ {c}) /\ Cardinality(S \ {c}) = Cardinality(S) - 1
    BY <1>2, FS_RemoveElement
  <2>2. Cardinality(T) <= Cardinality(S \ {c}) /\ IsFiniteSet(T)
    BY <2>1, FS_Subset
  <2>3. Cardinality(T) \in Nat
    BY <2>2, FS_CardinalityType
  <2> QED BY <1>3, <2>1, <2>2, <2>3
<1> QED BY <1>2, <1>3, <1>4, <1>5, LinkNumbers

\* A secret is made by one that could, or by a rotation.
Issues ==
  \/ /\ issued' = issued /\ MayIssue' \subseteq MayIssue
     /\ ToIssue' <= ToIssue /\ orders' = orders /\ rotations' = rotations
  \/ /\ issued' = issued /\ MayIssue' \subseteq MayIssue
     /\ ToIssue' <= ToIssue + 1 /\ orders' = orders + 1 /\ rotations' = rotations
  \/ /\ issued' = issued + 1 /\ (\E c \in MayIssue : MayIssue' \subseteq MayIssue \ {c})
     /\ ToIssue' = ToIssue /\ orders' = orders /\ rotations' = rotations
  \/ /\ issued' = issued + 1 /\ MayIssue' \subseteq MayIssue
     /\ ToIssue = 1 /\ ToIssue' = 0 /\ orders' = orders /\ rotations' = rotations
  \/ /\ issued' = issued + 1 /\ MayIssue' \subseteq MayIssue
     /\ ToIssue' = ToIssue /\ orders' = orders /\ rotations' = rotations + 1

LEMMA IssuedNumber ==
  ASSUME LinkWithin, Issues, orders' \in 0..MaxOrder, rotations' \in 0..MaxRotate
  PROVE  IssueBound' /\ issued' \in Number
<1> DEFINE n == Cardinality(MayIssue)
           m == Cardinality(MayIssue')
           t == ToIssue
           u == ToIssue'
           i == issued'
           o == orders'
           r == rotations'
<1>1. MayIssue \subseteq Conn /\ MayIssue' \subseteq Conn
  BY DEF MayIssue
<1>2. n \in Nat /\ m \in Nat /\ o \in Nat /\ r \in Nat
  BY <1>1, IssuersCounted, LinkNumbers
<1>3. /\ MayIssue' \subseteq MayIssue => m <= n
      /\ (\E c \in MayIssue : MayIssue' \subseteq MayIssue \ {c}) => m + 1 <= n
  BY <1>1, IssuersCounted
<1>4. t \in {0, 1} /\ u \in {0, 1}
  BY DEF ToIssue
<1>5. /\ issued \in Nat /\ orders \in Nat /\ rotations \in Nat
      /\ MaxConn \in Nat /\ MaxOrder \in Nat /\ MaxRotate \in Nat
  BY LinkNumbers DEF LinkWithin, LinkTypeOK, Number
<1>6. issued + n + t <= MaxConn + orders + rotations
  BY DEF LinkWithin, IssueBound
<1>7. o <= MaxOrder /\ r <= MaxRotate
  BY LinkNumbers
<1>8. \/ i = issued /\ m <= n /\ u <= t /\ o = orders /\ r = rotations
      \/ i = issued /\ m <= n /\ u <= t + 1 /\ o = orders + 1 /\ r = rotations
      \/ i = issued + 1 /\ m + 1 <= n /\ u = t /\ o = orders /\ r = rotations
      \/ i = issued + 1 /\ m <= n /\ t = 1 /\ u = 0 /\ o = orders /\ r = rotations
      \/ i = issued + 1 /\ m <= n /\ u = t /\ o = orders /\ r = rotations + 1
  BY <1>3 DEF Issues
<1>p. IssueBound' <=> i + m + u <= MaxConn + o + r
  BY DEF IssueBound
<1>q. Number = 0..(MaxConn + MaxOrder + MaxRotate)
  BY LinkNumbers
<1> HIDE DEF n, m, t, u, i, o, r
<1>9. i \in Nat /\ i + m + u <= MaxConn + o + r
  BY <1>2, <1>4, <1>5, <1>6, <1>8
<1>10. i <= MaxConn + MaxOrder + MaxRotate
  BY <1>2, <1>4, <1>5, <1>7, <1>9
<1>11. i \in Number
  BY <1>5, <1>9, <1>10, <1>q
<1> QED BY <1>p, <1>9, <1>11 DEF i

LEMMA OneConnState ==
  ASSUME conn \in [Conn -> ConnState], NEW c \in Conn, NEW r \in ConnState,
         conn' = [conn EXCEPT ![c] = r]
  PROVE  /\ conn' \in [Conn -> ConnState]
         /\ (r.pc \in BeforeIssue => conn[c].pc \in BeforeIssue) => MayIssue' \subseteq MayIssue
         /\ r.pc \notin BeforeIssue => MayIssue' \subseteq MayIssue \ {c}
<1>1. conn' \in [Conn -> ConnState] /\ conn'[c] = r /\ \A d \in Conn \ {c} : conn'[d] = conn[d]
  OBVIOUS
<1> QED BY <1>1 DEF MayIssue

\* A secret sent to a connection.
LEMMA SentLetter ==
  ASSUME conn \in [Conn -> ConnState], NEW c \in Conn, NEW h \in Number
  PROVE  /\ conn[c].box \in Seq(Letter)
         /\ Sent(c, "approve", h) \in Seq(Letter) /\ Sent(c, "rotate_hmac", h) \in Seq(Letter)
<1>1. conn[c].box \in Seq(Letter)
  BY ConnStateIs
<1>2. [type |-> "approve", hmac |-> h] \in Letter /\ [type |-> "rotate_hmac", hmac |-> h] \in Letter
  BY DEF Letter
<1> HIDE DEF Letter
<1> QED BY <1>1, <1>2 DEF Sent

LEMMA LinkWithinFacts ==
  ASSUME LinkWithin
  PROVE  /\ secret \in Number /\ store \in Number /\ issued \in Number
         /\ conn \in [Conn -> ConnState] /\ loops \subseteq Loop
         /\ link \in Conn \cup {0} /\ pending \in Conn \cup {0} /\ agentConns \in Conn \cup {0}
         /\ OperatorShape(operator) /\ orders \in 0..MaxOrder /\ rotations \in 0..MaxRotate
         /\ Loop = [of : Conn, forever : BOOLEAN, send : Number]
         /\ \A d \in Conn \cup {0} : At(d) \in {"commit", "persist"} => Target(d) \in Conn
BY DEF LinkWithin, LinkTypeOK, OperatorShape, Number, Loop, At, Target

\* What a connection's own step changes, by its types.
ConnMoves ==
  /\ conn' \in [Conn -> ConnState] /\ Issues
  /\ secret' \in Number /\ link' \in Conn \cup {0}
  /\ store' \in {store, issued'} /\ loops' \subseteq Loop

LEMMA ConnTypeStep ==
  ASSUME LinkWithin, NEW c \in Conn,
         \/ Connect(c) \/ ServeHMAC(c) \/ ServeJoin(c) \/ ServeConsumed(c)
         \/ ConsumePreApproval(c) \/ Register(c) \/ Notice(c)
         \/ UnregisterAgent(c) \/ Receive(c)
  PROVE  ConnMoves
<1>0. /\ secret \in Number /\ store \in Number /\ issued \in Number
      /\ conn \in [Conn -> ConnState] /\ conn[c] \in ConnState /\ loops \subseteq Loop
      /\ link \in Conn \cup {0} /\ orders \in Nat
  BY LinkWithinFacts, LinkNumbers
<1>f. /\ conn[c].hmac \in Number /\ conn[c].shown \in Number /\ conn[c].box \in Seq(Letter)
      /\ <<>> \in Seq(Letter)
  BY <1>0, ConnStateIs
<1>p. \A q \in {"serve", "pend", "look", "register", "read", "done"} : q \in ConnPC
  BY DEF ConnPC
<1>s. ToIssue' = ToIssue /\ orders' = orders /\ rotations' = rotations
  <2>1. operator' = operator /\ orders' = orders /\ rotations' = rotations
    BY DEF Connect, ServeHMAC, ServeJoin, ServeConsumed, ConsumePreApproval, Register, Notice,
       UnregisterAgent, Receive, linkBounds
  <2> QED BY <2>1 DEF ToIssue
<1>t. ToIssue \in Nat
  BY DEF ToIssue
\* None makes a secret but ServeConsumed.
<1>k. ASSUME issued' = issued, MayIssue' \subseteq MayIssue PROVE Issues
  BY <1>0, <1>s, <1>t, <1>k DEF Issues
<1>1. CASE Connect(c)
  <2> DEFINE r == [NoConn EXCEPT !.pc = "serve", !.shown = secret, !.up = TRUE]
  <2>1. r \in ConnState /\ r.pc = "serve"
    <3>1. 0 \in Number
      BY DEF Number
    <3> QED BY <1>0, <1>f, <1>p, <3>1, ConnStateIs DEF NoConn
  <2>2. conn' = [conn EXCEPT ![c] = r] /\ link' = c /\ conn[c].pc = "none"
        /\ UNCHANGED <<secret, store, issued, loops>>
    BY <1>1 DEF Connect
  <2> HIDE DEF r
  <2>3. conn' \in [Conn -> ConnState] /\ MayIssue' \subseteq MayIssue
    BY <1>0, <1>f, <2>1, <2>2, OneConnState DEF BeforeIssue
  <2> QED BY <1>0, <1>f, <1>k, <2>2, <2>3 DEF ConnMoves
<1>2. CASE ServeHMAC(c)
  <2>1. conn[c].pc = "serve" /\ UNCHANGED <<secret, store, issued, loops>> /\ link' \in {link, 0}
    BY <1>2 DEF ServeHMAC, Refuse
  <2>2. PICK r : /\ conn' = [conn EXCEPT ![c] = r]
                 /\ \/ r = [conn[c] EXCEPT !.pc = "register", !.hmac = conn[c].shown, !.approved = TRUE]
                    \/ r = [conn[c] EXCEPT !.pc = "done", !.up = FALSE]
    <3>1. CASE conn[c].shown = StoredHMAC
      BY <1>0, <1>f, <1>2, <3>1 DEF ServeHMAC
    <3>2. CASE conn[c].shown # StoredHMAC
      BY <1>0, <1>f, <1>2, <3>2 DEF ServeHMAC, Refuse
    <3> QED BY <3>1, <3>2
  <2>3. r \in ConnState /\ r.pc \in {"register", "done"}
    BY <1>0, <1>f, <1>p, <2>2, ConnStateIs
  <2>4. conn' \in [Conn -> ConnState] /\ MayIssue' \subseteq MayIssue
    BY <1>0, <2>2, <2>3, OneConnState DEF BeforeIssue
  <2> QED BY <1>0, <1>f, <1>k, <2>1, <2>4 DEF ConnMoves
<1>3. CASE ServeJoin(c) \/ ConsumePreApproval(c)
  <2>1. conn[c].pc \in {"serve", "pend"} /\ UNCHANGED <<secret, store, issued, loops, link>>
    BY <1>3 DEF ServeJoin, ConsumePreApproval, agentEnd
  <2>2. PICK r : /\ conn' = [conn EXCEPT ![c] = r]
                 /\ \E pc \in {"pend", "look", "register"} : r = [conn[c] EXCEPT !.pc = pc]
    BY <1>0, <1>f, <1>3 DEF ServeJoin, ConsumePreApproval
  <2>3. r \in ConnState
    <3>1. PICK pc \in ConnPC : r = [conn[c] EXCEPT !.pc = pc]
      BY <1>p, <2>2
    <3> QED BY <1>0, <1>f, <3>1, ConnStateIs
  <2>4. conn' \in [Conn -> ConnState] /\ MayIssue' \subseteq MayIssue
    BY <1>0, <2>1, <2>2, <2>3, OneConnState DEF BeforeIssue
  <2> QED BY <1>0, <1>f, <1>k, <2>1, <2>4 DEF ConnMoves
<1>4. CASE ServeConsumed(c)
  <2>1. conn[c].pc = "serve" /\ UNCHANGED <<secret, loops>> /\ link' \in {link, 0}
        /\ store' \in {store, issued'} /\ issued' \in {issued, issued + 1}
    BY <1>4 DEF ServeConsumed, Refuse
  <2>2. PICK r : /\ conn' = [conn EXCEPT ![c] = r]
                 /\ \/ r = [conn[c] EXCEPT !.pc = "register", !.hmac = store, !.approved = TRUE]
                    \/ r = [conn[c] EXCEPT !.pc = "done", !.up = FALSE]
    BY <1>0, <1>f, <1>4 DEF ServeConsumed, Refuse
  <2>3. r \in ConnState /\ r.pc \in {"register", "done"}
    BY <1>0, <1>f, <1>p, <2>2, ConnStateIs
  <2>4. conn' \in [Conn -> ConnState] /\ MayIssue' \subseteq MayIssue \ {c} /\ c \in MayIssue
    BY <1>0, <2>1, <2>2, <2>3, OneConnState DEF BeforeIssue, MayIssue
  <2>5. Issues
    BY <1>0, <1>f, <1>k, <1>s, <2>1, <2>4 DEF Issues
  <2> QED BY <1>0, <1>f, <2>1, <2>4, <2>5 DEF ConnMoves
<1>5. CASE Register(c)
  <2>1. conn[c].pc = "register" /\ UNCHANGED <<secret, store, issued, link>>
    BY <1>5 DEF Register, agentEnd
  <2>2. PICK r : /\ conn' = [conn EXCEPT ![c] = r]
                 /\ \E b \in Seq(Letter) : r = [conn[c] EXCEPT !.pc = "read", !.box = b]
    BY <1>0, <1>f, <1>5, SentLetter DEF Register
  <2>3. r \in ConnState /\ r.pc = "read"
    BY <1>0, <1>f, <1>p, <2>2, ConnStateIs
  <2>4. conn' \in [Conn -> ConnState] /\ MayIssue' \subseteq MayIssue
    BY <1>0, <2>2, <2>3, OneConnState DEF BeforeIssue
  <2>5. loops' \subseteq Loop
    <3>1. [of |-> c, forever |-> FALSE, send |-> 0] \in Loop
      BY DEF Loop
    <3>2. loops' \in {loops, loops \cup {[of |-> c, forever |-> FALSE, send |-> 0]}}
      BY <1>5 DEF Register
    <3> QED BY <1>0, <1>f, <3>1, <3>2
  <2> QED BY <1>0, <1>f, <1>k, <2>1, <2>4, <2>5 DEF ConnMoves
<1>6. CASE Notice(c) \/ UnregisterAgent(c)
  <2>1. UNCHANGED <<secret, store, issued, link>> /\ loops' \subseteq loops
    BY <1>6 DEF Notice, UnregisterAgent, agentEnd
  <2>2. PICK r : /\ conn' = [conn EXCEPT ![c] = r]
                 /\ r = [conn[c] EXCEPT !.up = FALSE] \/ r = [conn[c] EXCEPT !.pc = "done"]
    BY <1>0, <1>f, <1>6 DEF Notice, UnregisterAgent
  <2>3. r \in ConnState /\ r.pc \in {conn[c].pc, "done"}
    BY <1>0, <1>f, <1>p, <2>2, ConnStateIs
  <2>4. conn' \in [Conn -> ConnState] /\ MayIssue' \subseteq MayIssue
    BY <1>0, <2>2, <2>3, OneConnState DEF BeforeIssue
  <2> QED BY <1>0, <1>f, <1>k, <2>1, <2>4 DEF ConnMoves
<1>8. CASE Receive(c)
  <2>1. UNCHANGED <<store, issued, loops, link>> /\ conn[c].box # <<>>
        /\ secret' = Head(conn[c].box).hmac
    BY <1>8 DEF Receive
  <2>2. Head(conn[c].box) \in Letter /\ Tail(conn[c].box) \in Seq(Letter)
    BY <1>0, <1>f, <2>1
  <2>3. secret' \in Number
    BY <2>1, <2>2 DEF Letter
  <2>4. PICK r : conn' = [conn EXCEPT ![c] = r] /\ r = [conn[c] EXCEPT !.box = Tail(conn[c].box)]
    BY <1>0, <1>f, <1>8 DEF Receive
  <2>5. r \in ConnState /\ r.pc = conn[c].pc
    BY <1>0, <2>2, <2>4, ConnStateIs
  <2>6. conn' \in [Conn -> ConnState] /\ MayIssue' \subseteq MayIssue
    BY <1>0, <2>4, <2>5, OneConnState
  <2> QED BY <1>0, <1>f, <1>k, <2>1, <2>3, <2>6 DEF ConnMoves
<1> QED BY <1>1, <1>2, <1>3, <1>4, <1>5, <1>6, <1>8

\* Another secret fits if one that may make it is there.
LEMMA CanIssue ==
  ASSUME LinkWithin, MayIssue # {} \/ ToIssue = 1 \/ rotations < MaxRotate
  PROVE  issued + 1 \in Number
<1> DEFINE n == Cardinality(MayIssue)
           t == ToIssue
<1>1. /\ issued \in Nat /\ orders \in Nat /\ rotations \in Nat /\ orders <= MaxOrder /\ rotations <= MaxRotate
      /\ MaxConn \in Nat /\ MaxOrder \in Nat /\ MaxRotate \in Nat
      /\ Number = 0..(MaxConn + MaxOrder + MaxRotate)
  BY LinkNumbers DEF LinkWithin, LinkTypeOK, Number
<1>2. MayIssue \subseteq Conn
  BY DEF MayIssue
<1>3. n \in Nat /\ n <= MaxConn /\ (MayIssue # {} => 1 <= n)
  <2>1. n \in Nat /\ n <= MaxConn
    BY <1>1, <1>2, IssuersCounted
  <2>2. ASSUME NEW c \in MayIssue PROVE 1 <= n
    <3>1. Cardinality({}) + 1 <= n
      <4>1. {} \in SUBSET (MayIssue \ {c})
        OBVIOUS
      <4> QED BY <1>2, <4>1, IssuersCounted
    <3> QED BY <3>1, FS_EmptySet
  <2> QED BY <2>1, <2>2
<1>4. t \in {0, 1} /\ (1 <= n \/ t = 1 \/ rotations < MaxRotate)
  BY <1>3 DEF ToIssue
<1>5. issued + n + t <= MaxConn + orders + rotations
  BY DEF LinkWithin, IssueBound
<1> HIDE DEF n, t
<1>6. issued + 1 <= MaxConn + MaxOrder + MaxRotate
  BY <1>1, <1>3, <1>4, <1>5
<1> QED BY <1>1, <1>6

\* The caller of an approval goes on; once it has made a secret it makes no other.
LEMMA GotoTypes ==
  ASSUME conn \in [Conn -> ConnState], OperatorShape(operator),
         NEW d \in Conn \cup {0}, NEW cs \in [Conn -> ConnState], \A c \in Conn : cs[c].pc = conn[c].pc,
         At(d) \in {"look", "record", "commit", "persist"},
         NEW pc \in {"idle", "record", "commit", "persist"}, NEW x \in Conn \cup {0},
         pc \in {"commit", "persist"} => x # 0, Goto(d, pc, x, cs),
         pc = "commit" => At(d) = "look"
  PROVE  /\ conn' \in [Conn -> ConnState] /\ OperatorShape(operator')
         /\ MayIssue' \subseteq MayIssue /\ ToIssue' \in 0..ToIssue
         /\ At(d) = "commit" =>
              \/ /\ d \in MayIssue /\ MayIssue' \subseteq MayIssue \ {d} /\ ToIssue' = ToIssue
              \/ ToIssue = 1 /\ ToIssue' = 0
<1>0. 0 \notin Conn
  BY LinkNumbers
<1>1. CASE d = 0
  <2>1. conn' = cs /\ operator' = [pc |-> pc, of |-> x]
    BY <1>1 DEF Goto
  <2>2. operator.pc = At(d)
    BY <1>1 DEF At
  <2>3. MayIssue' = MayIssue
    BY <2>1 DEF MayIssue
  <2>4. OperatorShape(operator')
    BY <2>1 DEF OperatorShape
  <2>5. operator'.pc = pc
    BY <2>1
  <2>6. ToIssue' \in 0..ToIssue /\ (At(d) = "commit" => ToIssue = 1 /\ ToIssue' = 0)
    BY <2>2, <2>5 DEF ToIssue
  <2> QED BY <2>1, <2>3, <2>4, <2>6
<1>2. CASE d # 0
  <2> DEFINE q == IF pc = "idle" THEN "register" ELSE pc
             r == [cs[d] EXCEPT !.pc = q]
  <2>1. d \in Conn /\ q \in ConnPC /\ At(d) = conn[d].pc /\ cs[d] \in ConnState
    BY <1>2 DEF At, ConnPC
  <2>2. q \in BeforeIssue => pc = "commit"
    BY DEF BeforeIssue
  <2>3. conn' = [cs EXCEPT ![d] = r] /\ operator' = operator
    BY <1>2 DEF Goto
  <2> HIDE DEF q
  <2>4. r \in ConnState /\ r.pc = q
    BY <2>1, ConnStateIs
  <2> HIDE DEF r
  <2>5. conn' \in [Conn -> ConnState] /\ conn'[d].pc = q /\ \A c \in Conn \ {d} : conn'[c].pc = conn[c].pc
    BY <2>1, <2>3, <2>4
  <2>6. MayIssue' \subseteq MayIssue
    BY <2>1, <2>2, <2>5 DEF MayIssue, BeforeIssue
  <2>7. At(d) = "commit" => d \in MayIssue /\ MayIssue' \subseteq MayIssue \ {d}
    BY <2>1, <2>2, <2>5 DEF MayIssue, BeforeIssue
  <2>8. ToIssue' = ToIssue /\ ToIssue \in {0, 1}
    BY <2>3 DEF ToIssue
  <2> QED BY <2>3, <2>5, <2>6, <2>7, <2>8
<1> QED BY <1>1, <1>2

ApproveMoves ==
  /\ conn' \in [Conn -> ConnState] /\ OperatorShape(operator') /\ Issues
  /\ store' \in Number /\ loops' \subseteq Loop /\ pending' \in Conn \cup {0}

LEMMA ApproveTypeStep ==
  ASSUME LinkWithin, NEW d \in Conn \cup {0},
         ApproveLook(d) \/ ApproveRecord(d) \/ ApproveCommit(d) \/ ApprovePersist(d)
  PROVE  ApproveMoves
<1>0. /\ store \in Number /\ issued \in Number /\ conn \in [Conn -> ConnState]
      /\ pending \in Conn \cup {0} /\ OperatorShape(operator) /\ loops \subseteq Loop /\ 0 \notin Conn
  BY LinkWithinFacts, LinkNumbers
<1>t. At(d) \in {"commit", "persist"} => Target(d) \in Conn
  BY LinkWithinFacts
<1>s. orders' = orders /\ rotations' = rotations
  BY DEF ApproveLook, ApproveRecord, ApproveCommit, ApprovePersist, linkBounds
<1>n. ToIssue \in {0, 1}
  BY DEF ToIssue
<1>k. ASSUME issued' = issued, MayIssue' \subseteq MayIssue, ToIssue' \in 0..ToIssue PROVE Issues
  BY <1>s, <1>n, <1>k DEF Issues
<1>1. CASE ApproveLook(d)
  <2>1. UNCHANGED <<store, issued, loops, pending>> /\ At(d) = "look"
    BY <1>1 DEF ApproveLook
  <2>2. PICK pc \in {"idle", "record", "commit", "persist"}, x \in Conn \cup {0} :
          Goto(d, pc, x, conn) /\ (pc \in {"commit", "persist"} => x # 0)
    BY <1>0, <1>1 DEF ApproveLook
  <2>3. /\ conn' \in [Conn -> ConnState] /\ OperatorShape(operator')
        /\ MayIssue' \subseteq MayIssue /\ ToIssue' \in 0..ToIssue
    BY <1>0, <2>1, <2>2, GotoTypes
  <2> QED BY <1>0, <1>k, <2>1, <2>3 DEF ApproveMoves
<1>2. CASE ApproveRecord(d)
  <2>1. UNCHANGED <<store, issued, loops, pending>> /\ At(d) = "record" /\ Goto(d, "idle", 0, conn)
    BY <1>2 DEF ApproveRecord
  <2>2. /\ conn' \in [Conn -> ConnState] /\ OperatorShape(operator')
        /\ MayIssue' \subseteq MayIssue /\ ToIssue' \in 0..ToIssue
    BY <1>0, <2>1, GotoTypes
  <2> QED BY <1>0, <1>k, <2>1, <2>2 DEF ApproveMoves
<1>3. CASE ApprovePersist(d)
  <2> DEFINE c == Target(d)
  <2>1. /\ UNCHANGED <<issued, pending>> /\ At(d) = "persist" /\ Goto(d, "idle", 0, conn)
        /\ store' = conn[c].hmac
        /\ loops' = loops \cup {[of |-> c, forever |-> TRUE, send |-> 0]}
    BY <1>3 DEF ApprovePersist, hubMaps
  <2>2. /\ conn' \in [Conn -> ConnState] /\ OperatorShape(operator')
        /\ MayIssue' \subseteq MayIssue /\ ToIssue' \in 0..ToIssue
    BY <1>0, <2>1, GotoTypes
  <2>3. c \in Conn
    BY <1>t, <2>1
  <2>4. store' \in Number
    BY <1>0, <2>1, <2>3, ConnStateIs
  <2>5. [of |-> c, forever |-> TRUE, send |-> 0] \in Loop
    BY <2>3 DEF Loop
  <2> HIDE DEF c
  <2> QED BY <1>0, <1>k, <2>1, <2>2, <2>4, <2>5 DEF ApproveMoves
<1>4. CASE ApproveCommit(d)
  <2> DEFINE c == Target(d)
  <2>1. UNCHANGED <<store, loops>> /\ At(d) = "commit" /\ c \in Conn
    BY <1>t, <1>4 DEF ApproveCommit
  <2>2. CASE conn[c].approved
    <3>1. Goto(d, "idle", 0, conn) /\ UNCHANGED <<pending, issued>>
      BY <1>4, <2>2 DEF ApproveCommit
    <3>2. /\ conn' \in [Conn -> ConnState] /\ OperatorShape(operator')
          /\ MayIssue' \subseteq MayIssue /\ ToIssue' \in 0..ToIssue
      BY <1>0, <2>1, <3>1, GotoTypes
    <3> QED BY <1>0, <1>k, <2>1, <3>1, <3>2 DEF ApproveMoves
  <2>3. CASE ~conn[c].approved
    <3> DEFINE b == IF conn[c].up THEN Sent(c, "approve", issued + 1) ELSE conn[c].box
               r == [conn[c] EXCEPT !.hmac = issued + 1, !.approved = TRUE, !.box = b]
               cs == [conn EXCEPT ![c] = r]
               pc == IF conn[c].up THEN "persist" ELSE "idle"
               x == IF conn[c].up THEN c ELSE 0
    <3>1. issued' = issued + 1 /\ pending' \in {pending, 0}
      BY <1>4, <2>3 DEF ApproveCommit
    <3>2. Goto(d, pc, x, [conn EXCEPT ![c].hmac = issued + 1, ![c].approved = TRUE, ![c].box = b])
      BY <1>4, <2>3 DEF ApproveCommit
    <3>3. [conn EXCEPT ![c].hmac = issued + 1, ![c].approved = TRUE, ![c].box = b] = cs
      BY <1>0, <2>1
    <3>4. issued + 1 \in Number /\ conn[c] \in ConnState
      <4>1. MayIssue # {} \/ ToIssue = 1
        BY <1>0, <2>1 DEF At, MayIssue, BeforeIssue, ToIssue
      <4> QED BY <1>0, <2>1, <4>1, CanIssue
    <3>5. b \in Seq(Letter)
      BY <1>0, <2>1, <3>4, SentLetter
    <3>7. pc \in {"idle", "persist"} /\ x \in Conn \cup {0} /\ (pc = "persist" => x # 0)
      BY <1>0, <2>1
    <3> HIDE DEF b, pc, x
    <3>8. r \in ConnState /\ r.pc = conn[c].pc
      BY <3>4, <3>5, ConnStateIs
    <3> HIDE DEF r
    <3>9. cs \in [Conn -> ConnState] /\ \A e \in Conn : cs[e].pc = conn[e].pc
      BY <1>0, <2>1, <3>8
    <3>10. Goto(d, pc, x, cs)
      BY <3>2, <3>3
    <3> HIDE DEF cs, c
    <3>11. /\ conn' \in [Conn -> ConnState] /\ OperatorShape(operator')
           /\ MayIssue' \subseteq MayIssue
           /\ \/ d \in MayIssue /\ MayIssue' \subseteq MayIssue \ {d} /\ ToIssue' = ToIssue
              \/ ToIssue = 1 /\ ToIssue' = 0
      BY <1>0, <2>1, <3>7, <3>9, <3>10, GotoTypes
    <3>12. Issues
      BY <1>s, <3>1, <3>11 DEF Issues
    <3> QED BY <1>0, <2>1, <3>1, <3>11, <3>12 DEF ApproveMoves
  <2> QED BY <2>2, <2>3
<1> QED BY <1>1, <1>2, <1>3, <1>4

FaultMoves ==
  /\ conn' \in [Conn -> ConnState] /\ OperatorShape(operator') /\ Issues
  /\ store' \in Number /\ loops' \subseteq Loop /\ secret' = secret /\ link' \in {link, 0}
  /\ orders' \in 0..MaxOrder /\ rotations' \in 0..MaxRotate

LEMMA FaultTypeStep ==
  ASSUME LinkWithin,
         \/ OrderApproval \/ RevokeAgent
         \/ \E l \in loops : RotateSet(l) \/ RotateSend(l)
         \/ CutLink \/ RestartAgent \/ RestartHub
  PROVE  FaultMoves
<1>0. /\ store \in Number /\ issued \in Number /\ conn \in [Conn -> ConnState]
      /\ OperatorShape(operator) /\ loops \subseteq Loop /\ 0 \in Number
      /\ orders \in 0..MaxOrder /\ rotations \in 0..MaxRotate
      /\ agentConns \in Conn \cup {0} /\ pending \in Conn \cup {0}
  BY LinkWithinFacts, LinkNumbers DEF Number
<1>b. MaxOrder \in Nat /\ MaxRotate \in Nat /\ 0 \notin Conn
  BY LinkNumbers
<1>n. ToIssue \in {0, 1}
  BY DEF ToIssue
<1>1. CASE OrderApproval
  <2>1. /\ UNCHANGED <<secret, store, issued, link, conn, loops, rotations>>
        /\ orders < MaxOrder /\ orders' = orders + 1
        /\ operator.pc = "idle" /\ operator' = [operator EXCEPT !.pc = "look"]
    BY <1>1 DEF OrderApproval, agentEnd
  <2>2. OperatorShape(operator') /\ ToIssue' = 1 /\ ToIssue = 0
    BY <1>0, <2>1 DEF OperatorShape, ToIssue
  <2>3. MayIssue' = MayIssue
    BY <2>1 DEF MayIssue
  <2>4. orders' \in 0..MaxOrder
    BY <1>0, <1>b, <2>1
  <2>5. Issues
    BY <2>1, <2>2, <2>3 DEF Issues
  <2> QED BY <1>0, <2>1, <2>2, <2>4, <2>5 DEF FaultMoves
<1>2. CASE RevokeAgent
  <2> DEFINE c == IF agentConns # 0 THEN agentConns ELSE pending
  <2>1. /\ UNCHANGED <<secret, issued, loops, operator, rotations>> /\ store' = 0
        /\ orders < MaxOrder /\ orders' = orders + 1 /\ link' \in {link, 0}
        /\ conn' = IF c = 0 THEN conn ELSE [conn EXCEPT ![c].up = FALSE]
    BY <1>2 DEF RevokeAgent
  <2>2. c \in Conn \cup {0}
    BY <1>0
  <2> HIDE DEF c
  <2>3. conn' \in [Conn -> ConnState] /\ MayIssue' \subseteq MayIssue
    <3>1. CASE c = 0
      BY <1>0, <2>1, <3>1 DEF MayIssue
    <3>2. CASE c # 0
      <4> DEFINE r == [conn[c] EXCEPT !.up = FALSE]
      <4>1. c \in Conn /\ conn' = [conn EXCEPT ![c] = r]
        BY <1>0, <2>1, <2>2, <3>2
      <4>2. r \in ConnState /\ r.pc = conn[c].pc
        BY <1>0, <4>1, ConnStateIs
      <4> HIDE DEF r
      <4> QED BY <1>0, <4>1, <4>2, OneConnState
    <3> QED BY <3>1, <3>2
  <2>4. ToIssue' = ToIssue
    BY <2>1 DEF ToIssue
  <2>5. orders' \in 0..MaxOrder
    BY <1>0, <1>b, <2>1
  <2>6. Issues
    BY <1>n, <2>1, <2>3, <2>4 DEF Issues
  <2> QED BY <1>0, <2>1, <2>3, <2>5, <2>6 DEF FaultMoves
<1>3. CASE CutLink \/ RestartAgent
  <2>1. UNCHANGED <<secret, store, issued, conn, operator, loops, orders, rotations>> /\ link' = 0
    BY <1>3 DEF CutLink, RestartAgent
  <2>2. MayIssue' = MayIssue /\ ToIssue' = ToIssue
    BY <2>1 DEF MayIssue, ToIssue
  <2>3. Issues
    BY <1>n, <2>1, <2>2 DEF Issues
  <2> QED BY <1>0, <2>1, <2>3 DEF FaultMoves
<1>4. CASE RestartHub
  <2>1. /\ UNCHANGED <<secret, store, issued, orders, rotations>> /\ link' = 0
        /\ operator' = Call0 /\ loops' = {}
        /\ conn' = [c \in Conn |-> IF conn[c].pc = "none" THEN NoConn ELSE [NoConn EXCEPT !.pc = "done"]]
    BY <1>4 DEF RestartHub
  <2>2. NoConn \in ConnState /\ [NoConn EXCEPT !.pc = "done"] \in ConnState
        /\ [NoConn EXCEPT !.pc = "done"].pc = "done"
    <3>1. <<>> \in Seq(Letter) /\ "done" \in ConnPC /\ "none" \in ConnPC
      BY DEF ConnPC
    <3> QED BY <1>0, <3>1, ConnStateIs DEF NoConn
  <2>3. conn' \in [Conn -> ConnState]
    BY <2>1, <2>2
  <2>4. \A c \in Conn : conn'[c].pc \in BeforeIssue => conn[c].pc = "none"
    BY <2>1, <2>2 DEF BeforeIssue
  <2>5. MayIssue' \subseteq MayIssue
    BY <2>4 DEF MayIssue, BeforeIssue
  <2>6. operator'.pc = "idle" /\ OperatorShape(operator')
    BY <2>1 DEF Call0, OperatorShape
  <2>7. ToIssue' = 0
    BY <2>6 DEF ToIssue
  <2>8. Issues
    BY <1>n, <2>1, <2>5, <2>7 DEF Issues
  <2> QED BY <1>0, <2>1, <2>3, <2>6, <2>8 DEF FaultMoves
<1>5. ASSUME NEW l \in loops, RotateSet(l) \/ RotateSend(l) PROVE FaultMoves
  <2>0. l \in [of : Conn, forever : BOOLEAN, send : Number] /\ l.of \in Conn /\ conn[l.of] \in ConnState
    BY <1>0, LinkWithinFacts
  <2> DEFINE c == l.of
  <2>1. UNCHANGED <<secret, link, operator, orders>> /\ ToIssue' = ToIssue
    BY <1>5 DEF RotateSet, RotateSend, agentEnd, linkBounds, ToIssue
  <2>2. ASSUME NEW h \in Number PROVE [l EXCEPT !.send = h] \in Loop
    BY <2>0, LinkWithinFacts
  <2>3. CASE RotateSet(l)
    <3>1. /\ rotations < MaxRotate /\ rotations' = rotations + 1 /\ issued' = issued + 1
          /\ store' = issued + 1 /\ loops' = (loops \ {l}) \cup {[l EXCEPT !.send = issued + 1]}
          /\ conn' = [conn EXCEPT ![c] = [conn[c] EXCEPT !.hmac = issued + 1]]
      BY <1>0, <2>3 DEF RotateSet
    <3>2. issued + 1 \in Number
      BY <3>1, CanIssue
    <3>3. rotations' \in 0..MaxRotate
      BY <1>0, <1>b, <3>1
    <3> DEFINE r == [conn[c] EXCEPT !.hmac = issued + 1]
    <3>4. r \in ConnState /\ r.pc = conn[c].pc
      BY <2>0, <3>2, ConnStateIs
    <3>5. conn' = [conn EXCEPT ![c] = r] /\ c \in Conn
      BY <2>0, <3>1
    <3> HIDE DEF r, c
    <3>6. conn' \in [Conn -> ConnState] /\ MayIssue' \subseteq MayIssue
      BY <1>0, <3>4, <3>5, OneConnState
    <3>7. Issues
      BY <2>1, <3>1, <3>6 DEF Issues
    <3>8. loops' \subseteq Loop
      BY <1>0, <2>2, <3>1, <3>2
    <3> QED BY <1>0, <2>1, <3>1, <3>2, <3>3, <3>6, <3>7, <3>8 DEF FaultMoves
  <2>4. CASE RotateSend(l)
    <3>1. /\ UNCHANGED <<store, issued, rotations>>
          /\ \/ /\ conn' = [conn EXCEPT ![c] = [conn[c] EXCEPT !.box = Sent(c, "rotate_hmac", l.send)]]
                /\ loops' = (loops \ {l}) \cup {[l EXCEPT !.send = 0]}
             \/ conn' = conn /\ loops' = loops \ {l}
      BY <2>4 DEF RotateSend, linkBounds
    <3>2. Sent(c, "rotate_hmac", l.send) \in Seq(Letter)
      BY <1>0, <2>0, SentLetter
    <3> DEFINE b == Sent(c, "rotate_hmac", l.send)
               r == [conn[c] EXCEPT !.box = b]
    <3>3. b \in Seq(Letter)
      BY <3>2
    <3> HIDE DEF b
    <3>4. r \in ConnState /\ r.pc = conn[c].pc
      BY <2>0, <3>3, ConnStateIs
    <3>5. c \in Conn /\ (conn' = conn \/ conn' = [conn EXCEPT ![c] = r])
      BY <2>0, <3>1 DEF b
    <3> HIDE DEF r, c
    <3>6. conn' \in [Conn -> ConnState] /\ MayIssue' \subseteq MayIssue
      <4>1. CASE conn' = conn
        BY <1>0, <4>1 DEF MayIssue
      <4> QED BY <1>0, <3>4, <3>5, <4>1, OneConnState
    <3>7. Issues
      BY <1>n, <2>1, <3>1, <3>6 DEF Issues
    <3>8. loops' \subseteq Loop
      BY <1>0, <2>2, <3>1
    <3> QED BY <1>0, <2>1, <3>1, <3>6, <3>7, <3>8 DEF FaultMoves
  <2> QED BY <1>5, <2>3, <2>4
<1> QED BY <1>1, <1>2, <1>3, <1>4, <1>5

\* The rest of LinkTypeOK: places, truth values and bounds.
LinkPlaces ==
  /\ pending \in Conn \cup {0} /\ agentConns \in Conn \cup {0}
  /\ orders \in 0..MaxOrder /\ rotations \in 0..MaxRotate /\ cuts \in 0..MaxCut
LinkFlags ==
  /\ token \in BOOLEAN /\ used \in BOOLEAN /\ preApproved \in BOOLEAN
  /\ revoked \in BOOLEAN /\ lost \in BOOLEAN

LEMMA LinkPlacesStep == LinkWithin /\ LinkNext => LinkPlaces'
<1> SUFFICES ASSUME LinkWithin, LinkNext PROVE LinkPlaces'
  OBVIOUS
<1>0. LinkPlaces /\ MaxOrder \in Nat /\ MaxRotate \in Nat /\ MaxCut \in Nat
  BY LinkNumbers DEF LinkWithin, LinkTypeOK, LinkPlaces
<1>1. ASSUME NEW c \in Conn,
             \/ Connect(c) \/ ServeHMAC(c) \/ ServeJoin(c) \/ ServeConsumed(c)
             \/ ConsumePreApproval(c) \/ Register(c) \/ Notice(c)
             \/ UnregisterAgent(c) \/ Receive(c)
      PROVE  LinkPlaces'
  BY <1>0, <1>1 DEF LinkPlaces, Connect, ServeHMAC, ServeJoin, ServeConsumed, ConsumePreApproval,
                    Register, Notice, UnregisterAgent, Receive, hubMaps, linkBounds
<1>2. ASSUME NEW d \in Conn \cup {0},
             ApproveLook(d) \/ ApproveRecord(d) \/ ApproveCommit(d) \/ ApprovePersist(d)
      PROVE  LinkPlaces'
  BY <1>0, <1>2 DEF LinkPlaces, ApproveLook, ApproveRecord, ApproveCommit, ApprovePersist, hubMaps, linkBounds
<1>3. CASE OrderApproval \/ RevokeAgent
  BY <1>0, <1>3 DEF LinkPlaces, OrderApproval, RevokeAgent, hubMaps
<1>4. ASSUME NEW l \in loops, RotateSet(l) \/ RotateSend(l) PROVE LinkPlaces'
  BY <1>0, <1>4 DEF LinkPlaces, RotateSet, RotateSend, hubMaps, linkBounds
<1>5. CASE CutLink \/ RestartAgent \/ RestartHub
  BY <1>0, <1>5 DEF LinkPlaces, CutLink, RestartAgent, RestartHub, hubMaps
<1> QED BY <1>1, <1>2, <1>3, <1>4, <1>5 DEF LinkNext

LEMMA LinkFlagsStep == LinkWithin /\ LinkNext => LinkFlags'
<1> SUFFICES ASSUME LinkWithin, LinkNext PROVE LinkFlags'
  OBVIOUS
<1>t. token \in BOOLEAN
  BY DEF LinkWithin, LinkTypeOK
<1>u. used \in BOOLEAN
  BY DEF LinkWithin, LinkTypeOK
<1>p. preApproved \in BOOLEAN
  BY DEF LinkWithin, LinkTypeOK
<1>r. revoked \in BOOLEAN
  BY DEF LinkWithin, LinkTypeOK
<1>l. lost \in BOOLEAN
  BY DEF LinkWithin, LinkTypeOK
<1>1. ASSUME NEW c \in Conn,
             \/ Connect(c) \/ ServeHMAC(c) \/ ServeJoin(c) \/ ServeConsumed(c)
             \/ ConsumePreApproval(c) \/ Register(c) \/ Notice(c)
             \/ UnregisterAgent(c) \/ Receive(c)
      PROVE  LinkFlags'
  BY <1>1, <1>t, <1>u, <1>p, <1>r, <1>l, Zenon
     DEF LinkFlags, Connect, ServeHMAC, ServeJoin, ServeConsumed, ConsumePreApproval,
         Register, Notice, UnregisterAgent, Receive, hubMaps, linkBounds, agentEnd
<1>2. ASSUME NEW d \in Conn \cup {0},
             ApproveLook(d) \/ ApproveRecord(d) \/ ApproveCommit(d) \/ ApprovePersist(d)
      PROVE  LinkFlags'
  BY <1>2, <1>t, <1>u, <1>p, <1>r, <1>l, Zenon
     DEF LinkFlags, ApproveLook, ApproveRecord, ApproveCommit, ApprovePersist, hubMaps, linkBounds, agentEnd
<1>3. CASE OrderApproval \/ RevokeAgent
  BY <1>3, <1>t, <1>u, <1>p, <1>r, <1>l, Zenon DEF LinkFlags, OrderApproval, RevokeAgent, hubMaps, agentEnd
<1>4. ASSUME NEW l \in loops, RotateSet(l) \/ RotateSend(l) PROVE LinkFlags'
  BY <1>4, <1>t, <1>u, <1>p, <1>r, <1>l, Zenon DEF LinkFlags, RotateSet, RotateSend, hubMaps, linkBounds, agentEnd
<1>5. CASE CutLink \/ RestartAgent \/ RestartHub
  BY <1>5, <1>t, <1>u, <1>p, <1>r, <1>l, Zenon DEF LinkFlags, CutLink, RestartAgent, RestartHub, hubMaps
<1> QED BY <1>1, <1>2, <1>3, <1>4, <1>5 DEF LinkNext

LEMMA LinkWithinInit == LinkInit => LinkWithin
<1> SUFFICES ASSUME LinkInit PROVE LinkWithin
  OBVIOUS
<1>1. conn \in [Conn -> ConnState] /\ 0 \in Number
  <2>1. <<>> \in Seq(Letter) /\ "none" \in ConnPC /\ 0 \in Number
    BY DEF ConnPC, Number
  <2>2. NoConn \in ConnState
    BY <2>1, ConnStateIs DEF NoConn
  <2> QED BY <2>1, <2>2 DEF LinkInit
<1>2. operator = Call0 /\ OperatorShape(operator) /\ operator.pc = "idle"
  BY DEF LinkInit, Call0, OperatorShape
<1>3. LinkTypeOK
  <2>1. /\ secret \in Number /\ store \in Number /\ issued \in Number
        /\ conn \in [Conn -> ConnState] /\ loops \subseteq Loop /\ link \in Conn \cup {0}
        /\ operator \in [pc : {"idle", "look", "record", "commit", "persist"}, of : Conn \cup {0}]
    BY <1>1, <1>2 DEF LinkInit, OperatorShape
  <2>2. LinkPlaces
    BY LinkNumbers DEF LinkInit, LinkPlaces
  <2>3. LinkFlags
    BY DEF LinkInit, LinkFlags
  <2> QED BY <2>1, <2>2, <2>3 DEF LinkTypeOK, LinkPlaces, LinkFlags, Number
<1>4. IssueBound
  <2>1. MayIssue \in SUBSET Conn /\ ToIssue = 0
    BY <1>2 DEF MayIssue, ToIssue
  <2> DEFINE n == Cardinality(MayIssue)
  <2>2. n \in 0..MaxConn
    BY <2>1, IssuersCounted
  <2>3. issued = 0 /\ orders = 0 /\ rotations = 0
    BY DEF LinkInit
  <2>4. IssueBound <=> issued + n + ToIssue <= MaxConn + orders + rotations
    BY DEF IssueBound
  <2> HIDE DEF n
  <2>5. 0 + n + 0 <= MaxConn + 0 + 0
    BY <2>2, LinkNumbers
  <2> QED BY <2>1, <2>3, <2>4, <2>5
<1> QED BY <1>2, <1>3, <1>4 DEF LinkWithin, OperatorShape

LEMMA LinkWithinStep == LinkWithin /\ [LinkNext]_linkVars => LinkWithin'
<1> SUFFICES ASSUME LinkWithin, [LinkNext]_linkVars PROVE LinkWithin'
  OBVIOUS
<1>1. CASE UNCHANGED linkVars
  BY <1>1 DEF linkVars, LinkWithin, LinkTypeOK, IssueBound, MayIssue, ToIssue
<1>2. CASE LinkNext
  <2>0. LinkPlaces' /\ LinkFlags'
    BY <1>2, LinkPlacesStep, LinkFlagsStep
  <2>f. /\ secret \in Number /\ store \in Number /\ link \in Conn \cup {0} /\ OperatorShape(operator)
    BY LinkWithinFacts
  <2>1. /\ secret' \in Number /\ link' \in Conn \cup {0} /\ conn' \in [Conn -> ConnState]
        /\ OperatorShape(operator') /\ loops' \subseteq Loop /\ Issues
        /\ store' \in Number \cup {issued'}
    <3>1. ASSUME NEW c \in Conn,
                 \/ Connect(c) \/ ServeHMAC(c) \/ ServeJoin(c) \/ ServeConsumed(c)
                 \/ ConsumePreApproval(c) \/ Register(c) \/ Notice(c)
                 \/ UnregisterAgent(c) \/ Receive(c)
          PROVE  ConnMoves /\ operator' = operator
      <4>1. operator' = operator
        BY <3>1 DEF Connect, ServeHMAC, ServeJoin, ServeConsumed, ConsumePreApproval, Register,
                    Notice, UnregisterAgent, Receive
      <4> QED BY <3>1, <4>1, ConnTypeStep
    <3>2. ASSUME NEW d \in Conn \cup {0},
                 ApproveLook(d) \/ ApproveRecord(d) \/ ApproveCommit(d) \/ ApprovePersist(d)
          PROVE  ApproveMoves /\ secret' = secret /\ link' = link
      <4>1. secret' = secret /\ link' = link
        BY <3>2 DEF ApproveLook, ApproveRecord, ApproveCommit, ApprovePersist, agentEnd
      <4> QED BY <3>2, <4>1, ApproveTypeStep
    <3> QED BY <1>2, <2>f, <3>1, <3>2, FaultTypeStep
            DEF LinkNext, ConnMoves, ApproveMoves, FaultMoves
  <2>2. IssueBound' /\ issued' \in Number
    BY <2>0, <2>1, IssuedNumber DEF LinkPlaces
  <2>3. LinkTypeOK'
    <3>1. /\ secret' \in Number /\ store' \in Number /\ issued' \in Number
          /\ conn' \in [Conn -> ConnState] /\ loops' \subseteq Loop /\ link' \in Conn \cup {0}
          /\ operator' \in [pc : {"idle", "look", "record", "commit", "persist"}, of : Conn \cup {0}]
      BY <2>1, <2>2 DEF OperatorShape
    <3> QED BY <2>0, <3>1 DEF LinkTypeOK, LinkPlaces, LinkFlags, Number
  <2> QED BY <2>1, <2>2, <2>3 DEF LinkWithin, OperatorShape
<1> QED BY <1>1, <1>2

\* The numbers, the connections and the bounds keep their types, whatever registers late or
\* crosses: no more secrets are made than connections, approvals and rotations may make.
THEOREM LinkTypes == LinkSpec => []LinkTypeOK
<1>1. LinkWithin => LinkTypeOK
  BY DEF LinkWithin
<1> QED BY <1>1, LinkWithinInit, LinkWithinStep, PTL DEF LinkSpec

---------------------------------------------------------------------------
(* Revisions: what a gateway promotes has passed a dry run and conflicts with nothing else *)
(* it promoted, for any revisions.                                                     *)

LEMMA PipelineTypeInit == PipelineInit => PipelineTypeOK
BY RevAssumption DEF PipelineInit, PipelineTypeOK, Status, Result

\* What a step of a handler does to the handlers: it ends, or goes on to a stage that is
\* one of a promotion only if it was one.
Continues(c, pc) ==
  \E d \in Call : /\ Moves(c, d) /\ d.rev = c.rev /\ d.pc = pc
                  /\ pc \in Promoting => c.pc \in Promoting

\* The handlers of a step that starts none.
LEMMA HandlersKept ==
  ASSUME PipelineTypeOK, NEW c \in calls,
         Ends(c) \/ \E pc : Continues(c, pc)
  PROVE  /\ calls' \subseteq Call
         /\ \A a, b \in calls' : {a.pc, b.pc} \subseteq Promoting => a = b
<1>1. /\ calls \subseteq Call
      /\ \A a, b \in calls : {a.pc, b.pc} \subseteq Promoting => a = b
  BY DEF PipelineTypeOK
<1>2. CASE Ends(c)
  BY <1>1, <1>2 DEF Ends
<1>3. ASSUME NEW pc, Continues(c, pc)
      PROVE  /\ calls' \subseteq Call
             /\ \A a, b \in calls' : {a.pc, b.pc} \subseteq Promoting => a = b
  <2>1. PICK d \in Call : Moves(c, d) /\ d.pc = pc /\ (pc \in Promoting => c.pc \in Promoting)
    BY <1>3 DEF Continues
  <2>2. calls' = (calls \ {c}) \cup {d}
    BY <2>1 DEF Moves
  <2>3. \A a \in calls \ {c} : ~(a.pc \in Promoting /\ c.pc \in Promoting)
    BY <1>1
  <2> QED BY <1>1, <2>1, <2>2, <2>3
<1> QED BY <1>2, <1>3

\* Each step of a handler, as one that ends it or continues it.
LEMMA StepContinues ==
  ASSUME PipelineTypeOK, NEW c \in calls, CallStep(c)
  PROVE  Ends(c) \/ \E pc : Continues(c, pc)
<1>1. c \in Call
  BY DEF PipelineTypeOK
<1>2. "none" \in Result /\ "ok" \in Result /\ "failed" \in Result
  BY DEF Result
<1>3. ASSUME NEW pc \in {"dry.check", "dry.write", "promote.check", "promote.demote",
                         "promote.prod", "promote.audit", "reject.write"},
             NEW s \in Result, pc \in Promoting => c.pc \in Promoting,
             Moves(c, [c EXCEPT !.pc = pc]) \/ Moves(c, [c EXCEPT !.pc = pc, !.seen = s])
      PROVE  \E q : Continues(c, q)
  <2> DEFINE d == [c EXCEPT !.pc = pc]
             e == [c EXCEPT !.pc = pc, !.seen = s]
  <2>1. d \in Call /\ d.rev = c.rev /\ d.pc = pc /\ e \in Call /\ e.rev = c.rev /\ e.pc = pc
    BY <1>1 DEF Call
  <2>2. Moves(c, d) \/ Moves(c, e)
    BY <1>3
  <2> HIDE DEF d, e
  <2>3. Continues(c, pc)
    BY <1>3, <2>1, <2>2 DEF Continues
  <2> QED BY <2>3
<1>4. CASE DryRunRead(c) \/ DryRunCheck(c) \/ DryRunWrite(c)
  BY <1>3, <1>4 DEF DryRunRead, DryRunCheck, DryRunWrite, Result, Promoting
<1>5. CASE PromoteRead(c) \/ PromoteDemote(c) \/ PromoteProd(c) \/ PromoteAudit(c)
  BY <1>3, <1>5 DEF PromoteRead, PromoteDemote, PromoteProd, PromoteAudit, Result, Promoting
<1>6. CASE PromoteCheck(c)
  BY <1>3, <1>6 DEF PromoteCheck, Result, Promoting
<1>7. CASE RejectRead(c) \/ RejectWrite(c)
  BY <1>3, <1>7 DEF RejectRead, RejectWrite, Result, Promoting
<1> QED BY <1>4, <1>5, <1>6, <1>7 DEF CallStep

LEMMA PipelineTypeStep ==
  ASSUME PipelineTypeOK, [PipelineNext]_pipelineVars
  PROVE  PipelineTypeOK'
<1> USE DEF PipelineTypeOK
<1>1. CASE UNCHANGED pipelineVars
  BY <1>1 DEF pipelineVars
<1>2. ASSUME NEW r \in Rev, CreateRevision(r) PROVE PipelineTypeOK'
  BY <1>2 DEF CreateRevision, WriteRevision, Status, Result
<1>3. ASSUME NEW r \in Rev, NEW pc \in {"dry.read", "promote.read", "reject.read"},
             StartCall(r, pc), pc = "promote.read" => \A c \in calls : c.pc \notin Promoting
      PROVE  PipelineTypeOK'
  <2> DEFINE d == [no |-> made + 1, rev |-> r, seen |-> "none", pc |-> pc]
  <2>1. made + 1 \in 1..MaxCalls /\ made' = made + 1
    BY <1>3, RevAssumption DEF StartCall
  <2>2. d \in Call
    BY <2>1 DEF Call, Result
  <2>3. d.pc = pc /\ calls' = calls \cup {d}
    BY <1>3 DEF StartCall
  <2> HIDE DEF d
  <2>4. calls' \subseteq Call
    BY <2>2, <2>3
  <2>5. \A a, b \in calls' : {a.pc, b.pc} \subseteq Promoting => a = b
    BY <1>3, <2>3 DEF Promoting
  <2>6. made' \in 0..MaxCalls
    BY <2>1, RevAssumption
  <2> QED BY <1>3, <2>4, <2>5, <2>6 DEF StartCall
<1>4. ASSUME NEW c \in calls, CallStep(c) PROVE PipelineTypeOK'
  <2>1. /\ calls' \subseteq Call
        /\ \A a, b \in calls' : {a.pc, b.pc} \subseteq Promoting => a = b
    BY <1>4, HandlersKept, StepContinues
  <2>2. c.rev \in Rev /\ c.seen \in Result
    BY DEF Call
  <2>3. /\ status' \in [Rev -> Status] /\ dryRun' \in [Rev -> Result]
        /\ made' = made /\ passed' \subseteq Rev
    BY <1>4, <2>2 DEF CallStep, DryRunRead, DryRunCheck, DryRunWrite, PromoteRead, PromoteCheck,
       PromoteDemote, PromoteProd, PromoteAudit, RejectRead, RejectWrite, WriteRevision,
       Status, Result
  <2>4. \/ prod' = prod
        \/ prod' = [prod EXCEPT ![ProxyOf[c.rev]] = c.rev]
    BY <1>4 DEF CallStep, DryRunRead, DryRunCheck, DryRunWrite, PromoteRead, PromoteCheck,
       PromoteDemote, PromoteProd, PromoteAudit, RejectRead, RejectWrite
  <2>5. /\ prod' \in [Proxy -> Rev \cup {NoRev}]
        /\ \A p \in Proxy : prod'[p] # NoRev => ProxyOf[prod'[p]] = p
    BY <2>2, <2>4, RevAssumption
  <2> QED BY <2>1, <2>3, <2>5
<1>5. ASSUME NEW p \in Proxy, DeleteProd(p) PROVE PipelineTypeOK'
  <2>1. /\ prod' \in [Proxy -> Rev \cup {NoRev}]
        /\ \A q \in Proxy : prod'[q] # NoRev => ProxyOf[prod'[q]] = q
    BY <1>5 DEF DeleteProd
  <2>2. made' \in 0..MaxCalls
    BY <1>5, RevAssumption DEF DeleteProd
  <2> QED BY <1>5, <2>1, <2>2 DEF DeleteProd
<1>6. ASSUME NEW r \in Adopted, Adopt(r) PROVE PipelineTypeOK'
  <2>1. /\ prod' \in [Proxy -> Rev \cup {NoRev}]
        /\ \A q \in Proxy : prod'[q] # NoRev => ProxyOf[prod'[q]] = q
    BY <1>6, RevAssumption DEF Adopt
  <2>2. made' \in 0..MaxCalls
    BY <1>6, RevAssumption DEF Adopt
  <2> QED BY <1>6, <2>1, <2>2 DEF Adopt
<1> QED BY <1>1, <1>2, <1>3, <1>4, <1>5, <1>6 DEF PipelineNext, StartPromote

\* The types hold in every reachable state, and never two promotions are under way.
THEOREM PipelineTypes == PipelineSpec => []PipelineTypeOK
<1>1. PipelineTypeOK /\ [PipelineNext]_pipelineVars => PipelineTypeOK'
  BY PipelineTypeStep
<1> QED BY <1>1, PipelineTypeInit, PTL DEF PipelineSpec

---------------------------------------------------------------------------
(* Production *)

LEMMA PipelineInvInit == PipelineInit => PipelineInv
<1> SUFFICES ASSUME PipelineInit PROVE PipelineInv
  OBVIOUS
<1>1. Promoted = {} /\ calls = {} /\ \A r \in Rev : status[r] = "none"
  BY DEF PipelineInit, Promoted
<1> QED BY <1>1, PipelineTypeInit, RevAssumption
        DEF PipelineInv, NoConflict, OnlyValidated, LocalRevisions, ValidatedPassed, CheckedStill

\* No revision of this gateway comes into production, and no handler is new or about to
\* write one: the files of production may only go or be replaced by adopted ones.
LEMMA ProductionKept ==
  ASSUME PipelineTypeOK, NoConflict, OnlyValidated, CheckedStill, passed \subseteq passed',
         \A p \in Proxy : prod'[p] \in {prod[p], NoRev} \cup Adopted,
         \A c \in calls' : c.pc = "promote.prod" => c \in calls
  PROVE  NoConflict' /\ OnlyValidated' /\ CheckedStill'
<1>1. \A p \in Promoted' : p \in Promoted /\ prod'[p] = prod[p]
  BY DEF Promoted
<1>2. NoConflict'
  BY <1>1 DEF NoConflict
<1>3. OnlyValidated'
  BY <1>1 DEF OnlyValidated
<1>4. CheckedStill'
  BY <1>1 DEF CheckedStill
<1> QED BY <1>2, <1>3, <1>4

\* A step of a handler: the others are as they were, and this one has moved on or ended.
LEMMA HandlersAfter ==
  ASSUME PipelineTypeOK, NEW c \in calls, NEW pc,
         \/ Ends(c)
         \/ Moves(c, [c EXCEPT !.pc = pc])
         \/ \E s \in Result : Moves(c, [c EXCEPT !.pc = pc, !.seen = s])
  PROVE  \A d \in calls' : d \in calls \/ (d.rev = c.rev /\ d.pc = pc)
<1>1. c \in Call
  BY DEF PipelineTypeOK
<1>2. ASSUME NEW s \in Result
      PROVE  /\ [c EXCEPT !.pc = pc].rev = c.rev /\ [c EXCEPT !.pc = pc].pc = pc
             /\ [c EXCEPT !.pc = pc, !.seen = s].rev = c.rev
             /\ [c EXCEPT !.pc = pc, !.seen = s].pc = pc
  BY <1>1 DEF Call
<1>3. "none" \in Result
  BY DEF Result
<1>4. CASE Ends(c)
  BY <1>4 DEF Ends
<1>5. CASE Moves(c, [c EXCEPT !.pc = pc])
  BY <1>2, <1>3, <1>5 DEF Moves
<1>6. CASE \E s \in Result : Moves(c, [c EXCEPT !.pc = pc, !.seen = s])
  BY <1>2, <1>6 DEF Moves
<1> QED BY <1>4, <1>5, <1>6

\* The steps of a handler keep the invariant.
LEMMA CallStepInv ==
  ASSUME PipelineInv, PipelineTypeOK', NEW c \in calls, CallStep(c)
  PROVE  PipelineInv'
<1> USE DEF PipelineInv
<1>1. c \in Call /\ c.rev \in Rev /\ c.seen \in Result /\ c.rev \notin Adopted
  BY DEF PipelineTypeOK, Call, LocalRevisions
<1>2. ASSUME NEW pc, \A d \in calls' : d \in calls \/ (d.rev = c.rev /\ d.pc = pc),
             pc \in {"promote.check", "promote.prod"} => c.rev \in passed,
             passed \subseteq passed',
             \A r \in Rev \ {c.rev} : status'[r] = status[r],
             status'[c.rev] \in {status[c.rev], "pending", "production", "rejected"}
               \/ (status'[c.rev] = "validated" /\ c.rev \in passed')
      PROVE  LocalRevisions' /\ ValidatedPassed'
  <2>1. \A r \in Adopted : status'[r] = status[r]
    BY <1>1, <1>2, RevAssumption
  <2>2. LocalRevisions'
    BY <1>1, <1>2, <2>1 DEF LocalRevisions
  <2>3. \A r \in Rev : status'[r] = "validated" => r \in passed'
    BY <1>1, <1>2 DEF ValidatedPassed
  <2>4. ValidatedPassed'
    BY <1>2, <2>3 DEF ValidatedPassed
  <2> QED BY <2>2, <2>4
<1>3. ASSUME NEW pc, \A d \in calls' : d \in calls \/ (d.rev = c.rev /\ d.pc = pc),
             pc # "promote.prod", UNCHANGED prod, passed \subseteq passed'
      PROVE  NoConflict' /\ OnlyValidated' /\ CheckedStill'
  BY <1>3, ProductionKept
<1>4. CASE DryRunRead(c)
  <2>1. \A d \in calls' : d \in calls \/ (d.rev = c.rev /\ d.pc = "dry.check")
    BY <1>4, HandlersAfter DEF DryRunRead
  <2> QED BY <1>2, <1>3, <1>4, <2>1 DEF DryRunRead
<1>5. CASE DryRunCheck(c)
  <2>1. \A d \in calls' : d \in calls \/ (d.rev = c.rev /\ d.pc = "dry.write")
    BY <1>5, HandlersAfter DEF DryRunCheck, Result
  <2> QED BY <1>2, <1>3, <1>5, <2>1 DEF DryRunCheck
<1>6. CASE DryRunWrite(c)
  <2>1. \A d \in calls' : d \in calls \/ (d.rev = c.rev /\ d.pc = "dry.read")
    BY <1>6 DEF DryRunWrite, Ends
  <2>2. /\ \A r \in Rev \ {c.rev} : status'[r] = status[r]
        /\ status'[c.rev] = "pending" \/ (status'[c.rev] = "validated" /\ c.rev \in passed')
        /\ UNCHANGED prod /\ passed \subseteq passed'
    BY <1>1, <1>6 DEF DryRunWrite, WriteRevision, PipelineTypeOK
  <2> QED BY <1>2, <1>3, <2>1, <2>2
<1>7. CASE PromoteRead(c)
  <2>1. CASE Promotable(c.rev)
    <3>1. \A d \in calls' : d \in calls \/ (d.rev = c.rev /\ d.pc = "promote.check")
      BY <1>7, <2>1, HandlersAfter DEF PromoteRead
    <3>2. c.rev \in passed
      BY <1>1, <2>1 DEF Promotable, ValidatedPassed
    <3> QED BY <1>2, <1>3, <1>7, <3>1, <3>2 DEF PromoteRead
  <2>2. CASE ~Promotable(c.rev)
    <3>1. \A d \in calls' : d \in calls \/ (d.rev = c.rev /\ d.pc = "dry.read")
      BY <1>7, <2>2 DEF PromoteRead, Ends
    <3> QED BY <1>2, <1>3, <1>7, <3>1 DEF PromoteRead
  <2> QED BY <2>1, <2>2
<1>8. CASE PromoteCheck(c)
  <2>1. c.rev \in passed /\ UNCHANGED <<status, prod, passed>>
    BY <1>8 DEF PromoteCheck, ValidatedPassed
  <2>2. CASE c.rev \in Sound /\ ~Conflicts(c.rev)
    <3>1. \A d \in calls' : d \in calls \/ (d.rev = c.rev /\ d.pc = "promote.prod")
      BY <1>8, <2>2, HandlersAfter DEF PromoteCheck
    <3>2. LocalRevisions' /\ ValidatedPassed'
      BY <1>2, <2>1, <3>1
    <3>3. Promoted' = Promoted
      BY <2>1 DEF Promoted
    <3>4. NoConflict' /\ OnlyValidated'
      BY <2>1, <3>3 DEF NoConflict, OnlyValidated
    <3>5. \A p \in Promoted \ {ProxyOf[c.rev]} : Claims[prod[p]] \cap Claims[c.rev] = {}
      BY <2>2 DEF Conflicts, Promoted
    <3>6. CheckedStill'
      BY <2>1, <3>1, <3>3, <3>5 DEF CheckedStill
    <3> QED BY <3>2, <3>4, <3>6
  <2>3. CASE ~(c.rev \in Sound /\ ~Conflicts(c.rev))
    <3>1. \A d \in calls' : d \in calls \/ (d.rev = c.rev /\ d.pc = "promote.demote")
      BY <1>8, <2>3, HandlersAfter DEF PromoteCheck
    <3> QED BY <1>2, <1>3, <2>1, <3>1
  <2> QED BY <2>2, <2>3
<1>9. CASE PromoteDemote(c) \/ PromoteAudit(c) \/ RejectWrite(c)
  <2>1. \A d \in calls' : d \in calls \/ (d.rev = c.rev /\ d.pc = "dry.read")
    BY <1>9 DEF PromoteDemote, PromoteAudit, RejectWrite, Ends
  <2>2. /\ \A r \in Rev \ {c.rev} : status'[r] = status[r]
        /\ status'[c.rev] \in {"pending", "production", "rejected"}
        /\ UNCHANGED prod /\ passed \subseteq passed'
    BY <1>1, <1>9
       DEF PromoteDemote, PromoteAudit, RejectWrite, WriteRevision, PipelineTypeOK
  <2> QED BY <1>2, <1>3, <2>1, <2>2
<1>10. CASE PromoteProd(c)
  <2> DEFINE q == ProxyOf[c.rev]
  <2>1. q \in Proxy /\ c.rev \in passed
    BY <1>1, <1>10, RevAssumption DEF PromoteProd, ValidatedPassed
  <2>2. \A d \in calls' : d \in calls \/ (d.rev = c.rev /\ d.pc = "promote.audit")
    BY <1>10, HandlersAfter DEF PromoteProd
  <2>3. LocalRevisions' /\ ValidatedPassed'
    BY <1>2, <1>10, <2>2 DEF PromoteProd
  <2>4. /\ prod'[q] = c.rev /\ UNCHANGED passed
        /\ \A p \in Proxy \ {q} : prod'[p] = prod[p]
    BY <1>10, <2>1 DEF PromoteProd, PipelineTypeOK
  <2>5. \A p \in Promoted' : p \in Promoted \/ p = q
    BY <2>4 DEF Promoted
  <2>6. \A p \in Promoted \ {q} : Claims[prod[p]] \cap Claims[c.rev] = {}
    BY <1>10 DEF PromoteProd, CheckedStill
  <2>7. \A d \in calls' : d.pc # "promote.prod"
    <3>1. \A d \in calls \ {c} : d.pc # "promote.prod"
      BY <1>10 DEF PromoteProd, PipelineTypeOK, Promoting
    <3>2. \A d \in calls' : d \in calls \ {c} \/ d.pc = "promote.audit"
      BY <1>1, <1>10 DEF PromoteProd, Moves, Call
    <3> QED BY <3>1, <3>2
  <2>8. CheckedStill'
    BY <2>7 DEF CheckedStill
  <2>9. OnlyValidated'
    BY <2>1, <2>4, <2>5 DEF OnlyValidated, Promoted
  <2>10. NoConflict'
    <3> SUFFICES ASSUME NEW a \in Promoted', NEW b \in Promoted', a # b
                 PROVE  Claims[prod'[a]] \cap Claims[prod'[b]] = {}
      BY DEF NoConflict
    <3>1. a \in Proxy /\ b \in Proxy
      BY DEF Promoted
    <3>2. CASE a = q
      BY <2>4, <2>5, <2>6, <3>1, <3>2
    <3>3. CASE b = q
      BY <2>4, <2>5, <2>6, <3>1, <3>3
    <3>4. CASE a # q /\ b # q
      BY <2>4, <2>5, <3>1, <3>4 DEF NoConflict
    <3> QED BY <3>2, <3>3, <3>4
  <2> QED BY <2>3, <2>8, <2>9, <2>10
<1>11. CASE RejectRead(c)
  <2>1. \A d \in calls' : d \in calls \/ (d.rev = c.rev /\ d.pc = "reject.write")
    BY <1>11, HandlersAfter DEF RejectRead
  <2> QED BY <1>2, <1>3, <1>11, <2>1 DEF RejectRead
<1> QED BY <1>4, <1>5, <1>6, <1>7, <1>8, <1>9, <1>10, <1>11 DEF CallStep

\* The invariant of the pipeline holds in every reachable state.
THEOREM PipelineInvariant == PipelineSpec => []PipelineInv
<1>1. PipelineInv /\ [PipelineNext]_pipelineVars => PipelineInv'
  <2> SUFFICES ASSUME PipelineInv, [PipelineNext]_pipelineVars PROVE PipelineInv'
    OBVIOUS
  <2> USE DEF PipelineInv
  <2>1. PipelineTypeOK'
    BY PipelineTypeStep
  <2>2. CASE UNCHANGED pipelineVars
    BY <2>1, <2>2 DEF pipelineVars, NoConflict, OnlyValidated, Promoted, LocalRevisions,
       ValidatedPassed, CheckedStill
  <2>3. ASSUME NEW r \in Rev, CreateRevision(r) PROVE PipelineInv'
    <3>1. /\ UNCHANGED <<prod, calls, passed>> /\ r \notin Adopted
          /\ status' = [status EXCEPT ![r] = "pending"]
      BY <2>3 DEF CreateRevision, WriteRevision
    <3>2. NoConflict' /\ OnlyValidated' /\ CheckedStill'
      BY <3>1, ProductionKept
    <3>3. LocalRevisions'
      BY <3>1, RevAssumption DEF LocalRevisions, PipelineTypeOK
    <3>4. ValidatedPassed'
      BY <3>1 DEF ValidatedPassed, PipelineTypeOK
    <3> QED BY <2>1, <3>2, <3>3, <3>4
  <2>4. ASSUME NEW r \in Rev, NEW pc \in {"dry.read", "promote.read", "reject.read"},
               StartCall(r, pc)
        PROVE  PipelineInv'
    <3>1. /\ UNCHANGED <<prod, status, passed>> /\ r \notin Adopted
          /\ \A d \in calls' : d \in calls \/ (d.rev = r /\ d.pc = pc)
      BY <2>4 DEF StartCall, LocalRevisions
    <3>2. NoConflict' /\ OnlyValidated' /\ CheckedStill'
      BY <3>1, ProductionKept
    <3> QED BY <2>1, <3>1, <3>2 DEF LocalRevisions, ValidatedPassed
  <2>5. CASE \E c \in calls : CallStep(c)
    BY <2>1, <2>5, CallStepInv
  <2>6. CASE (\E p \in Proxy : DeleteProd(p)) \/ (\E r \in Adopted : Adopt(r))
    <3>1. /\ UNCHANGED <<status, calls, passed>>
          /\ \A p \in Proxy : prod'[p] \in {prod[p], NoRev} \cup Adopted
      BY <2>6 DEF DeleteProd, Adopt, PipelineTypeOK
    <3>2. NoConflict' /\ OnlyValidated' /\ CheckedStill'
      BY <3>1, ProductionKept
    <3> QED BY <2>1, <3>1, <3>2 DEF LocalRevisions, ValidatedPassed
  <2> QED BY <2>2, <2>3, <2>4, <2>5, <2>6 DEF PipelineNext, StartPromote
<1> QED BY <1>1, PipelineInvInit, PTL DEF PipelineSpec

\* No two proxies that this gateway promoted claim one host, alias or port, however dry
\* runs, promotions, rejections, deletions and merges interleave.
THEOREM PromotedDisjoint == PipelineSpec => []NoConflict
<1>1. PipelineInv => NoConflict
  BY DEF PipelineInv
<1> QED BY <1>1, PipelineInvariant, PTL

\* What this gateway promoted passed a dry run of its own, although every handler writes
\* back a file it read before.
THEOREM PromotedValidated == PipelineSpec => []OnlyValidated
<1>1. PipelineInv => OnlyValidated
  BY DEF PipelineInv
<1> QED BY <1>1, PipelineInvariant, PTL

---------------------------------------------------------------------------
(* The five parts side by side *)

\* A behaviour that moves one part of the five keeps the types of all.
THEOREM ComponentsTypes == ComponentsSpec => []ComponentsTypeOK
<1> DEFINE Parts == TableParts /\ LinkWithin /\ PipelineTypeOK /\ DeployInv /\ ExecInv
<1>1. ComponentsInit => Parts
  BY TablePartsInit, LinkWithinInit, PipelineTypeInit, DeployInvInit, ExecInvInit DEF ComponentsInit
<1>2. Parts /\ [ComponentsNext]_componentVars => Parts'
  <2> SUFFICES ASSUME Parts, [ComponentsNext]_componentVars PROVE Parts'
    OBVIOUS
  <2>1. /\ [TableNext]_tableVars /\ [LinkNext]_linkVars /\ [PipelineNext]_pipelineVars
        /\ [DeployNext]_deployVars /\ [ExecNext]_execVars
    BY DEF ComponentsNext, componentVars
  <2> QED BY <2>1, TablePartsStep, LinkWithinStep, PipelineTypeStep, DeployInvStep, ExecInvStep
<1>3. Parts => ComponentsTypeOK
  BY TableInvParts DEF TableInv, LinkWithin, DeployInv, ExecInv, ComponentsTypeOK
<1> QED BY <1>1, <1>2, <1>3, PTL DEF ComponentsSpec

==================================================================================
