--------------------------- MODULE ProxyReplica_proofs ---------------------------
(***************************************************************************)
(* Proofs about ProxyReplica for every group, every number of edits, pulls  *)
(* and restarts.                                                            *)
(***************************************************************************)
EXTENDS ProxyReplica, TLAPS

\* The steps of a pull and of a merge that touch nothing but the goroutine's task.
QuietStep(m) ==
  \/ StartRound(m) \/ (\E p \in Member : StartPull(m, p)) \/ SendRequest(m)
  \/ ServeList(m) \/ ServeTombs(m) \/ FailPull(m) \/ ListLocal(m) \/ SnapTombs(m)

---------------------------------------------------------------------------
(* Helpers *)

\* The later of two stamps is one of them and no earlier than either.
LEMMA LaterType ==
  ASSUME NEW a \in Stamp, NEW b \in Stamp
  PROVE  Later(a, b) \in Stamp /\ Later(a, b) >= a /\ Later(a, b) >= b
BY DEF Later, Stamp

\* A version, if it is routed at all, is routed as it is (ApplyFileProxy).
LEMMA LiveType ==
  ASSUME NEW v \in Stamp, clock \in Nat
  PROVE  Live(v) \in Stamp
BY DEF Live, Stamp

\* A finished pull leaves a well-formed idle task.
LEMMA IdleType ==
  ASSUME NEW m \in Member, NEW todo \in SUBSET Member, clock \in Nat
  PROVE  Idle(m, todo) \in Task
BY DEF Idle, Task, Doc, NoDoc, Stamp, Pulling

\* What the merge does after the tombstones is a well-formed task again.
LEMMA SettledType ==
  ASSUME NEW m \in Member, NEW t \in Task, clock \in Nat
  PROVE  /\ Settled(m, AfterTombstones(t)) \in Task
         /\ Settled(m, AfterTombstones(t)).todo = t.todo
<1>1. AfterTombstones(t) \in Task /\ AfterTombstones(t).todo = t.todo
  BY DEF AfterTombstones, Task, Pulling, Merging
<1>2. Idle(m, t.todo) \in Task /\ Idle(m, t.todo).todo = t.todo
  BY IdleType DEF Task, Idle
<1> QED BY <1>1, <1>2 DEF Settled

---------------------------------------------------------------------------
(* Type correctness *)

\* Changing only the task of m, to a well-formed one that does not name m as a
\* peer to visit, keeps the types (the steps of syncProxiesFromPeer).
LEMMA TaskType ==
  ASSUME TypeOK, NEW m \in Member, NEW t \in Task, m \notin t.todo,
         Becomes(m, t)
  PROVE  sync' \in [Member -> Task] /\ \A n \in Member : n \notin sync'[n].todo
BY DEF TypeOK, Becomes

\* The initial state is well typed (a new group: no proxy, no deletion).
LEMMA InitTypeOK == Init => TypeOK
<1> SUFFICES ASSUME Init PROVE TypeOK OBVIOUS
<1>1. clock = 0 /\ 0 \in Stamp BY DEF Init, Stamp
<1>2. \A m \in Member : Idle(m, {}) \in Task /\ Idle(m, {}).todo = {}
  BY <1>1, IdleType DEF Idle
<1>3. sync \in [Member -> Task] /\ \A m \in Member : m \notin sync[m].todo
  BY <1>2 DEF Init
<1> QED BY <1>1, <1>3, BoundAssumption DEF Init, TypeOK

\* The steps of a pull that only move the goroutine keep the types.
LEMMA QuietTypeOK ==
  ASSUME TypeOK, NEW m \in Member, QuietStep(m)
  PROVE  TypeOK'
<1>1. clock \in Nat /\ sync[m] \in Task /\ m \notin sync[m].todo
       /\ file[m] \in Stamp /\ tomb[m] \in Stamp
  BY BoundAssumption DEF TypeOK
<1>2. UNCHANGED <<clock, file, tomb, table, cache, calls, restarts, acked, cut>>
  BY DEF QuietStep, StartRound, StartPull, SendRequest, ServeList, ServeTombs, FailPull,
         ListLocal, SnapTombs
<1>3. SUFFICES sync' \in [Member -> Task] /\ \A n \in Member : n \notin sync'[n].todo
  BY <1>2 DEF TypeOK, Stamp, Call, Task, Doc
<1>4. SUFFICES \E t \in Task : m \notin t.todo /\ Becomes(m, t)
  BY TaskType
<1>5. Idle(m, sync[m].todo) \in Task /\ Idle(m, sync[m].todo).todo = sync[m].todo
  BY <1>1, IdleType DEF Task, Idle
<1>6. CASE StartRound(m)
  BY <1>1, <1>6 DEF StartRound, Task
<1>7. CASE \E p \in Member : StartPull(m, p)
  BY <1>1, <1>7 DEF StartPull, Task, Doc, Pulling
<1>8. CASE SendRequest(m)
  BY <1>1, <1>8 DEF SendRequest, Task, Doc, Pulling
<1>9. CASE ServeList(m)
  <2>1. file[sync[m].peer] \in Stamp BY <1>1 DEF TypeOK, Task
  <2> QED BY <1>1, <2>1, <1>9 DEF ServeList, Task, Doc, Pulling
<1>10. CASE ServeTombs(m)
  <2>1. tomb[sync[m].peer] \in Stamp BY <1>1 DEF TypeOK, Task
  <2>2. [sync[m] EXCEPT !.pc = "list", !.doc = [sync[m].doc EXCEPT !.tomb = tomb[sync[m].peer]]]
          \in Task
    BY <1>1, <2>1 DEF Task, Doc, Merging
  <2> QED BY <1>1, <1>5, <2>2, <1>10 DEF ServeTombs, Finish, Task
<1>11. CASE FailPull(m)
  BY <1>1, <1>5, <1>11 DEF FailPull, Finish
<1>12. CASE ListLocal(m)
  BY <1>1, <1>12 DEF ListLocal, Task, Merging
<1>13. CASE SnapTombs(m)
  <2> DEFINE t == [sync[m] EXCEPT !.tombs = tomb[m]]
  <2>1. t \in Task /\ t.todo = sync[m].todo BY <1>1 DEF Task
  <2>2. Settled(m, AfterTombstones(t)) \in Task
         /\ Settled(m, AfterTombstones(t)).todo = sync[m].todo
    BY <1>1, <2>1, SettledType
  <2>3. \A pc \in {"remove", "learn"} :
          [t EXCEPT !.pc = pc] \in Task /\ [t EXCEPT !.pc = pc].todo = sync[m].todo
    BY <2>1 DEF Task, Merging
  <2> HIDE DEF t
  <2> QED BY <1>1, <2>2, <2>3, <1>13 DEF SnapTombs, t
<1> QED BY <1>6, <1>7, <1>8, <1>9, <1>10, <1>11, <1>12, <1>13 DEF QuietStep

\* The steps of a merge that change the member's files, tombstones or table keep
\* the types (mergeProxyReplica, removeFileProxy).
LEMMA MergeTypeOK ==
  ASSUME TypeOK, NEW m \in Member,
         MergeRemove(m) \/ MergeRecord(m) \/ MergeUnroute(m) \/ MergeLearn(m)
           \/ MergeWrite(m) \/ MergeClear(m) \/ MergeApply(m)
  PROVE  TypeOK'
<1>1. clock \in Nat /\ sync[m] \in Task /\ m \notin sync[m].todo
       /\ file[m] \in Stamp /\ tomb[m] \in Stamp /\ 0 \in Stamp
       /\ sync[m].doc.file \in Stamp /\ sync[m].doc.tomb \in Stamp
  BY BoundAssumption DEF TypeOK, Task, Doc, Stamp
<1>2. UNCHANGED <<clock, cache, calls, restarts, acked, cut>>
  BY DEF MergeRemove, MergeRecord, MergeUnroute, MergeLearn, MergeWrite, MergeClear, MergeApply
<1>3. file' \in [Member -> Stamp]
  BY <1>1 DEF MergeRemove, MergeRecord, MergeUnroute, MergeLearn, MergeWrite, MergeClear,
              MergeApply, DeleteProdByID, WriteProd, TypeOK
<1>4. tomb' \in [Member -> Stamp]
  BY <1>1, LaterType DEF MergeRemove, MergeRecord, MergeUnroute, MergeLearn, MergeWrite, MergeClear,
              MergeApply, RecordTombstone, ClearTombstone, TypeOK
<1>5. table' \in [Member -> Stamp]
  BY <1>1, LiveType DEF MergeRemove, MergeRecord, MergeUnroute, MergeLearn, MergeWrite, MergeClear,
              MergeApply, DeleteRoute, ApplyFileProxy, TypeOK
<1>6. \E t \in Task : m \notin t.todo /\ Becomes(m, t)
  <2>1. \A pc \in {"record", "unroute", "clear", "apply"} :
          [sync[m] EXCEPT !.pc = pc] \in Task /\ [sync[m] EXCEPT !.pc = pc].todo = sync[m].todo
    BY <1>1 DEF Task, Merging
  <2>2. Idle(m, sync[m].todo) \in Task /\ Idle(m, sync[m].todo).todo = sync[m].todo
    BY <1>1, IdleType DEF Task, Idle
  <2> DEFINE u == [sync[m] EXCEPT !.local = 0, !.tombs = sync[m].doc.tomb]
             v == [sync[m] EXCEPT !.tombs = sync[m].doc.tomb]
  <2>3. u \in Task /\ v \in Task /\ u.todo = sync[m].todo /\ v.todo = sync[m].todo
    BY <1>1 DEF Task
  <2> HIDE DEF u, v
  <2>4. /\ Settled(m, AfterTombstones(u)) \in Task
        /\ Settled(m, AfterTombstones(u)).todo = sync[m].todo
        /\ Settled(m, AfterTombstones(v)) \in Task
        /\ Settled(m, AfterTombstones(v)).todo = sync[m].todo
    BY <1>1, <2>3, SettledType
  <2> QED BY <1>1, <2>1, <2>2, <2>4
       DEF MergeRemove, MergeRecord, MergeUnroute, MergeLearn, MergeWrite, MergeClear,
           MergeApply, Finish, u, v
<1>7. sync' \in [Member -> Task] /\ \A n \in Member : n \notin sync'[n].todo
  BY <1>6, TaskType
<1> QED BY <1>2, <1>3, <1>4, <1>5, <1>7 DEF TypeOK, Stamp, Call, Task, Doc

\* The steps of the API handlers keep the types (handlePromoteProxyRevision,
\* handleDeleteFileProxy).
LEMMA CallTypeOK ==
  ASSUME TypeOK, NEW c \in calls, CallStep(c)
  PROVE  TypeOK'
<1>1. clock \in Nat /\ c \in Call /\ c.member \in Member /\ c.at \in Stamp /\ 0 \in Stamp
  BY BoundAssumption DEF TypeOK, Call, Stamp
<1>2. UNCHANGED <<clock, cache, sync, restarts, cut>>
  BY DEF CallStep, PromoteWrite, PromoteApply, DeleteFile, DeleteRecord, DeleteUnroute
<1>3. file' \in [Member -> Stamp]
  BY <1>1 DEF CallStep, PromoteWrite, PromoteApply, DeleteFile, DeleteRecord, DeleteUnroute,
              WriteProd, DeleteProdByID, TypeOK
<1>4. tomb' \in [Member -> Stamp]
  BY <1>1, LaterType DEF CallStep, PromoteWrite, PromoteApply, DeleteFile, DeleteRecord,
              DeleteUnroute, RecordTombstone, TypeOK
<1>5. table' \in [Member -> Stamp]
  BY <1>1, LiveType DEF CallStep, PromoteWrite, PromoteApply, DeleteFile, DeleteRecord,
              DeleteUnroute, ApplyFileProxy, DeleteRoute, TypeOK
<1>6. acked' \in Stamp
  BY <1>1, LaterType DEF CallStep, PromoteWrite, PromoteApply, DeleteFile, DeleteRecord,
              DeleteUnroute, Answer, TypeOK
<1>7. calls' \subseteq Call
  <2>1. c.pc = "write" => [c EXCEPT !.pc = "apply"] \in Call
    BY <1>1 DEF Call
  <2>2. c.pc = "remove" => [c EXCEPT !.pc = "record"] \in Call
    BY <1>1 DEF Call
  <2>3. c.pc = "record" => [c EXCEPT !.pc = "unroute"] \in Call
    BY <1>1 DEF Call
  <2> QED
    BY <2>1, <2>2, <2>3 DEF CallStep, PromoteWrite, PromoteApply, DeleteFile, DeleteRecord,
              DeleteUnroute, Advance, Answer, TypeOK
<1> QED BY <1>2, <1>3, <1>4, <1>5, <1>6, <1>7 DEF TypeOK, Stamp, Call, Task, Doc

\* Starting an edit advances the clock and keeps every older stamp a stamp.
LEMMA StartTypeOK ==
  ASSUME TypeOK, NEW m \in Member, StartPromote(m) \/ StartDelete(m)
  PROVE  TypeOK'
<1>1. PICK kind, pc :
        /\ <<kind, pc>> \in {<<"promote", "write">>, <<"delete", "remove">>}
        /\ StartCall(m, kind, pc)
  BY DEF StartPromote, StartDelete
<1>2. clock \in Nat /\ clock' = clock + 1 /\ clock' \in 0..MaxClock
  BY <1>1, BoundAssumption DEF StartCall, TypeOK
<1>3. Stamp \subseteq Stamp' /\ clock + 1 \in Stamp'
  BY <1>2 DEF Stamp
<1>4. UNCHANGED <<file, tomb, table, cache, sync, restarts, acked, cut>>
  BY <1>1 DEF StartCall
<1>5. /\ file \in [Member -> Stamp'] /\ tomb \in [Member -> Stamp']
      /\ table \in [Member -> Stamp'] /\ cache \in [Member -> Stamp']
      /\ acked \in Stamp' /\ cut \subseteq Stamp'
  BY <1>3 DEF TypeOK
<1>6. Call \subseteq Call' BY <1>3 DEF Call
<1>7. [member |-> m, kind |-> kind, at |-> clock + 1, pc |-> pc] \in Call'
  BY <1>1, <1>3 DEF Call
<1>8. calls' \subseteq Call'
  BY <1>1, <1>6, <1>7 DEF StartCall, TypeOK
<1>9. Doc \subseteq Doc' BY <1>3 DEF Doc
<1>10. Task \subseteq Task' BY <1>3, <1>9 DEF Task
<1>11. sync \in [Member -> Task'] BY <1>10 DEF TypeOK
<1> QED BY <1>2, <1>4, <1>5, <1>8, <1>11 DEF TypeOK

\* A flush of the cached table and a restart keep the types.
LEMMA ProcessTypeOK ==
  ASSUME TypeOK, NEW m \in Member, SaveCacheNow(m) \/ Restart(m)
  PROVE  TypeOK'
<1>1. clock \in Nat /\ file[m] \in Stamp /\ cache[m] \in Stamp /\ table[m] \in Stamp
  BY BoundAssumption DEF TypeOK
<1>2. CASE SaveCacheNow(m)
  BY <1>1, <1>2 DEF SaveCacheNow, TypeOK, Stamp, Call, Task, Doc
<1>3. CASE Restart(m)
  <2>1. LoadTable(m) \in Stamp BY <1>1, LiveType DEF LoadTable
  <2>2. Idle(m, {}) \in Task /\ m \notin Idle(m, {}).todo
    BY <1>1, IdleType DEF Idle
  <2>3. sync' \in [Member -> Task] /\ \A n \in Member : n \notin sync'[n].todo
    BY <2>2, <1>3, TaskType DEF Restart
  <2>4. cut' \subseteq Stamp
    <3>1. \A c \in CallsOf(m) : c.at \in Stamp BY DEF CallsOf, TypeOK, Call
    <3> QED BY <3>1, <1>3 DEF Restart, TypeOK
  <2>5. restarts' \in 0..MaxRestarts
    BY <1>3, BoundAssumption DEF Restart, TypeOK
  <2>6. UNCHANGED <<clock, file, tomb, cache, acked>> /\ calls' \subseteq Call
    BY <1>3 DEF Restart, TypeOK
  <2>7. table' \in [Member -> Stamp]
    BY <1>3, <2>1 DEF Restart, TypeOK
  <2> QED BY <2>3, <2>4, <2>5, <2>6, <2>7 DEF TypeOK, Stamp, Call, Task, Doc
<1> QED BY <1>2, <1>3

\* Every step of the group keeps the types.
LEMMA NextTypeOK == TypeOK /\ [Next]_vars => TypeOK'
<1> SUFFICES ASSUME TypeOK, [Next]_vars PROVE TypeOK' OBVIOUS
<1>1. CASE \E m \in Member : StartPromote(m) \/ StartDelete(m)
  BY <1>1, StartTypeOK
<1>2. CASE \E c \in calls : CallStep(c)
  BY <1>2, CallTypeOK
<1>3. CASE \E m \in Member : SyncStep(m) \/ FailPull(m)
  BY <1>3, QuietTypeOK, MergeTypeOK DEF SyncStep, MergeStep, QuietStep
<1>4. CASE \E m \in Member : SaveCacheNow(m) \/ Restart(m)
  BY <1>4, ProcessTypeOK
<1>5. CASE UNCHANGED vars
  BY <1>5 DEF vars, TypeOK, Stamp, Call, Task, Doc
<1> QED BY <1>1, <1>2, <1>3, <1>4, <1>5 DEF Next

\* Every stamp a member keeps, routes, sends or is working on is one the clock has
\* given, whatever the overlap of edits, merges and restarts.
THEOREM TypeCorrect == Spec => []TypeOK
BY InitTypeOK, NextTypeOK, PTL DEF Spec

---------------------------------------------------------------------------
(* Edits and merges that exclude each other *)

\* The initial state satisfies the invariant: nobody edits, nobody merges.
LEMMA InitMergeInv == Init => MergeInv
BY DEF Init, MergeInv, Exclusive, CallOK, MergeOK, DeletedStaysDeleted, Idle, Pulling

\* What a step of the goroutine of m has to establish: the rest of the invariant
\* speaks of other members or of edits, none of which m is serving if it merges.
LEMMA SyncLocal ==
  ASSUME TypeOK, MergeInv, NEW m \in Member, NEW t, Becomes(m, t), calls' = calls,
         \A n \in Member \ {m} : file'[n] = file[n] /\ tomb'[n] = tomb[n],
         \A c \in calls : c.member = m =>
            t.pc \in Pulling \cup {"list"} /\ file'[m] = file[m] /\ tomb'[m] = tomb[m],
         MergeOK(m)',
         file'[m] # 0 => file'[m] > tomb'[m]
  PROVE  MergeInv'
<1>1. sync'[m] = t /\ \A n \in Member \ {m} : sync'[n] = sync[n]
  BY DEF Becomes, TypeOK
<1>2. \A c \in calls : c.member \in Member
  BY DEF TypeOK, Call
<1>3. Exclusive'
  BY <1>1, <1>2 DEF MergeInv, Exclusive, Pulling
<1>4. \A c \in calls' : CallOK(c)'
  BY <1>2 DEF MergeInv, CallOK
<1>5. \A n \in Member : MergeOK(n)'
  <2> TAKE n \in Member
  <2>1. CASE n = m BY <2>1
  <2>2. CASE n # m BY <1>1, <2>2 DEF MergeInv, MergeOK
  <2> QED BY <2>1, <2>2
<1>6. DeletedStaysDeleted'
  BY DEF MergeInv, DeletedStaysDeleted
<1> QED BY <1>3, <1>4, <1>5, <1>6 DEF MergeInv

\* A member that is past the listing of its files serves no edit.
LEMMA MergingAlone ==
  ASSUME MergeInv, NEW m \in Member, sync[m].pc \in Merging \ {"list"}
  PROVE  \A c \in calls : c.member # m
BY DEF MergeInv, Exclusive, Merging, Pulling

\* After the tombstones the merge writes only what is later than both maps, so if
\* they are accurate the write is justified (the second loop of mergeProxyReplica).
LEMMA SettledOK ==
  ASSUME NEW m \in Member, NEW t \in Task, clock \in Nat,
         NEW f \in Stamp, NEW d \in Stamp, t.local = f, t.tombs = d
  PROVE  LET u == Settled(m, AfterTombstones(t)) IN
         /\ u.pc \in {"idle", "write"}
         /\ u.pc = "write" => u.doc.file > f /\ u.doc.file > d
<1>1. CASE Adopts(t)
  BY <1>1 DEF Settled, AfterTombstones, Adopts, Task
<1>2. CASE ~Adopts(t)
  BY <1>2 DEF Settled, AfterTombstones, Idle, Task
<1> QED BY <1>1, <1>2

\* The steps of a pull that only move the goroutine keep the invariant; the listing
\* of the files does because no edit is under way.
LEMMA QuietMergeInv ==
  ASSUME TypeOK, MergeInv, ~Concurrent, NEW m \in Member, QuietStep(m)
  PROVE  MergeInv'
<1>1. clock \in Nat /\ sync[m] \in Task /\ file[m] \in Stamp /\ tomb[m] \in Stamp
  BY BoundAssumption DEF TypeOK
<1>2. UNCHANGED <<clock, file, tomb, calls>>
  BY DEF QuietStep, StartRound, StartPull, SendRequest, ServeList, ServeTombs, FailPull,
         ListLocal, SnapTombs
<1>3. file[m] # 0 => file[m] > tomb[m]
  BY DEF MergeInv, DeletedStaysDeleted
<1>4. \A t : Becomes(m, t) => sync'[m] = t
  BY DEF Becomes, TypeOK
<1>5. ASSUME NEW t, Becomes(m, t), t.pc \in Pulling \cup {"list"}
      PROVE  MergeInv'
  <2>1. MergeOK(m)'
    BY <1>4, <1>5 DEF MergeOK, Pulling
  <2> QED BY <1>2, <1>3, <1>5, <2>1, SyncLocal
<1>6. CASE StartRound(m)
  <2>1. [sync[m] EXCEPT !.todo = Member \ {m}].pc = "idle" BY <1>1, <1>6 DEF StartRound, Task
  <2> QED BY <1>5, <1>6, <2>1 DEF StartRound, Pulling
<1>7. CASE \E p \in Member : StartPull(m, p)
  <2>1. PICK p \in Member : StartPull(m, p) BY <1>7
  <2>2. [sync[m] EXCEPT !.pc = "digest", !.peer = p, !.todo = @ \ {p},
                        !.have.file = file[m]].pc = "digest"
    BY <1>1 DEF Task, Doc
  <2> QED BY <1>5, <2>1, <2>2 DEF StartPull, Pulling
<1>8. CASE SendRequest(m)
  <2>1. [sync[m] EXCEPT !.pc = "request", !.have.tomb = tomb[m]].pc = "request"
    BY <1>1 DEF Task, Doc
  <2> QED BY <1>5, <1>8, <2>1 DEF SendRequest, Pulling
<1>9. CASE ServeList(m)
  <2>1. [sync[m] EXCEPT !.pc = "serve", !.doc.file = file[sync[m].peer]].pc = "serve"
    BY <1>1 DEF Task, Doc
  <2> QED BY <1>5, <1>9, <2>1 DEF ServeList, Pulling
<1>10. Idle(m, sync[m].todo).pc \in Pulling
  BY DEF Idle, Pulling
<1>11. CASE ServeTombs(m)
  <2>1. \A d : [sync[m] EXCEPT !.pc = "list", !.doc = d].pc = "list"
    BY <1>1 DEF Task
  <2> QED BY <1>5, <1>10, <1>11, <2>1 DEF ServeTombs, Finish
<1>12. CASE FailPull(m)
  BY <1>5, <1>10, <1>12 DEF FailPull, Finish
<1>13. CASE ListLocal(m)
  <2> DEFINE t == [sync[m] EXCEPT !.pc = "snapshot", !.local = file[m]]
  <2>1. Becomes(m, t) BY <1>13 DEF ListLocal
  <2>2. t.pc = "snapshot" /\ t.local = file[m] BY <1>1 DEF Task
  <2>3. \A c \in calls : c.member # m BY <1>13 DEF ListLocal, MayMerge, CallsOf
  <2> HIDE DEF t
  <2>4. MergeOK(m)' BY <1>2, <1>4, <2>1, <2>2 DEF MergeOK
  <2> QED BY <1>2, <1>3, <2>1, <2>3, <2>4, SyncLocal
<1>14. CASE SnapTombs(m)
  <2> DEFINE t == [sync[m] EXCEPT !.tombs = tomb[m]]
             u == Settled(m, AfterTombstones(t))
  <2>1. t \in Task /\ t.tombs = tomb[m] /\ t.local = file[m] /\ t.doc = sync[m].doc
    BY <1>1, <1>14 DEF Task, SnapTombs, MergeInv, MergeOK
  <2>2. t.doc.tomb \in Stamp BY <2>1 DEF Task, Doc
  <2>3. u.pc \in {"idle", "write"} /\ (u.pc = "write" => u.doc.file > file[m] /\ u.doc.file > tomb[m])
    BY <1>1, <2>1, SettledOK
  <2>4. \A c \in calls : c.member # m
    BY <1>14, MergingAlone DEF SnapTombs, Merging
  <2>5. CASE Removes(t)
    <3> DEFINE v == [t EXCEPT !.pc = "remove"]
    <3>1. Becomes(m, v) BY <1>14, <2>5 DEF SnapTombs
    <3>2. v.pc = "remove" /\ v.doc.tomb > tomb[m]
      <4>1. v.pc = "remove" /\ v.doc.tomb = t.doc.tomb BY <2>1 DEF Task
      <4>2. t.doc.tomb > file[m] /\ file[m] # 0 BY <2>1, <2>5 DEF Removes
      <4>3. file[m] > tomb[m] BY <4>2, <1>3
      <4> QED BY <1>1, <2>2, <4>1, <4>2, <4>3 DEF Stamp
    <3> HIDE DEF v
    <3>3. MergeOK(m)' BY <1>2, <1>4, <3>1, <3>2 DEF MergeOK
    <3> QED BY <1>2, <1>3, <2>4, <3>1, <3>3, SyncLocal
  <2>6. CASE ~Removes(t) /\ Learns(t)
    <3> DEFINE v == [t EXCEPT !.pc = "learn"]
    <3>1. Becomes(m, v) BY <1>14, <2>6 DEF SnapTombs
    <3>2. v.pc = "learn" /\ v.doc.tomb > tomb[m] /\ file[m] = 0
      BY <2>1, <2>6 DEF Learns, Task
    <3> HIDE DEF v
    <3>3. MergeOK(m)' BY <1>2, <1>4, <3>1, <3>2 DEF MergeOK
    <3> QED BY <1>2, <1>3, <2>4, <3>1, <3>3, SyncLocal
  <2>7. CASE ~Removes(t) /\ ~Learns(t)
    <3>1. Becomes(m, u) BY <1>14, <2>7 DEF SnapTombs
    <3> HIDE DEF u
    <3>2. MergeOK(m)' BY <1>2, <1>4, <2>3, <3>1 DEF MergeOK
    <3> QED BY <1>2, <1>3, <2>4, <3>1, <3>2, SyncLocal
  <2> QED BY <2>5, <2>6, <2>7
<1> QED BY <1>6, <1>7, <1>8, <1>9, <1>11, <1>12, <1>13, <1>14 DEF QuietStep

\* The steps of a merge that change the member's files, tombstones or table keep
\* the invariant (mergeProxyReplica, removeFileProxy).
LEMMA MergeMergeInv ==
  ASSUME TypeOK, MergeInv, NEW m \in Member,
         MergeRemove(m) \/ MergeRecord(m) \/ MergeUnroute(m) \/ MergeLearn(m)
           \/ MergeWrite(m) \/ MergeClear(m) \/ MergeApply(m)
  PROVE  MergeInv'
<1>1. clock \in Nat /\ sync[m] \in Task /\ file[m] \in Stamp /\ tomb[m] \in Stamp /\ 0 \in Stamp
       /\ sync[m].doc.file \in Stamp /\ sync[m].doc.tomb \in Stamp
  BY BoundAssumption DEF TypeOK, Task, Doc, Stamp
<1>2. calls' = calls
  BY DEF MergeRemove, MergeRecord, MergeUnroute, MergeLearn, MergeWrite, MergeClear, MergeApply
<1>3. \A c \in calls : c.member # m
  BY MergingAlone DEF MergeRemove, MergeRecord, MergeUnroute, MergeLearn, MergeWrite, MergeClear,
                      MergeApply, Merging
<1>4. \A n \in Member \ {m} : file'[n] = file[n] /\ tomb'[n] = tomb[n]
  BY DEF MergeRemove, MergeRecord, MergeUnroute, MergeLearn, MergeWrite, MergeClear, MergeApply,
         DeleteProdByID, WriteProd, RecordTombstone, ClearTombstone, TypeOK
<1>5. \A t : Becomes(m, t) => sync'[m] = t
  BY DEF Becomes, TypeOK
<1>6. MergeOK(m) /\ (file[m] # 0 => file[m] > tomb[m])
  BY DEF MergeInv, DeletedStaysDeleted
<1>7. SUFFICES ASSUME NEW t, Becomes(m, t)
               PROVE  MergeOK(m)' /\ (file'[m] # 0 => file'[m] > tomb'[m])
  <2>1. \E t : Becomes(m, t)
    BY DEF MergeRemove, MergeRecord, MergeUnroute, MergeLearn, MergeWrite, MergeClear, MergeApply,
           Finish
  <2> QED BY <1>2, <1>3, <1>4, <1>7, <2>1, SyncLocal
<1>8. sync'[m] = t BY <1>5, <1>7
<1>9. /\ \A pc \in STRING : /\ [sync[m] EXCEPT !.pc = pc].pc = pc
                            /\ [sync[m] EXCEPT !.pc = pc].doc = sync[m].doc
      /\ \A todo : Idle(m, todo).pc = "idle"
  BY <1>1 DEF Task, Idle
<1>10. CASE MergeRemove(m)
  <2>1. sync'[m] = [sync[m] EXCEPT !.pc = "record"] BY <1>5, <1>10 DEF MergeRemove
  <2>2. file'[m] = 0 /\ tomb'[m] = tomb[m]
    BY <1>10 DEF MergeRemove, DeleteProdByID, TypeOK
  <2> QED BY <1>6, <1>9, <1>10, <2>1, <2>2 DEF MergeOK, MergeRemove
<1>11. CASE MergeRecord(m)
  <2>1. sync'[m] = [sync[m] EXCEPT !.pc = "unroute"] BY <1>5, <1>11 DEF MergeRecord
  <2>2. file'[m] = file[m] /\ tomb'[m] = Later(tomb[m], sync[m].doc.tomb)
    BY <1>11 DEF MergeRecord, RecordTombstone, TypeOK
  <2>3. file[m] = 0 /\ sync[m].doc.tomb > tomb[m]
    BY <1>6, <1>11 DEF MergeOK, MergeRecord
  <2>4. tomb'[m] = sync[m].doc.tomb BY <1>1, <2>2, <2>3 DEF Later, Stamp
  <2> QED BY <1>9, <2>1, <2>2, <2>3, <2>4 DEF MergeOK
<1>12. CASE MergeUnroute(m)
  <2> DEFINE r == [sync[m] EXCEPT !.local = 0, !.tombs = sync[m].doc.tomb]
             u == Settled(m, AfterTombstones(r))
  <2>1. sync'[m] = u BY <1>5, <1>12 DEF MergeUnroute
  <2>2. file'[m] = 0 /\ file[m] = 0 /\ tomb'[m] = tomb[m] /\ sync[m].doc.tomb = tomb[m]
    BY <1>6, <1>12 DEF MergeOK, MergeUnroute
  <2>3. r \in Task /\ r.local = 0 /\ r.tombs = tomb[m]
    BY <1>1, <2>2 DEF Task
  <2>4. u.pc \in {"idle", "write"} /\ (u.pc = "write" => u.doc.file > 0 /\ u.doc.file > tomb[m])
    BY <1>1, <2>3, SettledOK
  <2> HIDE DEF u
  <2> QED BY <2>1, <2>2, <2>4 DEF MergeOK
<1>13. CASE MergeLearn(m)
  <2> DEFINE r == [sync[m] EXCEPT !.tombs = sync[m].doc.tomb]
             u == Settled(m, AfterTombstones(r))
  <2>1. sync'[m] = u BY <1>5, <1>13 DEF MergeLearn
  <2>2. file'[m] = 0 /\ file[m] = 0 /\ sync[m].doc.tomb > tomb[m]
         /\ tomb'[m] = Later(tomb[m], sync[m].doc.tomb)
    BY <1>6, <1>13 DEF MergeOK, MergeLearn, RecordTombstone, TypeOK
  <2>3. tomb'[m] = sync[m].doc.tomb BY <1>1, <2>2 DEF Later, Stamp
  <2>4. r \in Task /\ r.local \in Stamp /\ r.tombs = sync[m].doc.tomb
    BY <1>1 DEF Task
  <2>5. u.pc \in {"idle", "write"}
         /\ (u.pc = "write" => u.doc.file > r.local /\ u.doc.file > tomb'[m])
    BY <1>1, <2>3, <2>4, SettledOK
  <2>6. u.pc = "write" => u.doc.file > 0
    <3>1. u \in Task BY <1>1, <2>4, SettledType
    <3> QED BY <1>1, <2>3, <2>5, <3>1 DEF Task, Doc, Stamp
  <2> HIDE DEF u
  <2> QED BY <2>1, <2>2, <2>5, <2>6 DEF MergeOK
<1>14. CASE MergeWrite(m)
  <2>1. sync'[m] = [sync[m] EXCEPT !.pc = "clear"] BY <1>5, <1>14 DEF MergeWrite
  <2>2. file'[m] = sync[m].doc.file /\ tomb'[m] = tomb[m]
    BY <1>14 DEF MergeWrite, WriteProd, TypeOK
  <2>3. sync[m].doc.file > file[m] /\ sync[m].doc.file > tomb[m]
    BY <1>6, <1>14 DEF MergeOK, MergeWrite
  <2>4. sync[m].doc.file # 0 BY <1>1, <2>3 DEF Stamp
  <2> QED BY <1>9, <2>1, <2>2, <2>3, <2>4 DEF MergeOK
<1>15. CASE MergeClear(m)
  <2>1. sync'[m] = [sync[m] EXCEPT !.pc = "apply"] BY <1>5, <1>15 DEF MergeClear
  <2>2. file'[m] = file[m] /\ tomb'[m] = 0
    BY <1>15 DEF MergeClear, ClearTombstone, TypeOK
  <2>3. file'[m] # 0 => file'[m] > tomb'[m] BY <1>1, <2>2 DEF Stamp
  <2> QED BY <1>9, <2>1, <2>3 DEF MergeOK
<1>16. CASE MergeApply(m)
  <2>1. sync'[m] = Idle(m, sync[m].todo) BY <1>5, <1>16 DEF MergeApply, Finish
  <2>2. file'[m] = file[m] /\ tomb'[m] = tomb[m] BY <1>16 DEF MergeApply
  <2> QED BY <1>6, <1>9, <2>1, <2>2 DEF MergeOK
<1> QED BY <1>10, <1>11, <1>12, <1>13, <1>14, <1>15, <1>16

\* A member that serves an edit is not merging, so no obligation of a merge can be
\* disturbed by the edit (handlePromoteProxyRevision, handleDeleteFileProxy).
LEMMA CallMergeInv ==
  ASSUME TypeOK, MergeInv, NEW c \in calls, CallStep(c)
  PROVE  MergeInv'
<1> DEFINE m == c.member
<1>1. clock \in Nat /\ c \in Call /\ m \in Member /\ c.at \in Stamp /\ 0 \in Stamp
       /\ file[m] \in Stamp /\ tomb[m] \in Stamp
  BY BoundAssumption DEF TypeOK, Call, Stamp
<1>2. sync' = sync /\ clock' = clock
  BY DEF CallStep, PromoteWrite, PromoteApply, DeleteFile, DeleteRecord, DeleteUnroute
<1>3. \A d \in calls : d.member = m => d = c
  BY DEF MergeInv, Exclusive
<1>4. sync[m].pc \in Pulling \cup {"list"}
  BY DEF MergeInv, Exclusive
<1>5. \A n \in Member \ {m} : file'[n] = file[n] /\ tomb'[n] = tomb[n]
  BY <1>1 DEF CallStep, PromoteWrite, PromoteApply, DeleteFile, DeleteRecord, DeleteUnroute,
         DeleteProdByID, WriteProd, RecordTombstone, TypeOK
<1>6. \A n \in Member : MergeOK(n)'
  <2> TAKE n \in Member
  <2>1. CASE n = m BY <1>2, <1>4, <2>1 DEF MergeOK, Pulling
  <2>2. CASE n # m BY <1>2, <1>5, <2>2 DEF MergeInv, MergeOK
  <2> QED BY <2>1, <2>2
<1>7. CallOK(c) /\ (file[m] # 0 => file[m] > tomb[m])
  BY <1>1 DEF MergeInv, DeletedStaysDeleted
<1>8. \A d \in calls' : (d \in calls /\ d # c) \/ (d.member = m /\ d = [c EXCEPT !.pc = d.pc])
  BY <1>1 DEF CallStep, PromoteWrite, PromoteApply, DeleteFile, DeleteRecord, DeleteUnroute,
         Advance, Answer, Call
<1>9. \A d \in calls' : d.member = m =>
        /\ d.pc = "apply" \/ d.pc = "record" \/ d.pc = "unroute"
        /\ d.pc = "record" => file'[m] = 0
  <2>1. CASE PromoteWrite(c)
    <3>1. [c EXCEPT !.pc = "apply"].pc = "apply" BY <1>1 DEF Call
    <3> QED BY <1>3, <2>1, <3>1 DEF PromoteWrite, Advance
  <2>2. CASE PromoteApply(c) \/ DeleteUnroute(c)
    BY <1>3, <2>2 DEF PromoteApply, DeleteUnroute, Answer
  <2>3. CASE DeleteFile(c)
    <3>1. [c EXCEPT !.pc = "record"].pc = "record" BY <1>1 DEF Call
    <3>2. file'[m] = 0 BY <1>1, <2>3 DEF DeleteFile, DeleteProdByID, TypeOK
    <3> QED BY <1>3, <2>3, <3>1, <3>2 DEF DeleteFile, Advance
  <2>4. CASE DeleteRecord(c)
    <3>1. [c EXCEPT !.pc = "unroute"].pc = "unroute" BY <1>1 DEF Call
    <3> QED BY <1>3, <2>4, <3>1 DEF DeleteRecord, Advance
  <2> QED BY <2>1, <2>2, <2>3, <2>4 DEF CallStep
<1>10. \A d \in calls' : CallOK(d)'
  <2> SUFFICES ASSUME NEW d \in calls' PROVE CallOK(d)' OBVIOUS
  <2>1. CASE d.member = m BY <1>9, <2>1 DEF CallOK
  <2>2. CASE d.member # m
    <3>1. d \in calls /\ d.member \in Member BY <1>8, <2>2 DEF TypeOK, Call
    <3> QED BY <1>5, <2>2, <3>1 DEF MergeInv, CallOK
  <2> QED BY <2>1, <2>2
<1>11. Exclusive'
  <2>1. \A d, e \in calls' : d.member = e.member => d = e
    <3> SUFFICES ASSUME NEW d \in calls', NEW e \in calls', d.member = e.member PROVE d = e
      OBVIOUS
    <3>1. CASE d.member # m
      BY <1>8, <3>1 DEF MergeInv, Exclusive
    <3>2. CASE d.member = m
      <4>1. \E x : calls' \subseteq (calls \ {c}) \cup {x}
        BY DEF CallStep, PromoteWrite, PromoteApply, DeleteFile, DeleteRecord, DeleteUnroute,
               Advance, Answer
      <4> QED BY <1>3, <3>2, <4>1
    <3> QED BY <3>1, <3>2
  <2>2. \A d \in calls' : sync'[d.member].pc \in Pulling \cup {"list"}
    BY <1>2, <1>4, <1>8 DEF MergeInv, Exclusive
  <2> QED BY <2>1, <2>2 DEF Exclusive
<1>12. file'[m] # 0 => file'[m] > tomb'[m]
  <2>1. CASE PromoteWrite(c)
    BY <1>1, <1>7, <2>1 DEF PromoteWrite, WriteProd, CallOK, TypeOK
  <2>2. CASE DeleteFile(c)
    BY <1>1, <2>2 DEF DeleteFile, DeleteProdByID, TypeOK
  <2>3. CASE DeleteRecord(c)
    BY <1>7, <2>3 DEF DeleteRecord, CallOK
  <2>4. CASE PromoteApply(c) \/ DeleteUnroute(c)
    BY <1>7, <2>4 DEF PromoteApply, DeleteUnroute
  <2> QED BY <2>1, <2>2, <2>3, <2>4 DEF CallStep
<1>13. DeletedStaysDeleted'
  BY <1>5, <1>12 DEF MergeInv, DeletedStaysDeleted
<1> QED BY <1>6, <1>10, <1>11, <1>13 DEF MergeInv

\* A new edit is stamped later than everything, on a member that does nothing else.
LEMMA StartMergeInv ==
  ASSUME TypeOK, MergeInv, ~Concurrent, NEW m \in Member, StartPromote(m) \/ StartDelete(m)
  PROVE  MergeInv'
<1>1. PICK kind, pc : pc \in {"write", "remove"} /\ StartCall(m, kind, pc)
  BY DEF StartPromote, StartDelete
<1> DEFINE x == [member |-> m, kind |-> kind, at |-> clock + 1, pc |-> pc]
<1>2. UNCHANGED <<file, tomb, sync>> /\ calls' = calls \cup {x}
  BY <1>1 DEF StartCall
<1>3. (\A c \in calls : c.member # m) /\ sync[m].pc \in Pulling
  BY <1>1 DEF StartCall, MayEdit, CallsOf
<1>4. x.member = m /\ x.at = clock + 1 /\ x.pc \in {"write", "remove"}
  BY <1>1
<1> HIDE DEF x
<1>5. x.at > file[m] /\ x.at > tomb[m]
  BY <1>4, BoundAssumption DEF TypeOK, Stamp
<1>6. Exclusive'
  BY <1>2, <1>3, <1>4 DEF MergeInv, Exclusive
<1>7. \A c \in calls' : CallOK(c)'
  BY <1>2, <1>4, <1>5 DEF MergeInv, CallOK
<1>8. (\A n \in Member : MergeOK(n)') /\ DeletedStaysDeleted'
  BY <1>2 DEF MergeInv, MergeOK, DeletedStaysDeleted
<1> QED BY <1>6, <1>7, <1>8 DEF MergeInv

\* A restart forgets the edits and the merge of the member and leaves its files; a
\* flush of the cached table touches neither.
LEMMA ProcessMergeInv ==
  ASSUME TypeOK, MergeInv, NEW m \in Member, SaveCacheNow(m) \/ Restart(m)
  PROVE  MergeInv'
<1>1. CASE SaveCacheNow(m)
  BY <1>1 DEF SaveCacheNow, MergeInv, Exclusive, CallOK, MergeOK, DeletedStaysDeleted
<1>2. CASE Restart(m)
  <2>1. file' = file /\ tomb' = tomb /\ calls' = {c \in calls : c.member # m}
    BY <1>2 DEF Restart, CallsOf
  <2>2. sync'[m] = Idle(m, {}) /\ \A n \in Member \ {m} : sync'[n] = sync[n]
    BY <1>2 DEF Restart, Becomes, TypeOK
  <2>3. Idle(m, {}).pc = "idle" BY DEF Idle
  <2>4. Exclusive'
    <3>1. \A c \in calls : c.member \in Member BY DEF TypeOK, Call
    <3> QED BY <2>1, <2>2, <3>1 DEF MergeInv, Exclusive
  <2>5. \A c \in calls' : CallOK(c)' BY <2>1 DEF MergeInv, CallOK
  <2>6. \A n \in Member : MergeOK(n)'
    <3> TAKE n \in Member
    <3>1. CASE n = m BY <2>2, <2>3, <3>1 DEF MergeOK
    <3>2. CASE n # m BY <2>1, <2>2, <3>2 DEF MergeInv, MergeOK
    <3> QED BY <3>1, <3>2
  <2>7. DeletedStaysDeleted' BY <2>1 DEF MergeInv, DeletedStaysDeleted
  <2> QED BY <2>4, <2>5, <2>6, <2>7 DEF MergeInv
<1> QED BY <1>1, <1>2

\* Every step keeps the invariant as long as edits and merges exclude each other.
LEMMA NextMergeInv ==
  ASSUME ~Concurrent
  PROVE  TypeOK /\ MergeInv /\ [Next]_vars => MergeInv'
<1> SUFFICES ASSUME TypeOK, MergeInv, [Next]_vars PROVE MergeInv' OBVIOUS
<1>1. CASE \E m \in Member : StartPromote(m) \/ StartDelete(m)
  BY <1>1, StartMergeInv
<1>2. CASE \E c \in calls : CallStep(c)
  BY <1>2, CallMergeInv
<1>3. CASE \E m \in Member : SyncStep(m) \/ FailPull(m)
  BY <1>3, QuietMergeInv, MergeMergeInv DEF SyncStep, MergeStep, QuietStep
<1>4. CASE \E m \in Member : SaveCacheNow(m) \/ Restart(m)
  BY <1>4, ProcessMergeInv
<1>5. CASE UNCHANGED vars
  BY <1>5 DEF vars, MergeInv, Exclusive, CallOK, MergeOK, DeletedStaysDeleted
<1> QED BY <1>1, <1>2, <1>3, <1>4, <1>5 DEF Next

\* In a group whose members do not edit and merge at the same time, every edit and
\* every merge acts on an accurate view of the member's files, for ever.
THEOREM MergeInvariant ==
  ASSUME ~Concurrent
  PROVE  Spec => []MergeInv
<1>1. Init => TypeOK /\ MergeInv BY InitTypeOK, InitMergeInv
<1>2. TypeOK /\ MergeInv /\ [Next]_vars => TypeOK' /\ MergeInv'
  BY NextTypeOK, NextMergeInv
<1> QED BY <1>1, <1>2, PTL DEF Spec

\* In such a group a proxy never comes back beside a later deletion of it, whatever
\* the pulls, the lost answers and the restarts (mergeProxyReplica).
THEOREM Deleted ==
  ASSUME ~Concurrent
  PROVE  Spec => []DeletedStaysDeleted
<1>1. MergeInv => DeletedStaysDeleted BY DEF MergeInv
<1> QED BY <1>1, MergeInvariant, PTL

\* In such a group a merge only ever puts in production a version later than every
\* version and every deletion the member knew.
THEOREM Adopted ==
  ASSUME ~Concurrent
  PROVE  Spec => AdoptsNewer
<1>1. ASSUME TypeOK, MergeInv, [Next]_vars, NEW m \in Member,
             sync[m].pc = "write", sync'[m].pc = "clear"
      PROVE  file'[m] > Knows(m)
  <2>1. MergeWrite(m)
    <3>1. sync[m] \in Task BY <1>1 DEF TypeOK
    <3>2. ~UNCHANGED vars BY <1>1 DEF vars
    <3>3. \A n \in Member : n # m => ~SyncStep(n) /\ ~FailPull(n) /\ ~Restart(n)
      <4> TAKE n \in Member
      <4> SUFFICES ASSUME n # m PROVE \A t : ~Becomes(n, t)
        BY DEF SyncStep, MergeStep, StartRound, StartPull, SendRequest, ServeList, ServeTombs,
               FailPull, ListLocal, SnapTombs, MergeRemove, MergeRecord, MergeUnroute,
               MergeLearn, MergeWrite, MergeClear, MergeApply, Finish, Restart
      <4>1. sync[m] = sync'[m] \/ \A t : ~Becomes(n, t) BY <1>1 DEF Becomes, TypeOK
      <4> QED BY <1>1, <4>1
    <3>4. \A n \in Member : ~StartPromote(n) /\ ~StartDelete(n) /\ ~SaveCacheNow(n)
      BY <1>1 DEF StartPromote, StartDelete, StartCall, SaveCacheNow
    <3>5. \A c \in calls : ~CallStep(c)
      BY <1>1 DEF CallStep, PromoteWrite, PromoteApply, DeleteFile, DeleteRecord, DeleteUnroute
    <3>6. ~Restart(m)
      BY <1>1 DEF Restart, Becomes, TypeOK, Idle
    <3>7. SyncStep(m) \/ FailPull(m)
      BY <1>1, <3>2, <3>3, <3>4, <3>5, <3>6 DEF Next
    <3> QED BY <1>1, <3>7 DEF SyncStep, MergeStep, StartRound, StartPull, SendRequest,
               ServeList, ServeTombs, FailPull, ListLocal, SnapTombs, MergeRemove, MergeRecord,
               MergeUnroute, MergeLearn, MergeClear, MergeApply
  <2>2. file'[m] = sync[m].doc.file
    BY <1>1, <2>1 DEF MergeWrite, WriteProd, TypeOK
  <2>3. sync[m].doc.file > file[m] /\ sync[m].doc.file > tomb[m]
    BY <1>1 DEF MergeInv, MergeOK
  <2> QED BY <2>2, <2>3 DEF Knows, Later
<1>2. TypeOK /\ MergeInv /\ [Next]_vars =>
        (\A m \in Member : sync[m].pc = "write" /\ sync'[m].pc = "clear"
                             => file'[m] > Knows(m))
  BY <1>1
<1> QED BY <1>2, TypeCorrect, MergeInvariant, PTL DEF Spec, AdoptsNewer

---------------------------------------------------------------------------
(* What was answered stays known *)

LEMMA LaterNat ==
  ASSUME NEW a \in Nat, NEW b \in Nat
  PROVE  /\ Later(a, b) \in Nat /\ Later(a, b) >= a /\ Later(a, b) >= b
         /\ Later(a, b) = a \/ Later(a, b) = b
BY DEF Later

\* The types a step begins and ends with, as numbers.
LEMMA StampsAreNumbers ==
  ASSUME TypeOK
  PROVE  /\ clock \in Nat /\ Stamp \subseteq Nat /\ acked \in Stamp /\ cut \subseteq Stamp
         /\ \A m \in Member : /\ file[m] \in Stamp /\ tomb[m] \in Stamp /\ Knows(m) \in Stamp
                              /\ Knows(m) >= file[m] /\ Knows(m) >= tomb[m]
                              /\ Knows(m) = file[m] \/ Knows(m) = tomb[m]
                              /\ sync[m].doc.file \in Stamp /\ sync[m].doc.tomb \in Stamp
         /\ \A c \in calls : c \in Call /\ c.member \in Member /\ c.at \in Stamp
<1>1. clock \in Nat /\ Stamp \subseteq Nat
  BY BoundAssumption DEF TypeOK, Stamp
<1>2. \A m \in Member : file[m] \in Stamp /\ tomb[m] \in Stamp /\ sync[m] \in Task
  BY DEF TypeOK
<1>3. \A m \in Member : sync[m].doc.file \in Stamp /\ sync[m].doc.tomb \in Stamp
  BY <1>2 DEF Task, Doc
<1>4. ASSUME NEW m \in Member
      PROVE  /\ Knows(m) \in Stamp /\ Knows(m) >= file[m] /\ Knows(m) >= tomb[m]
             /\ Knows(m) = file[m] \/ Knows(m) = tomb[m]
  <2>1. file[m] \in Stamp /\ tomb[m] \in Stamp /\ file[m] \in Nat /\ tomb[m] \in Nat
    BY <1>1, <1>2
  <2> QED BY <2>1, LaterNat DEF Knows
<1>5. \A c \in calls : c \in Call /\ c.member \in Member /\ c.at \in Stamp
  BY DEF TypeOK, Call
<1> QED BY <1>1, <1>2, <1>3, <1>4, <1>5 DEF TypeOK

\* And after the step.
LEMMA StampsNext ==
  ASSUME TypeOK', NEW m \in Member
  PROVE  /\ file'[m] \in Nat /\ tomb'[m] \in Nat /\ Knows(m)' \in Nat
         /\ Knows(m)' >= file'[m] /\ Knows(m)' >= tomb'[m]
<1>1. clock' \in Nat /\ Stamp' \subseteq Nat
  BY BoundAssumption DEF TypeOK, Stamp
<1>2. file'[m] \in Nat /\ tomb'[m] \in Nat
  BY <1>1 DEF TypeOK
<1>3. Knows(m)' = Later(file'[m], tomb'[m])
  BY DEF Knows
<1> QED BY <1>2, <1>3, LaterNat

\* If nobody comes to know less and no deletion halfway through is dropped, all is kept.
LEMMA KeptUp ==
  ASSUME TypeOK, TypeOK', NEW x \in Stamp, Kept(x),
         \A m \in Member : Knows(m)' >= Knows(m),
         \A c \in calls : c.pc = "record" => c \in calls',
         cut \subseteq cut'
  PROVE  Kept(x)'
<1>1. \A m \in Member : Knows(m) \in Nat /\ Knows(m)' \in Nat
  BY StampsAreNumbers, StampsNext
<1>2. x \in Nat
  BY StampsAreNumbers
<1> QED BY <1>1, <1>2 DEF Kept

\* A member that knows at least what it did before.
LEMMA KnowsUp ==
  ASSUME TypeOK, TypeOK', NEW m \in Member,
         \/ file'[m] >= Knows(m)
         \/ file'[m] >= file[m] /\ tomb'[m] >= tomb[m]
  PROVE  Knows(m)' >= Knows(m)
<1>1. /\ file[m] \in Nat /\ tomb[m] \in Nat /\ file'[m] \in Nat /\ tomb'[m] \in Nat
      /\ Knows(m) \in Nat /\ Knows(m)' \in Nat
      /\ Knows(m) = file[m] \/ Knows(m) = tomb[m]
  BY StampsAreNumbers, StampsNext
<1>2. Knows(m)' >= file'[m] /\ Knows(m)' >= tomb'[m]
  BY StampsNext
<1> QED BY <1>1, <1>2

LEMMA QuietKept ==
  ASSUME TypeOK, TypeOK', NEW x \in Stamp, Kept(x), UNCHANGED <<file, tomb, calls, cut>>
  PROVE  Kept(x)'
BY DEF Kept, Knows

\* A merge that removes the file counts on whoever keeps the deletion it was sent.
LEMMA MergeKept ==
  ASSUME TypeOK, TypeOK', MergeInv, KnownInv, NEW m \in Member, MergeStep(m),
         NEW x \in Stamp, Kept(x)
  PROVE  Kept(x)'
<1>1. calls' = calls /\ cut' = cut
  BY DEF MergeStep, ListLocal, SnapTombs, MergeRemove, MergeRecord, MergeUnroute, MergeLearn,
         MergeWrite, MergeClear, MergeApply
<1>2. \A n \in Member \ {m} : file'[n] = file[n] /\ tomb'[n] = tomb[n]
  BY DEF MergeStep, ListLocal, SnapTombs, MergeRemove, MergeRecord, MergeUnroute, MergeLearn,
         MergeWrite, MergeClear, MergeApply, DeleteProdByID, RecordTombstone, WriteProd,
         ClearTombstone, TypeOK
<1>3. \A n \in Member \ {m} : Knows(n)' = Knows(n)
  BY <1>2 DEF Knows
<1>4. /\ clock \in Nat /\ Stamp \subseteq Nat /\ x \in Nat
      /\ \A n \in Member : /\ file[n] \in Nat /\ tomb[n] \in Nat /\ Knows(n) \in Nat
                           /\ Knows(n) = file[n] \/ Knows(n) = tomb[n]
      /\ sync[m].doc.file \in Nat /\ sync[m].doc.tomb \in Stamp /\ sync[m].doc.tomb \in Nat
  BY StampsAreNumbers
<1>5. MergeOK(m) /\ (file[m] # 0 => file[m] > tomb[m])
  BY DEF MergeInv, DeletedStaysDeleted
<1>6. CASE MergeRemove(m)
  <2> DEFINE at == sync[m].doc.tomb
  <2>1. sync[m].pc = "remove" /\ tomb' = tomb
    BY <1>6 DEF MergeRemove
  <2>2. at > tomb[m]
    BY <1>5, <2>1 DEF MergeOK
  <2>3. Kept(at)
    BY DEF KnownInv
  <2>4. CASE \E n \in Member \ {m} : Knows(n) >= x
    BY <1>3, <2>4 DEF Kept
  <2>5. CASE (\E c \in calls : c.pc = "record" /\ c.at > x) \/ \E l \in cut : l > x
    BY <1>1, <2>5 DEF Kept
  <2>6. CASE Knows(m) >= x
    <3>1. CASE at > file[m]
      <4>1. at > Knows(m) /\ at > x
        BY <1>4, <2>2, <2>6, <3>1
      <4>2. ~(Knows(m) >= at)
        BY <1>4, <4>1
      <4>3. CASE \E n \in Member \ {m} : Knows(n) >= at
        BY <1>3, <1>4, <4>1, <4>3 DEF Kept
      <4>4. CASE (\E c \in calls : c.pc = "record" /\ c.at > at) \/ \E l \in cut : l > at
        <5>1. (\A c \in calls : c.at \in Nat) /\ (\A l \in cut : l \in Nat)
          BY StampsAreNumbers
        <5> HIDE DEF at
        <5>2. at \in Nat
          BY <1>4 DEF at
        <5> QED BY <1>1, <1>4, <4>1, <4>4, <5>1, <5>2 DEF Kept
      <4> QED BY <2>3, <4>2, <4>3, <4>4 DEF Kept
    <3>2. CASE ~(at > file[m])
      BY <2>1, <3>2 DEF KnownInv
    <3> QED BY <3>1, <3>2
  <2> QED BY <2>4, <2>5, <2>6 DEF Kept
<1>7. CASE MergeRecord(m) \/ MergeLearn(m)
  <2>1. file' = file /\ tomb'[m] = Later(tomb[m], sync[m].doc.tomb)
    BY <1>7 DEF MergeRecord, MergeLearn, RecordTombstone, TypeOK
  <2>2. tomb'[m] >= tomb[m] /\ file'[m] >= file[m]
    BY <1>4, <2>1 DEF Later
  <2>3. Knows(m)' >= Knows(m)
    BY <2>2, KnowsUp
  <2>4. \A n \in Member : Knows(n)' >= Knows(n)
    BY <1>3, <1>4, <2>3
  <2> QED BY <1>1, <2>4, KeptUp
<1>8. CASE MergeWrite(m)
  <2>1. tomb' = tomb /\ file'[m] = sync[m].doc.file /\ sync[m].pc = "write"
    BY <1>8 DEF MergeWrite, WriteProd, TypeOK
  <2>2. file'[m] > file[m]
    BY <1>5, <2>1 DEF MergeOK
  <2>3. Knows(m)' >= Knows(m)
    BY <1>4, <2>1, <2>2, KnowsUp
  <2>4. \A n \in Member : Knows(n)' >= Knows(n)
    BY <1>3, <1>4, <2>3
  <2> QED BY <1>1, <2>4, KeptUp
<1>9. CASE MergeClear(m)
  <2>1. file' = file /\ sync[m].pc = "clear" /\ file[m] # 0
    BY <1>5, <1>9 DEF MergeClear, MergeOK
  <2>2. file'[m] >= Knows(m)
    BY <1>4, <1>5, <2>1
  <2>3. Knows(m)' >= Knows(m)
    BY <2>2, KnowsUp
  <2>4. \A n \in Member : Knows(n)' >= Knows(n)
    BY <1>3, <1>4, <2>3
  <2> QED BY <1>1, <2>4, KeptUp
<1>10. CASE ListLocal(m) \/ SnapTombs(m) \/ MergeUnroute(m) \/ MergeApply(m)
  <2>1. file' = file /\ tomb' = tomb
    BY <1>10 DEF ListLocal, SnapTombs, MergeUnroute, MergeApply
  <2> QED BY <1>1, <2>1, QuietKept
<1> QED BY <1>6, <1>7, <1>8, <1>9, <1>10 DEF MergeStep

\* An edit that removes the file is kept itself until it has recorded the deletion.
LEMMA CallKept ==
  ASSUME TypeOK, TypeOK', MergeInv, KnownInv, NEW c \in calls, CallStep(c),
         NEW x \in Stamp, Kept(x)
  PROVE  Kept(x)'
<1> DEFINE m == c.member
<1>1. /\ clock \in Nat /\ Stamp \subseteq Nat /\ x \in Nat /\ m \in Member /\ c.at \in Nat /\ c \in Call
      /\ \A n \in Member : /\ file[n] \in Nat /\ tomb[n] \in Nat /\ Knows(n) \in Nat
                           /\ Knows(n) = file[n] \/ Knows(n) = tomb[n]
  BY StampsAreNumbers
<1>2. \A n \in Member \ {m} : file'[n] = file[n] /\ tomb'[n] = tomb[n]
  BY <1>1 DEF CallStep, PromoteWrite, PromoteApply, DeleteFile, DeleteRecord, DeleteUnroute,
         DeleteProdByID, WriteProd, RecordTombstone, TypeOK
<1>3. \A n \in Member \ {m} : Knows(n)' = Knows(n)
  BY <1>2 DEF Knows
<1>4. cut' = cut /\ \A d \in calls : d # c => d \in calls'
  BY DEF CallStep, PromoteWrite, PromoteApply, DeleteFile, DeleteRecord, DeleteUnroute,
         Advance, Answer
<1>5. CallOK(c) /\ EditOK(c)
  BY DEF MergeInv, KnownInv
<1>6. CASE PromoteWrite(c)
  <2>1. tomb' = tomb /\ file'[m] = c.at /\ c.pc = "write"
    BY <1>1, <1>6 DEF PromoteWrite, WriteProd, TypeOK
  <2>2. file'[m] >= file[m]
    BY <1>1, <1>5, <2>1 DEF CallOK
  <2>3. Knows(m)' >= Knows(m)
    BY <1>1, <2>1, <2>2, KnowsUp
  <2>4. \A n \in Member : Knows(n)' >= Knows(n)
    BY <1>1, <1>3, <2>3
  <2>5. \A d \in calls : d.pc = "record" => d \in calls'
    BY <1>4, <2>1
  <2> QED BY <1>4, <2>4, <2>5, KeptUp
<1>7. CASE PromoteApply(c) \/ DeleteUnroute(c)
  <2>1. file' = file /\ tomb' = tomb /\ c.pc # "record"
    BY <1>7 DEF PromoteApply, DeleteUnroute
  <2>2. \A n \in Member : Knows(n)' >= Knows(n)
    BY <1>1, <2>1 DEF Knows
  <2>3. \A d \in calls : d.pc = "record" => d \in calls'
    BY <1>4, <2>1
  <2> QED BY <1>4, <2>2, <2>3, KeptUp
<1>8. CASE DeleteFile(c)
  <2>1. c.pc = "remove" /\ tomb' = tomb
    BY <1>8 DEF DeleteFile
  <2> DEFINE d == [c EXCEPT !.pc = "record"]
  <2>2. d \in calls' /\ d.pc = "record" /\ d.at = c.at
    BY <1>1, <1>8 DEF DeleteFile, Advance, Call
  <2>3. c.at > file[m]
    BY <1>5, <2>1 DEF EditOK
  <2> HIDE DEF d
  <2>4. CASE \E n \in Member \ {m} : Knows(n) >= x
    BY <1>3, <2>4 DEF Kept
  <2>5. CASE (\E e \in calls : e.pc = "record" /\ e.at > x) \/ \E l \in cut : l > x
    BY <1>4, <2>1, <2>5 DEF Kept
  <2>6. CASE Knows(m) >= x
    <3>1. CASE file[m] >= x
      BY <1>1, <2>2, <2>3, <3>1 DEF Kept
    <3>2. CASE tomb[m] >= x
      <4>1. Knows(m)' >= tomb'[m] /\ Knows(m)' \in Nat
        BY <1>1, StampsNext
      <4>2. Knows(m)' >= x
        BY <1>1, <2>1, <3>2, <4>1
      <4> QED BY <1>1, <4>2 DEF Kept
    <3> QED BY <1>1, <2>6, <3>1, <3>2
  <2> QED BY <2>4, <2>5, <2>6 DEF Kept
<1>9. CASE DeleteRecord(c)
  <2>1. file' = file /\ tomb'[m] = Later(tomb[m], c.at)
    BY <1>1, <1>9 DEF DeleteRecord, RecordTombstone, TypeOK
  <2>2. tomb'[m] >= tomb[m] /\ file'[m] >= file[m] /\ tomb'[m] >= c.at
    BY <1>1, <2>1 DEF Later
  <2>3. Knows(m)' >= Knows(m) /\ Knows(m)' >= c.at /\ Knows(m)' \in Nat
    <3>1. Knows(m)' >= tomb'[m] /\ Knows(m)' \in Nat /\ tomb'[m] \in Nat
      BY <1>1, StampsNext
    <3> QED BY <1>1, <2>2, <3>1, KnowsUp
  <2>4. \A n \in Member : Knows(n)' >= Knows(n) /\ Knows(n)' \in Nat
    BY <1>1, <1>3, <2>3
  <2>5. CASE \E n \in Member : Knows(n) >= x
    BY <1>1, <2>4, <2>5 DEF Kept
  <2>6. CASE \E l \in cut : l > x
    BY <1>4, <2>6 DEF Kept
  <2>7. CASE \E e \in calls : e.pc = "record" /\ e.at > x
    <3>1. PICK e \in calls : e.pc = "record" /\ e.at > x
      BY <2>7
    <3>2. CASE e = c
      BY <1>1, <2>3, <3>1, <3>2 DEF Kept
    <3>3. CASE e # c
      BY <1>4, <3>1, <3>3 DEF Kept
    <3> QED BY <3>2, <3>3
  <2> QED BY <2>5, <2>6, <2>7 DEF Kept
<1> QED BY <1>6, <1>7, <1>8, <1>9 DEF CallStep

\* A restart that stops a deletion halfway is remembered in cut.
LEMMA RestartKept ==
  ASSUME NEW m \in Member, Restart(m), NEW x, Kept(x)
  PROVE  Kept(x)'
<1>1. file' = file /\ tomb' = tomb /\ calls' = calls \ CallsOf(m)
      /\ cut' = cut \cup {c.at : c \in {e \in CallsOf(m) : e.pc = "record"}}
  BY DEF Restart
<1>2. CASE (\E n \in Member : Knows(n) >= x) \/ \E l \in cut : l > x
  BY <1>1, <1>2 DEF Kept, Knows
<1>3. CASE \E e \in calls : e.pc = "record" /\ e.at > x
  <2>1. PICK e \in calls : e.pc = "record" /\ e.at > x
    BY <1>3
  <2>2. CASE e \in CallsOf(m)
    BY <1>1, <2>1, <2>2 DEF Kept
  <2>3. CASE e \notin CallsOf(m)
    BY <1>1, <2>1, <2>3 DEF Kept
  <2> QED BY <2>2, <2>3
<1> QED BY <1>2, <1>3 DEF Kept

\* No step loses a stamp.
LEMMA NextKept ==
  ASSUME TypeOK, TypeOK', MergeInv, KnownInv, [Next]_vars
  PROVE  \A x \in Stamp : Kept(x) => Kept(x)'
<1> SUFFICES ASSUME NEW x \in Stamp, Kept(x) PROVE Kept(x)'
  OBVIOUS
<1>1. CASE \E m \in Member : StartPromote(m) \/ StartDelete(m)
  <2>1. UNCHANGED <<file, tomb, cut>> /\ calls \subseteq calls'
    BY <1>1 DEF StartPromote, StartDelete, StartCall
  <2> QED BY <2>1 DEF Kept, Knows
<1>2. CASE \E c \in calls : CallStep(c)
  BY <1>2, CallKept
<1>3. CASE \E m \in Member : QuietStep(m)
  <2>1. UNCHANGED <<file, tomb, calls, cut>>
    BY <1>3 DEF QuietStep, StartRound, StartPull, SendRequest, ServeList, ServeTombs, FailPull,
           ListLocal, SnapTombs
  <2> QED BY <2>1, QuietKept
<1>4. CASE \E m \in Member : MergeStep(m)
  BY <1>4, MergeKept
<1>5. CASE \E m \in Member : SaveCacheNow(m)
  <2>1. UNCHANGED <<file, tomb, calls, cut>>
    BY <1>5 DEF SaveCacheNow
  <2> QED BY <2>1, QuietKept
<1>6. CASE \E m \in Member : Restart(m)
  BY <1>6, RestartKept
<1>7. CASE UNCHANGED vars
  BY <1>7, QuietKept DEF vars
<1> QED BY <1>1, <1>2, <1>3, <1>4, <1>5, <1>6, <1>7 DEF Next, SyncStep, QuietStep

\* The steps of an edit leave to it what it needs to answer.
LEMMA CallEditOK ==
  ASSUME TypeOK, MergeInv, KnownInv, NEW c \in calls, CallStep(c)
  PROVE  \A d \in calls' : EditOK(d)'
<1> DEFINE m == c.member
<1>1. /\ clock \in Nat /\ Stamp \subseteq Nat /\ c \in Call /\ m \in Member /\ c.at \in Nat
      /\ file[m] \in Nat /\ tomb[m] \in Nat
  BY StampsAreNumbers
<1>2. \A n \in Member \ {m} : file'[n] = file[n] /\ tomb'[n] = tomb[n]
  BY <1>1 DEF CallStep, PromoteWrite, PromoteApply, DeleteFile, DeleteRecord, DeleteUnroute,
         DeleteProdByID, WriteProd, RecordTombstone, TypeOK
<1>3. \A d \in calls : d.member \in Member /\ (d.member = m => d = c)
  BY StampsAreNumbers DEF MergeInv, Exclusive
<1>4. ASSUME NEW d \in calls, d # c PROVE EditOK(d)'
  <2>1. d.member \in Member \ {m} /\ EditOK(d)
    BY <1>3, <1>4 DEF KnownInv
  <2> QED BY <1>2, <2>1 DEF EditOK
<1>5. ASSUME NEW pc, NEW d, d = [c EXCEPT !.pc = pc]
      PROVE  d.pc = pc /\ d.member = m /\ d.at = c.at
  BY <1>1, <1>5 DEF Call
<1>6. CASE PromoteWrite(c)
  <2>1. file'[m] = c.at /\ calls' = (calls \ {c}) \cup {[c EXCEPT !.pc = "apply"]}
    BY <1>1, <1>6 DEF PromoteWrite, WriteProd, Advance, TypeOK
  <2>2. ASSUME NEW d, d = [c EXCEPT !.pc = "apply"] PROVE EditOK(d)'
    BY <1>5, <2>1, <2>2 DEF EditOK
  <2> QED BY <1>4, <2>1, <2>2
<1>7. CASE PromoteApply(c) \/ DeleteUnroute(c)
  BY <1>4, <1>7 DEF PromoteApply, DeleteUnroute, Answer
<1>8. CASE DeleteFile(c)
  <2>1. calls' = (calls \ {c}) \cup {[c EXCEPT !.pc = "record"]}
    BY <1>8 DEF DeleteFile, Advance
  <2>2. ASSUME NEW d, d = [c EXCEPT !.pc = "record"] PROVE EditOK(d)'
    BY <1>5, <2>2 DEF EditOK
  <2> QED BY <1>4, <2>1, <2>2
<1>9. CASE DeleteRecord(c)
  <2>1. /\ calls' = (calls \ {c}) \cup {[c EXCEPT !.pc = "unroute"]}
        /\ tomb'[m] = Later(tomb[m], c.at)
    BY <1>1, <1>9 DEF DeleteRecord, Advance, RecordTombstone, TypeOK
  <2>2. tomb'[m] >= c.at
    BY <1>1, <2>1, LaterNat
  <2>3. ASSUME NEW d, d = [c EXCEPT !.pc = "unroute"] PROVE EditOK(d)'
    BY <1>5, <2>2, <2>3 DEF EditOK
  <2> QED BY <1>4, <2>1, <2>3
<1> QED BY <1>6, <1>7, <1>8, <1>9 DEF CallStep

\* A step of the goroutine keeps, drops or fetches a document, and a removal it comes to is
\* of an older version, as long as it worked on the member's files as they are.
LEMMA QuietDoc ==
  ASSUME TypeOK, NEW m \in Member, QuietStep(m) \/ MergeStep(m)
  PROVE  /\ \A n \in Member \ {m} : sync'[n] = sync[n]
         /\ \/ sync'[m].doc = sync[m].doc
            \/ sync'[m].doc = NoDoc
            \/ /\ file' = file /\ tomb' = tomb
               /\ \E p \in Member : /\ sync'[m].doc.file \in {sync[m].doc.file, file[p]}
                                    /\ sync'[m].doc.tomb \in {sync[m].doc.tomb, tomb[p]}
         /\ MergeOK(m) /\ sync'[m].pc = "remove" => sync'[m].doc.tomb > file'[m]
<1>0. sync[m] \in Task /\ sync \in [Member -> Task]
  BY DEF TypeOK
<1>1. \A n \in Member \ {m} : sync'[n] = sync[n]
  BY <1>0 DEF QuietStep, StartRound, StartPull, SendRequest, ServeList, ServeTombs, FailPull,
         Finish, Becomes, MergeStep, ListLocal, SnapTombs, MergeRemove, MergeRecord, MergeUnroute,
         MergeLearn, MergeWrite, MergeClear, MergeApply
<1>2. \A t \in Task : /\ Settled(m, AfterTombstones(t)).doc \in {t.doc, NoDoc}
                      /\ Settled(m, AfterTombstones(t)).pc \in {"idle", "write"}
  BY DEF Settled, AfterTombstones, Idle, Task
<1>3. Idle(m, sync[m].todo).doc = NoDoc /\ Idle(m, sync[m].todo).pc = "idle"
  BY DEF Idle
<1>4. CASE StartRound(m)
  BY <1>0, <1>1, <1>4 DEF StartRound, Becomes, Task
<1>5. CASE \E p \in Member : StartPull(m, p)
  BY <1>0, <1>1, <1>5 DEF StartPull, Becomes, Task
<1>6. CASE SendRequest(m)
  BY <1>0, <1>1, <1>6 DEF SendRequest, Becomes, Task
<1>7. CASE ServeList(m)
  BY <1>0, <1>1, <1>7 DEF ServeList, Becomes, Task, Doc
<1>8. CASE ServeTombs(m)
  <2> DEFINE d == [sync[m].doc EXCEPT !.tomb = tomb[sync[m].peer]]
  <2>1. sync[m].peer \in Member /\ d.file = sync[m].doc.file /\ d.tomb = tomb[sync[m].peer]
    BY <1>0 DEF Task, Doc
  <2> HIDE DEF d
  <2>2. \/ sync'[m] = Idle(m, sync[m].todo)
        \/ sync'[m] = [sync[m] EXCEPT !.pc = "list", !.doc = d]
    BY <1>0, <1>8 DEF ServeTombs, Finish, Becomes, d
  <2>3. file' = file /\ tomb' = tomb
    BY <1>8 DEF ServeTombs
  <2>4. [sync[m] EXCEPT !.pc = "list", !.doc = d].doc = d
        /\ [sync[m] EXCEPT !.pc = "list", !.doc = d].pc = "list"
    BY <1>0 DEF Task
  <2>5. CASE sync'[m] = Idle(m, sync[m].todo)
    BY <1>1, <1>3, <2>5
  <2>6. CASE sync'[m] = [sync[m] EXCEPT !.pc = "list", !.doc = d]
    <3>1. sync'[m].doc = d /\ sync'[m].pc = "list"
      BY <2>4, <2>6
    <3>2. sync'[m].doc.file = sync[m].doc.file /\ sync'[m].doc.tomb = tomb[sync[m].peer]
      BY <2>1, <3>1
    <3> QED BY <1>1, <2>1, <2>3, <3>1, <3>2
  <2> QED BY <2>2, <2>5, <2>6
<1>9. CASE FailPull(m) \/ MergeApply(m)
  BY <1>0, <1>1, <1>3, <1>9 DEF FailPull, MergeApply, Finish, Becomes
<1>10. CASE ListLocal(m)
  BY <1>0, <1>1, <1>10 DEF ListLocal, Becomes, Task
<1>11. CASE SnapTombs(m)
  <2> DEFINE t == [sync[m] EXCEPT !.tombs = tomb[m]]
  <2>1. t \in Task /\ t.doc = sync[m].doc /\ t.local = sync[m].local
        /\ (MergeOK(m) => sync[m].local = file[m])
    BY <1>0, <1>11 DEF SnapTombs, Task, TypeOK, MergeOK
  <2>2. sync'[m] = IF Removes(t) THEN [t EXCEPT !.pc = "remove"]
                   ELSE IF Learns(t) THEN [t EXCEPT !.pc = "learn"]
                   ELSE Settled(m, AfterTombstones(t))
    BY <1>0, <1>11 DEF SnapTombs, Becomes
  <2>3. file' = file
    BY <1>11 DEF SnapTombs
  <2> HIDE DEF t
  <2>4. CASE Removes(t)
    BY <1>1, <2>1, <2>2, <2>3, <2>4 DEF Removes, Task
  <2>5. CASE ~Removes(t) /\ Learns(t)
    BY <1>1, <2>1, <2>2, <2>5 DEF Task
  <2>6. CASE ~Removes(t) /\ ~Learns(t)
    BY <1>1, <1>2, <2>1, <2>2, <2>6
  <2> QED BY <2>4, <2>5, <2>6
<1>12. CASE MergeRemove(m) \/ MergeRecord(m) \/ MergeWrite(m) \/ MergeClear(m)
  BY <1>0, <1>1, <1>12 DEF MergeRemove, MergeRecord, MergeWrite, MergeClear, Becomes, Task
<1>13. CASE MergeUnroute(m) \/ MergeLearn(m)
  <2> DEFINE t == [sync[m] EXCEPT !.local = 0, !.tombs = sync[m].doc.tomb]
             u == [sync[m] EXCEPT !.tombs = sync[m].doc.tomb]
  <2>1. t \in Task /\ u \in Task /\ t.doc = sync[m].doc /\ u.doc = sync[m].doc
    <3>1. 0 \in Stamp /\ sync[m].doc.tomb \in Stamp
      BY <1>0, StampsAreNumbers DEF Stamp
    <3> QED BY <1>0, <3>1 DEF Task
  <2>2. sync'[m] = Settled(m, AfterTombstones(t)) \/ sync'[m] = Settled(m, AfterTombstones(u))
    BY <1>0, <1>13 DEF MergeUnroute, MergeLearn, Becomes
  <2> HIDE DEF t, u
  <2> QED BY <1>1, <1>2, <2>1, <2>2
<1> QED BY <1>4, <1>5, <1>6, <1>7, <1>8, <1>9, <1>10, <1>11, <1>12, <1>13 DEF QuietStep, MergeStep

LEMMA NextKnownInv ==
  ASSUME TypeOK, TypeOK', MergeInv, KnownInv, [Next]_vars
  PROVE  KnownInv'
<1>0. /\ clock \in Nat /\ Stamp \subseteq Nat /\ acked \in Stamp
      /\ \A m \in Member : /\ file[m] \in Stamp /\ tomb[m] \in Stamp /\ Knows(m) \in Nat
                           /\ Knows(m) >= file[m] /\ Knows(m) >= tomb[m]
                           /\ sync[m].doc.file \in Stamp /\ sync[m].doc.tomb \in Stamp
      /\ \A c \in calls : c \in Call /\ c.member \in Member /\ c.at \in Stamp
  BY StampsAreNumbers
<1>1. \A x \in Stamp : Kept(x) => Kept(x)'
  BY NextKept
<1>2. ASSUME NEW x, x = 0 PROVE Kept(x)'
  <2>1. PICK m \in Member : TRUE
    BY MemberAssumption
  <2>2. Knows(m)' >= 0
    BY StampsNext
  <2> QED BY <1>2, <2>2 DEF Kept
<1>3. ASSUME NEW x, x = acked \/ \E m \in Member : x = sync[m].doc.file \/ x = sync[m].doc.tomb
      PROVE  Kept(x)'
  BY <1>0, <1>1, <1>3 DEF KnownInv
<1>4. ASSUME NEW x, file' = file, tomb' = tomb, NEW p \in Member, x = file[p] \/ x = tomb[p]
      PROVE  Kept(x)'
  <2>1. Knows(p) >= x
    BY <1>0, <1>4
  <2>2. Knows(p)' >= x
    BY <1>4, <2>1 DEF Knows
  <2> QED BY <2>2 DEF Kept
\* The documents.
<1>5. ASSUME NEW m \in Member, QuietStep(m) \/ MergeStep(m)
      PROVE  KnownInv'
  <2>1. calls' = calls /\ acked' = acked
    BY <1>5 DEF QuietStep, StartRound, StartPull, SendRequest, ServeList, ServeTombs, FailPull,
           MergeStep, ListLocal, SnapTombs, MergeRemove, MergeRecord, MergeUnroute,
           MergeLearn, MergeWrite, MergeClear, MergeApply
  <2>2. \A c \in calls : \/ file'[c.member] = file[c.member] /\ tomb'[c.member] = tomb[c.member]
    <3> SUFFICES ASSUME NEW c \in calls
                 PROVE  file'[c.member] = file[c.member] /\ tomb'[c.member] = tomb[c.member]
      OBVIOUS
    <3>1. CASE UNCHANGED <<file, tomb>>
      BY <3>1
    <3>2. CASE ~UNCHANGED <<file, tomb>>
      <4>1. MergeRemove(m) \/ MergeRecord(m) \/ MergeLearn(m) \/ MergeWrite(m) \/ MergeClear(m)
        BY <1>5, <3>2 DEF QuietStep, StartRound, StartPull, SendRequest, ServeList, ServeTombs,
           FailPull, MergeStep, ListLocal, SnapTombs, MergeUnroute, MergeApply
      <4>2. sync[m].pc \in Merging \ {"list"}
        BY <4>1 DEF MergeRemove, MergeRecord, MergeLearn, MergeWrite, MergeClear, Merging
      <4>3. c.member # m /\ c.member \in Member
        BY <1>0, <4>2, MergingAlone
      <4> QED BY <4>1, <4>3 DEF MergeRemove, MergeRecord, MergeLearn, MergeWrite, MergeClear,
              DeleteProdByID, RecordTombstone, WriteProd, ClearTombstone, TypeOK
    <3> QED BY <3>1, <3>2
  <2>3. \A c \in calls' : EditOK(c)'
    BY <2>1, <2>2 DEF KnownInv, EditOK
  <2>4. ASSUME NEW n \in Member, n # m
        PROVE  /\ sync'[n] = sync[n]
               /\ sync'[n].pc = "remove" => sync'[n].doc.tomb > file'[n]
    <3>1. sync'[n] = sync[n]
      BY <1>5, <2>4, QuietDoc
    <3>2. file'[n] = file[n]
      BY <1>5, <2>4 DEF QuietStep, StartRound, StartPull, SendRequest, ServeList, ServeTombs,
         FailPull, MergeStep, ListLocal, SnapTombs, MergeRemove, MergeRecord, MergeUnroute,
         MergeLearn, MergeWrite, MergeClear, MergeApply, DeleteProdByID, WriteProd, TypeOK
    <3> QED BY <3>1, <3>2 DEF KnownInv
  <2>5. /\ \/ sync'[m].doc = sync[m].doc
           \/ sync'[m].doc = NoDoc
           \/ /\ file' = file /\ tomb' = tomb
              /\ \E p \in Member : /\ sync'[m].doc.file \in {sync[m].doc.file, file[p]}
                                   /\ sync'[m].doc.tomb \in {sync[m].doc.tomb, tomb[p]}
        /\ sync'[m].pc = "remove" => sync'[m].doc.tomb > file'[m]
    BY <1>5, QuietDoc DEF MergeInv
  <2>6. ASSUME NEW x, x = sync'[m].doc.file \/ x = sync'[m].doc.tomb PROVE Kept(x)'
    <3>1. CASE sync'[m].doc = sync[m].doc
      BY <1>3, <2>6, <3>1
    <3>2. CASE sync'[m].doc = NoDoc
      BY <1>2, <2>6, <3>2 DEF NoDoc
    <3>3. CASE /\ file' = file /\ tomb' = tomb
               /\ \E p \in Member : /\ sync'[m].doc.file \in {sync[m].doc.file, file[p]}
                                    /\ sync'[m].doc.tomb \in {sync[m].doc.tomb, tomb[p]}
      BY <1>3, <1>4, <2>6, <3>3
    <3> QED BY <2>5, <3>1, <3>2, <3>3
  <2>7. ASSUME NEW x, \/ x = acked'
                      \/ \E n \in Member : x = sync'[n].doc.file \/ x = sync'[n].doc.tomb
        PROVE  Kept(x)'
    BY <1>3, <2>1, <2>4, <2>6, <2>7
  <2>8. /\ Kept(acked)' /\ \A n \in Member : Kept(sync[n].doc.file)' /\ Kept(sync[n].doc.tomb)'
    BY <2>7 DEF Kept
  <2> QED BY <2>3, <2>4, <2>5, <2>8 DEF KnownInv
\* The edits.
<1>6. ASSUME NEW c \in calls, CallStep(c) PROVE KnownInv'
  <2>1. sync' = sync
    BY <1>6 DEF CallStep, PromoteWrite, PromoteApply, DeleteFile, DeleteRecord, DeleteUnroute
  <2>2. acked' = acked \/ (acked' = Later(acked, c.at) /\ (PromoteApply(c) \/ DeleteUnroute(c)))
    BY <1>6 DEF CallStep, PromoteWrite, PromoteApply, DeleteFile, DeleteRecord, DeleteUnroute, Answer
  <2>3. acked' = acked \/ (acked' = c.at /\ (PromoteApply(c) \/ DeleteUnroute(c)))
    BY <1>0, <2>2 DEF Later
  <2>4. ASSUME NEW x, x = acked' PROVE Kept(x)'
    <3>1. CASE acked' = acked
      BY <1>3, <2>4, <3>1
    <3>2. CASE acked' = c.at /\ (PromoteApply(c) \/ DeleteUnroute(c))
      <4>1. EditOK(c) /\ file' = file /\ tomb' = tomb /\ c.pc \in {"apply", "unroute"}
        BY <3>2 DEF KnownInv, PromoteApply, DeleteUnroute
      <4>2. c.member \in Member /\ c.at \in Nat /\ file[c.member] \in Nat /\ tomb[c.member] \in Nat
        BY <1>0
      <4>3. Knows(c.member) >= c.at
        BY <1>0, <4>1, <4>2 DEF EditOK
      <4>4. Knows(c.member)' = Knows(c.member)
        BY <4>1 DEF Knows
      <4> QED BY <2>4, <3>2, <4>2, <4>3, <4>4 DEF Kept
    <3> QED BY <2>3, <3>1, <3>2
  <2>5. ASSUME NEW m \in Member, sync[m].pc = "remove" PROVE sync[m].doc.tomb > file'[m]
    <3>1. c.member # m /\ c.member \in Member
      BY <1>0, <2>5, MergingAlone DEF Merging
    <3>2. file'[m] = file[m]
      BY <1>6, <3>1 DEF CallStep, PromoteWrite, PromoteApply, DeleteFile, DeleteRecord,
         DeleteUnroute, DeleteProdByID, WriteProd, TypeOK
    <3> QED BY <2>5, <3>2 DEF KnownInv
  <2>6. Kept(acked)' /\ \A n \in Member : Kept(sync[n].doc.file)' /\ Kept(sync[n].doc.tomb)'
    BY <1>3, <2>1, <2>4 DEF Kept
  <2>7. \A d \in calls' : EditOK(d)'
    BY <1>6, CallEditOK
  <2> QED BY <2>1, <2>5, <2>6, <2>7 DEF KnownInv
<1>7. ASSUME NEW m \in Member, StartPromote(m) \/ StartDelete(m) PROVE KnownInv'
  <2>1. PICK kind, pc : pc \in {"write", "remove"} /\ StartCall(m, kind, pc)
    BY <1>7 DEF StartPromote, StartDelete
  <2> DEFINE x == [member |-> m, kind |-> kind, at |-> clock + 1, pc |-> pc]
  <2>2. UNCHANGED <<file, tomb, sync, acked>> /\ calls' = calls \cup {x}
    BY <2>1 DEF StartCall
  <2>3. x.member = m /\ x.at = clock + 1 /\ x.pc \in {"write", "remove"}
    BY <2>1
  <2> HIDE DEF x
  <2>4. x.at > file[m]
    BY <1>0, <2>3 DEF Stamp
  <2>5. \A c \in calls' : EditOK(c)'
    BY <2>2, <2>3, <2>4 DEF KnownInv, EditOK
  <2>6. Kept(acked)' /\ \A n \in Member : Kept(sync[n].doc.file)' /\ Kept(sync[n].doc.tomb)'
    BY <1>3, <2>2 DEF Kept
  <2> QED BY <2>2, <2>5, <2>6 DEF KnownInv
<1>8. ASSUME NEW m \in Member, Restart(m) PROVE KnownInv'
  <2>1. file' = file /\ tomb' = tomb /\ acked' = acked /\ calls' \subseteq calls
    BY <1>8 DEF Restart
  <2>2. \A c \in calls' : EditOK(c)'
    BY <2>1 DEF KnownInv, EditOK
  <2>3. sync'[m] = Idle(m, {}) /\ \A n \in Member \ {m} : sync'[n] = sync[n]
    BY <1>8 DEF Restart, Becomes, TypeOK
  <2>4. sync'[m].pc = "idle" /\ sync'[m].doc.file = 0 /\ sync'[m].doc.tomb = 0
    BY <2>3 DEF Idle, NoDoc
  <2>5. Kept(acked)' /\ \A n \in Member : Kept(sync[n].doc.file)' /\ Kept(sync[n].doc.tomb)'
    <3>1. ASSUME NEW x, \/ x = acked'
                        \/ \E n \in Member : x = sync'[n].doc.file \/ x = sync'[n].doc.tomb
          PROVE  Kept(x)'
      BY <1>2, <1>3, <2>1, <2>3, <2>4, <3>1
    <3> QED BY <3>1 DEF Kept
  <2> QED BY <2>1, <2>2, <2>3, <2>4, <2>5 DEF KnownInv
<1>9. ASSUME UNCHANGED <<file, tomb, calls, sync, acked>> PROVE KnownInv'
  <2>1. Kept(acked)' /\ \A n \in Member : Kept(sync[n].doc.file)' /\ Kept(sync[n].doc.tomb)'
    BY <1>3, <1>9 DEF Kept
  <2> QED BY <1>9, <2>1 DEF KnownInv, EditOK
<1>10. CASE \E m \in Member : SaveCacheNow(m)
  BY <1>9, <1>10 DEF SaveCacheNow
<1>11. CASE UNCHANGED vars
  BY <1>9, <1>11 DEF vars
<1> QED BY <1>5, <1>6, <1>7, <1>8, <1>10, <1>11 DEF Next, SyncStep, QuietStep

LEMMA InitKnownInv == Init => KnownInv
<1> SUFFICES ASSUME Init PROVE KnownInv
  OBVIOUS
<1>1. PICK m \in Member : TRUE
  BY MemberAssumption
<1>2. Knows(m) >= 0
  BY DEF Init, Knows, Later
<1>3. Kept(0)
  BY <1>2 DEF Kept
<1>4. calls = {} /\ acked = 0
  BY DEF Init
<1>5. \A n \in Member : sync[n].doc.file = 0 /\ sync[n].doc.tomb = 0 /\ sync[n].pc = "idle"
  BY DEF Init, Idle, NoDoc
<1> QED BY <1>3, <1>4, <1>5 DEF KnownInv

\* In a group whose members do not edit and merge at the same time, everything that was
\* answered, and everything members are telling each other, is known to a member, or
\* belongs to a deletion that is halfway through or was stopped there.
THEOREM KnownInvariant ==
  ASSUME ~Concurrent
  PROVE  Spec => []KnownInv
<1>1. Init => TypeOK /\ MergeInv /\ KnownInv
  BY InitTypeOK, InitMergeInv, InitKnownInv
<1>2. TypeOK /\ MergeInv /\ KnownInv /\ [Next]_vars => TypeOK' /\ MergeInv' /\ KnownInv'
  BY NextTypeOK, NextMergeInv, NextKnownInv
<1> QED BY <1>1, <1>2, PTL DEF Spec

\* In such a group no answered edit is forgotten, whatever is merged, lost or restarted,
\* except for a later deletion that is under way or was stopped halfway.
THEOREM AnsweredKept ==
  ASSUME ~Concurrent
  PROVE  Spec => []NothingLost
<1>1. TypeOK /\ KnownInv => NothingLost
  <2> SUFFICES ASSUME TypeOK, KnownInv PROVE NothingLost
    OBVIOUS
  <2>1. \A c \in calls : c.pc = "record" => c.kind = "delete"
    BY DEF TypeOK, Call
  <2> QED BY <2>1 DEF KnownInv, Kept, NothingLost
<1> QED BY <1>1, TypeCorrect, KnownInvariant, PTL

---------------------------------------------------------------------------
(* One instant, one edit *)

LEMMA BoundedStamps ==
  ASSUME TypeOK
  PROVE  clock \in Nat /\ Versions \subseteq 0..clock /\ Deletions \subseteq 0..clock
BY StampsAreNumbers DEF Versions, Deletions, Stamp

\* The stamps after a step, where each of them is.
LEMMA NewStamps ==
  ASSUME NEW V, NEW D,
         \A m \in Member : /\ file'[m] \in V /\ sync'[m].doc.file \in V
                           /\ tomb'[m] \in D /\ sync'[m].doc.tomb \in D,
         \A c \in calls' : /\ c.kind = "promote" => c.at \in V
                           /\ c.kind = "delete" => c.at \in D
  PROVE  Versions' \subseteq V /\ Deletions' \subseteq D
BY DEF Versions, Deletions

LEMMA OldStamps ==
  /\ \A m \in Member : /\ file[m] \in Versions /\ sync[m].doc.file \in Versions
                       /\ tomb[m] \in Deletions /\ sync[m].doc.tomb \in Deletions
  /\ \A c \in calls : /\ c.kind = "promote" => c.at \in Versions
                      /\ c.kind = "delete" => c.at \in Deletions
BY DEF Versions, Deletions

\* What a goroutine or a handler writes, records or fetches bore its stamp before.
LEMMA MergeStamps ==
  ASSUME TypeOK, NEW m \in Member, QuietStep(m) \/ MergeStep(m)
  PROVE  Versions' \subseteq Versions \cup {0} /\ Deletions' \subseteq Deletions \cup {0}
<1> DEFINE V == Versions \cup {0}
           D == Deletions \cup {0}
<1>1. /\ \A n \in Member : file[n] \in V /\ sync[n].doc.file \in V
      /\ \A n \in Member : tomb[n] \in D /\ sync[n].doc.tomb \in D
      /\ \A c \in calls : (c.kind = "promote" => c.at \in V) /\ (c.kind = "delete" => c.at \in D)
      /\ 0 \in V /\ 0 \in D
  BY OldStamps
<1> HIDE DEF V, D
<1>2. calls' = calls
  BY DEF QuietStep, StartRound, StartPull, SendRequest, ServeList, ServeTombs, FailPull,
         MergeStep, ListLocal, SnapTombs, MergeRemove, MergeRecord, MergeUnroute,
         MergeLearn, MergeWrite, MergeClear, MergeApply
<1>3. \A n \in Member : file'[n] \in {file[n], 0, sync[m].doc.file}
  BY DEF QuietStep, StartRound, StartPull, SendRequest, ServeList, ServeTombs, FailPull,
         MergeStep, ListLocal, SnapTombs, MergeRemove, MergeRecord, MergeUnroute,
         MergeLearn, MergeWrite, MergeClear, MergeApply, WriteProd, DeleteProdByID, TypeOK
<1>4. \A n \in Member : tomb'[n] \in {tomb[n], 0, sync[m].doc.tomb}
  BY DEF QuietStep, StartRound, StartPull, SendRequest, ServeList, ServeTombs, FailPull,
         MergeStep, ListLocal, SnapTombs, MergeRemove, MergeRecord, MergeUnroute,
         MergeLearn, MergeWrite, MergeClear, MergeApply, RecordTombstone, ClearTombstone, Later,
         TypeOK
<1>5. \A n \in Member : sync'[n].doc.file \in V /\ sync'[n].doc.tomb \in D
  <2>1. \A n \in Member \ {m} : sync'[n] = sync[n]
    BY QuietDoc
  <2>2. \/ sync'[m].doc = sync[m].doc
        \/ sync'[m].doc = NoDoc
        \/ \E p \in Member : /\ sync'[m].doc.file \in {sync[m].doc.file, file[p]}
                             /\ sync'[m].doc.tomb \in {sync[m].doc.tomb, tomb[p]}
    BY QuietDoc
  <2>3. sync'[m].doc.file \in V /\ sync'[m].doc.tomb \in D
    BY <1>1, <2>2 DEF NoDoc
  <2> QED BY <1>1, <2>1, <2>3
<1>6. \A n \in Member : file'[n] \in V /\ tomb'[n] \in D
  BY <1>1, <1>3, <1>4
<1>7. \A d \in calls' : (d.kind = "promote" => d.at \in V) /\ (d.kind = "delete" => d.at \in D)
  BY <1>1, <1>2
<1>8. Versions' \subseteq V /\ Deletions' \subseteq D
  BY <1>5, <1>6, <1>7, NewStamps
<1> QED BY <1>8 DEF V, D

LEMMA CallStamps ==
  ASSUME TypeOK, NEW c \in calls, CallStep(c)
  PROVE  Versions' \subseteq Versions \cup {0} /\ Deletions' \subseteq Deletions \cup {0}
<1> DEFINE V == Versions \cup {0}
           D == Deletions \cup {0}
<1>1. /\ \A n \in Member : file[n] \in V /\ sync[n].doc.file \in V
      /\ \A n \in Member : tomb[n] \in D /\ sync[n].doc.tomb \in D
      /\ \A d \in calls : (d.kind = "promote" => d.at \in V) /\ (d.kind = "delete" => d.at \in D)
      /\ 0 \in V /\ 0 \in D
  BY OldStamps
<1> HIDE DEF V, D
<1>2. c \in Call /\ c.member \in Member
  BY DEF TypeOK, Call
<1>3. sync' = sync
  BY DEF CallStep, PromoteWrite, PromoteApply, DeleteFile, DeleteRecord, DeleteUnroute
<1>4. \A d \in calls' : d \in calls \/ (d.kind = c.kind /\ d.at = c.at)
  <2>1. \A pc : [c EXCEPT !.pc = pc].kind = c.kind /\ [c EXCEPT !.pc = pc].at = c.at
    BY <1>2 DEF Call
  <2> QED BY <2>1 DEF CallStep, PromoteWrite, PromoteApply, DeleteFile, DeleteRecord,
                      DeleteUnroute, Advance, Answer
<1>5. \A d \in calls' : (d.kind = "promote" => d.at \in V) /\ (d.kind = "delete" => d.at \in D)
  BY <1>1, <1>4
<1>6. \A n \in Member : file'[n] \in V
  <2>1. c.pc = "write" => c.at \in V
    BY <1>1, <1>2 DEF Call
  <2> QED BY <1>1, <1>2, <2>1 DEF CallStep, PromoteWrite, PromoteApply, DeleteFile, DeleteRecord,
                             DeleteUnroute, WriteProd, DeleteProdByID, TypeOK
<1>7. \A n \in Member : tomb'[n] \in D
  <2>1. c.pc = "record" => c.at \in D
    BY <1>1, <1>2 DEF Call
  <2> QED BY <1>1, <1>2, <2>1 DEF CallStep, PromoteWrite, PromoteApply, DeleteFile, DeleteRecord,
                             DeleteUnroute, RecordTombstone, Later, TypeOK
<1>8. Versions' \subseteq V /\ Deletions' \subseteq D
  BY <1>1, <1>3, <1>5, <1>6, <1>7, NewStamps
<1> QED BY <1>8 DEF V, D

LEMMA ProcessStamps ==
  ASSUME TypeOK, NEW m \in Member, SaveCacheNow(m) \/ Restart(m)
  PROVE  Versions' \subseteq Versions \cup {0} /\ Deletions' \subseteq Deletions \cup {0}
<1>1. file' = file /\ tomb' = tomb /\ calls' \subseteq calls
  BY DEF SaveCacheNow, Restart
<1>2. \A n \in Member : sync'[n].doc = sync[n].doc \/ sync'[n].doc = NoDoc
  BY DEF SaveCacheNow, Restart, Becomes, Idle, TypeOK
<1>3. \A n \in Member : /\ sync'[n].doc.file \in Versions \cup {0}
                        /\ sync'[n].doc.tomb \in Deletions \cup {0}
  BY <1>2, OldStamps DEF NoDoc
<1> QED BY <1>1, <1>3, OldStamps, NewStamps

\* An edit that begins has a stamp of its own.
LEMMA StartOneEdit ==
  ASSUME TypeOK, OneEdit, NEW m \in Member, StartPromote(m) \/ StartDelete(m)
  PROVE  OneEdit'
<1>1. PICK kind, pc : /\ <<kind, pc>> \in {<<"promote", "write">>, <<"delete", "remove">>}
                      /\ StartCall(m, kind, pc)
  BY DEF StartPromote, StartDelete
<1> DEFINE x == [member |-> m, kind |-> kind, at |-> clock + 1, pc |-> pc]
<1>2. UNCHANGED <<file, tomb, sync>> /\ calls' = calls \cup {x}
  BY <1>1 DEF StartCall
<1>3. x.kind = kind /\ x.at = clock + 1
  OBVIOUS
<1> HIDE DEF x
<1>4. CASE kind = "promote"
  <2> DEFINE V == Versions \cup {clock + 1}
             D == Deletions
  <2>0. /\ \A n \in Member : /\ file'[n] \in V /\ sync'[n].doc.file \in V
                             /\ tomb'[n] \in D /\ sync'[n].doc.tomb \in D
        /\ \A c \in calls' : (c.kind = "promote" => c.at \in V) /\ (c.kind = "delete" => c.at \in D)
    BY <1>2, <1>3, <1>4, OldStamps
  <2> HIDE DEF V, D
  <2>1. Versions' \subseteq V /\ Deletions' \subseteq D
    BY <2>0, NewStamps
  <2>2. clock + 1 \notin Deletions
    BY BoundedStamps
  <2> QED BY <2>1, <2>2 DEF OneEdit, V, D
<1>5. CASE kind = "delete"
  <2> DEFINE V == Versions
             D == Deletions \cup {clock + 1}
  <2>0. /\ \A n \in Member : /\ file'[n] \in V /\ sync'[n].doc.file \in V
                             /\ tomb'[n] \in D /\ sync'[n].doc.tomb \in D
        /\ \A c \in calls' : (c.kind = "promote" => c.at \in V) /\ (c.kind = "delete" => c.at \in D)
    BY <1>2, <1>3, <1>5, OldStamps
  <2> HIDE DEF V, D
  <2>1. Versions' \subseteq V /\ Deletions' \subseteq D
    BY <2>0, NewStamps
  <2>2. clock + 1 \notin Versions
    BY BoundedStamps
  <2> QED BY <2>1, <2>2 DEF OneEdit, V, D
<1> QED BY <1>1, <1>4, <1>5

LEMMA OneEditStep == TypeOK /\ OneEdit /\ [Next]_vars => OneEdit'
<1> SUFFICES ASSUME TypeOK, OneEdit, [Next]_vars PROVE OneEdit'
  OBVIOUS
<1>1. CASE Versions' \subseteq Versions \cup {0} /\ Deletions' \subseteq Deletions \cup {0}
  BY <1>1 DEF OneEdit
<1>2. CASE \E m \in Member : StartPromote(m) \/ StartDelete(m)
  BY <1>2, StartOneEdit
<1>3. CASE \E c \in calls : CallStep(c)
  BY <1>1, <1>3, CallStamps
<1>4. CASE \E m \in Member : SyncStep(m) \/ FailPull(m)
  BY <1>1, <1>4, MergeStamps DEF SyncStep, QuietStep
<1>5. CASE \E m \in Member : SaveCacheNow(m) \/ Restart(m)
  BY <1>1, <1>5, ProcessStamps
<1>6. CASE UNCHANGED vars
  BY <1>6 DEF vars, OneEdit, Versions, Deletions
<1> QED BY <1>2, <1>3, <1>4, <1>5, <1>6 DEF Next

LEMMA InitOneEdit == Init => OneEdit
BY DEF Init, OneEdit, Versions, Idle, NoDoc

\* Two members with different versions have something to take: the later version is adopted,
\* unless a deletion is known that is later still, and then that removes the version.
LEMMA DifferentTakes ==
  ASSUME TypeOK, OneEdit, NEW m \in Member, NEW p \in Member,
         NothingToTake(m, p), NothingToTake(p, m), file[m] < file[p]
  PROVE  FALSE
<1> DEFINE t == [Idle(m, {}) EXCEPT !.doc = [file |-> file[p], tomb |-> tomb[p]],
                                    !.local = file[m], !.tombs = tomb[m]]
           u == [Idle(p, {}) EXCEPT !.doc = [file |-> file[m], tomb |-> tomb[m]],
                                    !.local = file[p], !.tombs = tomb[p]]
<1>1. t.doc.file = file[p] /\ t.local = file[m] /\ t.tombs = tomb[m]
  BY DEF Idle
<1>2. u.doc.tomb = tomb[m] /\ u.local = file[p]
  BY DEF Idle
<1>3. ~Adopts(t) /\ ~Removes(u)
  BY DEF NothingToTake
<1> HIDE DEF t, u
<1>4. file[m] \in Nat /\ file[p] \in Nat /\ tomb[m] \in Nat
  BY StampsAreNumbers
<1>5. file[p] <= tomb[m]
  BY <1>1, <1>3, <1>4 DEF Adopts
<1>6. tomb[m] <= file[p]
  BY <1>2, <1>3, <1>4 DEF Removes
<1>7. file[p] = tomb[m] /\ file[p] # 0
  BY <1>4, <1>5, <1>6
<1> QED BY <1>7, OldStamps DEF OneEdit

\* A version and a deletion never bear the same stamp, wherever they are, so that each
\* comparison mergeProxyReplica makes of the two has an answer.
THEOREM EditsApart == Spec => []OneEdit
<1> QED BY InitTypeOK, InitOneEdit, NextTypeOK, OneEditStep, PTL DEF Spec

\* Whatever overlapped, failed or restarted: members none of which has anything to take from
\* another (mergeProxyReplica) have the same version in production, or none.
THEOREM MembersSettle == Spec => []MembersAlike
<1>1. TypeOK /\ OneEdit => MembersAlike
  <2> SUFFICES ASSUME TypeOK, OneEdit, \A m, p \in Member : NothingToTake(m, p),
                      NEW m \in Member, NEW p \in Member
               PROVE  file[m] = file[p]
    BY DEF MembersAlike
  <2>1. file[m] \in Nat /\ file[p] \in Nat
    BY StampsAreNumbers
  <2>2. ~(file[m] < file[p]) /\ ~(file[p] < file[m])
    BY DifferentTakes
  <2> QED BY <2>1, <2>2
<1> QED BY <1>1, TypeCorrect, EditsApart, PTL

---------------------------------------------------------------------------
(* What a member knows never goes back *)

\* The parts of what a member knows, before a step and after it.
LEMMA KnowingParts ==
  ASSUME NEW n \in Member, NEW at \in Knowing(n)
  PROVE  \/ at = file[n] \/ at = tomb[n]
         \/ \E c \in calls : c.member = n /\ c.pc = "record" /\ at = c.at
         \/ sync[n].pc = "record" /\ at = sync[n].doc.tomb
BY DEF Knowing, CallsOf

LEMMA KnowingAfter ==
  ASSUME NEW n \in Member
  PROVE  /\ file'[n] \in Knowing(n)' /\ tomb'[n] \in Knowing(n)'
         /\ \A c \in calls' : c.member = n /\ c.pc = "record" => c.at \in Knowing(n)'
         /\ sync'[n].pc = "record" => sync'[n].doc.tomb \in Knowing(n)'
BY DEF Knowing, CallsOf

\* Something as late is known after a step as each part of what was known before.
Onward(n) == \A at \in Knowing(n) : \E new \in Knowing(n)' : new >= at

LEMMA OnwardParts ==
  ASSUME TypeOK, NEW n \in Member,
         \E new \in Knowing(n)' : new >= file[n],
         \E new \in Knowing(n)' : new >= tomb[n],
         \A c \in calls : c.member = n /\ c.pc = "record" => \E new \in Knowing(n)' : new >= c.at,
         sync[n].pc = "record" => \E new \in Knowing(n)' : new >= sync[n].doc.tomb
  PROVE  Onward(n)
<1> SUFFICES ASSUME NEW at \in Knowing(n) PROVE \E new \in Knowing(n)' : new >= at
  BY DEF Onward
<1> QED BY KnowingParts

\* The deletions about to be recorded by handlers are kept.
LEMMA RecordsKept ==
  ASSUME TypeOK, NEW n \in Member, NEW c \in calls, c.member = n, c.pc = "record", c \in calls'
  PROVE  \E new \in Knowing(n)' : new >= c.at
<1>1. c.at \in Nat
  BY StampsAreNumbers
<1> QED BY <1>1, KnowingAfter

\* A member whose stores and goroutine a step leaves alone.
LEMMA OnwardSame ==
  ASSUME TypeOK, NEW n \in Member, file'[n] = file[n], tomb'[n] = tomb[n],
         \A c \in calls : c.member = n /\ c.pc = "record" => c \in calls',
         sync[n].pc = "record" => sync'[n] = sync[n]
  PROVE  Onward(n)
<1>1. file[n] \in Nat /\ tomb[n] \in Nat /\ sync[n].doc.tomb \in Nat
  BY StampsAreNumbers
<1>2. (\E new \in Knowing(n)' : new >= file[n]) /\ (\E new \in Knowing(n)' : new >= tomb[n])
  BY <1>1, KnowingAfter
<1>3. sync[n].pc = "record" => \E new \in Knowing(n)' : new >= sync[n].doc.tomb
  BY <1>1, KnowingAfter
<1> QED BY <1>2, <1>3, RecordsKept, OnwardParts

LEMMA MergeOnward ==
  ASSUME TypeOK, TypeOK', MergeInv, KnownInv, NEW m \in Member, MergeStep(m), NEW n \in Member
  PROVE  Onward(n)
<1>1. calls' = calls
  BY DEF MergeStep, ListLocal, SnapTombs, MergeRemove, MergeRecord, MergeUnroute, MergeLearn,
         MergeWrite, MergeClear, MergeApply
<1>2. CASE n # m
  <2>1. file'[n] = file[n] /\ tomb'[n] = tomb[n]
    BY <1>2 DEF MergeStep, ListLocal, SnapTombs, MergeRemove, MergeRecord, MergeUnroute, MergeLearn,
           MergeWrite, MergeClear, MergeApply, DeleteProdByID, RecordTombstone, WriteProd,
           ClearTombstone, TypeOK
  <2>2. sync'[n] = sync[n]
    BY <1>2, QuietDoc
  <2> QED BY <1>1, <2>1, <2>2, OnwardSame
<1>3. CASE n = m
  <2>1. /\ file[m] \in Nat /\ tomb[m] \in Nat
        /\ sync[m].doc.file \in Nat /\ sync[m].doc.tomb \in Nat
    BY StampsAreNumbers
  <2>2. MergeOK(m) /\ (file[m] # 0 => file[m] > tomb[m])
    BY DEF MergeInv, DeletedStaysDeleted
  <2>3. \A c \in calls : c.member = m /\ c.pc = "record" => \E new \in Knowing(m)' : new >= c.at
    BY <1>1, RecordsKept
  <2>4. CASE MergeRemove(m)
    <3>1. tomb'[m] = tomb[m] /\ sync[m].pc = "remove" /\ sync[m].doc.tomb > file[m]
      BY <2>4 DEF MergeRemove, KnownInv
    <3>2. sync'[m].pc = "record" /\ sync'[m].doc.tomb = sync[m].doc.tomb
      BY <2>4 DEF MergeRemove, Becomes, TypeOK, Task
    <3>3. \E new \in Knowing(m)' : new >= file[m]
      BY <2>1, <3>1, <3>2, KnowingAfter
    <3>4. \E new \in Knowing(m)' : new >= tomb[m]
      BY <2>1, <3>1, KnowingAfter
    <3> QED BY <1>3, <2>3, <3>1, <3>3, <3>4, OnwardParts
  <2>5. CASE MergeRecord(m) \/ MergeLearn(m)
    <3>1. file'[m] = file[m] /\ tomb'[m] = Later(tomb[m], sync[m].doc.tomb)
      BY <2>5 DEF MergeRecord, MergeLearn, RecordTombstone, TypeOK
    <3>2. tomb'[m] >= tomb[m] /\ tomb'[m] >= sync[m].doc.tomb
      BY <2>1, <3>1, LaterNat
    <3>3. \E new \in Knowing(m)' : new >= file[m]
      BY <2>1, <3>1, KnowingAfter
    <3>4. /\ \E new \in Knowing(m)' : new >= tomb[m]
          /\ \E new \in Knowing(m)' : new >= sync[m].doc.tomb
      BY <3>2, KnowingAfter
    <3> QED BY <1>3, <2>3, <3>3, <3>4, OnwardParts
  <2>6. CASE MergeWrite(m)
    <3>1. tomb'[m] = tomb[m] /\ file'[m] = sync[m].doc.file /\ sync[m].pc = "write"
      BY <2>6 DEF MergeWrite, WriteProd, TypeOK
    <3>2. file'[m] > file[m]
      BY <2>2, <3>1 DEF MergeOK
    <3>3. \E new \in Knowing(m)' : new >= file[m]
      BY <2>1, <3>1, <3>2, KnowingAfter
    <3>4. \E new \in Knowing(m)' : new >= tomb[m]
      BY <2>1, <3>1, KnowingAfter
    <3> QED BY <1>3, <2>3, <3>1, <3>3, <3>4, OnwardParts
  <2>7. CASE MergeClear(m)
    <3>1. file'[m] = file[m] /\ sync[m].pc = "clear" /\ file[m] > tomb[m]
      BY <2>2, <2>7 DEF MergeClear, MergeOK
    <3>2. /\ \E new \in Knowing(m)' : new >= file[m]
          /\ \E new \in Knowing(m)' : new >= tomb[m]
      BY <2>1, <3>1, KnowingAfter
    <3> QED BY <1>3, <2>3, <3>1, <3>2, OnwardParts
  <2>8. CASE ListLocal(m) \/ SnapTombs(m) \/ MergeUnroute(m) \/ MergeApply(m)
    <3>1. file' = file /\ tomb' = tomb /\ sync[m].pc # "record"
      BY <2>8 DEF ListLocal, SnapTombs, MergeUnroute, MergeApply
    <3> QED BY <1>1, <1>3, <3>1, OnwardSame
  <2> QED BY <2>4, <2>5, <2>6, <2>7, <2>8 DEF MergeStep
<1> QED BY <1>2, <1>3

LEMMA CallOnward ==
  ASSUME TypeOK, TypeOK', MergeInv, KnownInv, NEW c \in calls, CallStep(c), NEW n \in Member
  PROVE  Onward(n)
<1> DEFINE m == c.member
<1>1. sync' = sync
  BY DEF CallStep, PromoteWrite, PromoteApply, DeleteFile, DeleteRecord, DeleteUnroute
<1>2. /\ m \in Member /\ c \in Call /\ c.at \in Nat /\ file[m] \in Nat /\ tomb[m] \in Nat
      /\ sync[m].doc.tomb \in Nat
  BY StampsAreNumbers
<1>3. \A d \in calls : d # c => d \in calls'
  BY DEF CallStep, PromoteWrite, PromoteApply, DeleteFile, DeleteRecord, DeleteUnroute,
         Advance, Answer
<1>4. CASE n # m
  <2>1. file'[n] = file[n] /\ tomb'[n] = tomb[n]
    BY <1>4 DEF CallStep, PromoteWrite, PromoteApply, DeleteFile, DeleteRecord, DeleteUnroute,
           DeleteProdByID, WriteProd, RecordTombstone, TypeOK
  <2>2. \A d \in calls : d.member = n /\ d.pc = "record" => d \in calls'
    BY <1>3, <1>4
  <2> QED BY <1>1, <2>1, <2>2, OnwardSame
<1>5. CASE n = m
  <2>1. CallOK(c) /\ EditOK(c)
    BY DEF MergeInv, KnownInv
  <2>2. sync[m].pc = "record" => \E new \in Knowing(m)' : new >= sync[m].doc.tomb
    BY <1>1, <1>2, KnowingAfter
  <2>3. \A d \in calls : d # c /\ d.member = m /\ d.pc = "record" =>
          \E new \in Knowing(m)' : new >= d.at
    BY <1>2, <1>3, RecordsKept
  <2>4. CASE PromoteWrite(c)
    <3>1. tomb'[m] = tomb[m] /\ file'[m] = c.at /\ c.pc = "write"
      BY <1>2, <2>4 DEF PromoteWrite, WriteProd, TypeOK
    <3>2. c.at > file[m]
      BY <2>1, <3>1 DEF CallOK
    <3>3. \E new \in Knowing(m)' : new >= file[m]
      BY <1>2, <3>1, <3>2, KnowingAfter
    <3>4. \E new \in Knowing(m)' : new >= tomb[m]
      BY <1>2, <3>1, KnowingAfter
    <3>5. \A d \in calls : d.member = m /\ d.pc = "record" => \E new \in Knowing(m)' : new >= d.at
      BY <2>3, <3>1
    <3> QED BY <1>2, <1>5, <2>2, <3>3, <3>4, <3>5, OnwardParts
  <2>5. CASE PromoteApply(c) \/ DeleteUnroute(c)
    <3>1. file' = file /\ tomb' = tomb /\ c.pc # "record"
      BY <2>5 DEF PromoteApply, DeleteUnroute
    <3>2. \A d \in calls : d.member = n /\ d.pc = "record" => d \in calls'
      BY <1>3, <3>1
    <3> QED BY <1>1, <3>1, <3>2, OnwardSame
  <2>6. CASE DeleteFile(c)
    <3> DEFINE d == [c EXCEPT !.pc = "record"]
    <3>1. tomb'[m] = tomb[m] /\ c.pc = "remove" /\ d \in calls'
      BY <2>6 DEF DeleteFile, Advance
    <3>2. d.member = m /\ d.pc = "record" /\ d.at = c.at
      BY <1>2 DEF Call
    <3> HIDE DEF d
    <3>3. c.at > file[m]
      BY <2>1, <3>1 DEF EditOK
    <3>4. c.at \in Knowing(m)'
      BY <1>2, <3>1, <3>2, KnowingAfter
    <3>5. \E new \in Knowing(m)' : new >= file[m]
      BY <1>2, <3>3, <3>4
    <3>6. \E new \in Knowing(m)' : new >= tomb[m]
      BY <1>2, <3>1, KnowingAfter
    <3>7. \A e \in calls : e.member = m /\ e.pc = "record" => \E new \in Knowing(m)' : new >= e.at
      BY <2>3, <3>1
    <3> QED BY <1>2, <1>5, <2>2, <3>5, <3>6, <3>7, OnwardParts
  <2>7. CASE DeleteRecord(c)
    <3>1. file'[m] = file[m] /\ tomb'[m] = Later(tomb[m], c.at)
      BY <1>2, <2>7 DEF DeleteRecord, RecordTombstone, TypeOK
    <3>2. tomb'[m] >= tomb[m] /\ tomb'[m] >= c.at
      BY <1>2, <3>1, LaterNat
    <3>3. \E new \in Knowing(m)' : new >= file[m]
      BY <1>2, <3>1, KnowingAfter
    <3>4. (\E new \in Knowing(m)' : new >= tomb[m]) /\ (\E new \in Knowing(m)' : new >= c.at)
      BY <1>2, <3>2, KnowingAfter
    <3>5. \A e \in calls : e.member = m /\ e.pc = "record" => \E new \in Knowing(m)' : new >= e.at
      BY <2>3, <3>4
    <3> QED BY <1>2, <1>5, <2>2, <3>3, <3>4, <3>5, OnwardParts
  <2> QED BY <2>4, <2>5, <2>6, <2>7 DEF CallStep
<1> QED BY <1>4, <1>5

LEMMA NextOnward ==
  ASSUME TypeOK, TypeOK', MergeInv, KnownInv, [Next]_vars, restarts' = restarts, NEW n \in Member
  PROVE  Onward(n)
<1>1. CASE \E m \in Member : StartPromote(m) \/ StartDelete(m)
  <2>1. UNCHANGED <<file, tomb, sync>> /\ calls \subseteq calls'
    BY <1>1 DEF StartPromote, StartDelete, StartCall
  <2> QED BY <2>1, OnwardSame
<1>2. CASE \E c \in calls : CallStep(c)
  BY <1>2, CallOnward
<1>3. CASE \E m \in Member : QuietStep(m)
  <2>1. UNCHANGED <<file, tomb, calls>>
    BY <1>3 DEF QuietStep, StartRound, StartPull, SendRequest, ServeList, ServeTombs, FailPull,
           ListLocal, SnapTombs
  <2>2. sync[n].pc = "record" => sync'[n] = sync[n]
    <3>1. PICK m \in Member : QuietStep(m)
      BY <1>3
    <3>2. sync[m].pc # "record"
      BY <3>1 DEF QuietStep, StartRound, StartPull, SendRequest, ServeList, ServeTombs, FailPull,
             ListLocal, SnapTombs
    <3>3. n # m => sync'[n] = sync[n]
      BY <3>1, QuietDoc
    <3> QED BY <3>2, <3>3
  <2> QED BY <2>1, <2>2, OnwardSame
<1>4. CASE \E m \in Member : MergeStep(m)
  BY <1>4, MergeOnward
<1>5. CASE \E m \in Member : SaveCacheNow(m)
  <2>1. UNCHANGED <<file, tomb, calls, sync>>
    BY <1>5 DEF SaveCacheNow
  <2> QED BY <2>1, OnwardSame
<1>6. CASE \E m \in Member : Restart(m)
  <2>1. restarts' = restarts + 1 /\ restarts \in Nat
    BY <1>6, BoundAssumption DEF Restart, TypeOK
  <2> QED BY <2>1
<1>7. CASE UNCHANGED vars
  BY <1>7, OnwardSame DEF vars
<1> QED BY <1>1, <1>2, <1>3, <1>4, <1>5, <1>6, <1>7 DEF Next, SyncStep, QuietStep

\* In a group whose members do not edit and merge at the same time, what a member knows
\* never goes back: an edit, a merge (mergeProxyReplica) or a removal (removeFileProxy) only
\* replaces it by something later, a removal through the deletion it is about to record.
THEOREM KnowledgeGrows ==
  ASSUME ~Concurrent
  PROVE  Spec => NeverGoesBack
<1>1. TypeOK /\ TypeOK' /\ MergeInv /\ KnownInv /\ [Next]_vars =>
        (restarts' = restarts =>
           \A m \in Member : \A at \in Knowing(m) : \E new \in Knowing(m)' : new >= at)
  BY NextOnward DEF Onward
<1> QED BY <1>1, TypeCorrect, MergeInvariant, KnownInvariant, PTL DEF Spec, NeverGoesBack

==================================================================================
