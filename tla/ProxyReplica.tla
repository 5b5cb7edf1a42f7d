------------------------------ MODULE ProxyReplica ------------------------------
(***************************************************************************)
(* The configured proxies shared by the gateways of a high-availability    *)
(* group (internal/edge/proxy_replica.go, proxyfiles.go, proxyapi.go and    *)
(* proxystore/tombstones.go): what one proxy identifier becomes on every    *)
(* member when it is promoted, deleted and pulled from peers.  Identifiers  *)
(* are independent of each other, so one is enough.                         *)
(*                                                                         *)
(* A version of the proxy is its UpdatedAt, a deletion its DeletedAt: both  *)
(* are stamps of one clock, 0 when there is none.  The members' clocks are  *)
(* taken to be synchronised and no two edits to have the same instant.      *)
(*                                                                         *)
(* Every member runs one synchronisation goroutine, which pulls from its    *)
(* peers in turn, and any number of API handlers.  A step is one access to  *)
(* a file, to the tombstones or to the routing table, each of which has its *)
(* own lock; nothing holds a lock from one step to the next, except that    *)
(* Pipeline.mu keeps two promotions of a member apart while they write.     *)
(***************************************************************************)
EXTENDS Naturals, FiniteSets

CONSTANTS
  Member,       \* the gateways of the group
  MaxClock,     \* bound: how many edits the Administration makes
  MaxPulls,     \* bound: how many members pull at the same time
  MaxRestarts,  \* bound: how many times a member's process is restarted
  Enabled,      \* the versions whose envelope is enabled
  Concurrent    \* FALSE: a member starts no edit while it is merging a document
                \* or serving another edit, and no merge while it serves one

ASSUME MemberAssumption == IsFiniteSet(Member) /\ Member # {}
ASSUME BoundAssumption == {MaxClock, MaxPulls, MaxRestarts} \subseteq Nat
                          /\ Enabled \subseteq 1..MaxClock /\ Concurrent \in BOOLEAN

VARIABLES
  clock,     \* the instant of the last edit
  file,      \* the version in proxies/, per member
  tomb,      \* the deletion in tombstones.json
  table,     \* the version in the routing table
  cache,     \* the version in the routing table's encrypted copy on disk
  calls,     \* the promotions and deletions the API handlers are serving
  sync,      \* the synchronisation goroutine of each member
  restarts,
  acked,     \* history: the latest edit the API has answered
  cut        \* history: the deletions a restart has stopped halfway

vars == <<clock, file, tomb, table, cache, calls, sync, restarts, acked, cut>>

---------------------------------------------------------------------------
(* Data *)

\* The instants given so far; 0 stands for no version and no deletion.
Stamp == 0..clock

\* What a member exchanges: its version and the deletion it remembers.
Doc == [file : Stamp, tomb : Stamp]
NoDoc == [file |-> 0, tomb |-> 0]

Call == [member : Member, kind : {"promote"}, at : Stamp, pc : {"write", "apply"}]
          \cup [member : Member, kind : {"delete"}, at : Stamp,
                pc : {"remove", "record", "unroute"}]

\* The merge itself begins when the local files are listed.
Pulling == {"idle", "digest", "request", "serve"}
Merging == {"list", "snapshot", "remove", "record", "unroute", "learn",
            "write", "clear", "apply"}

\* have: what this member's digest covers; doc: the peer's answer; local and
\* tombs: the maps the merge works on; todo: the peers left in this round.
Task == [pc : Pulling \cup Merging, peer : Member, have : Doc, doc : Doc,
         local : Stamp, tombs : Stamp, todo : SUBSET Member]

Later(a, b) == IF a > b THEN a ELSE b

\* The routing table holds no disabled proxy.
Live(v) == IF v \in Enabled THEN v ELSE 0

\* Everything a member knows of the proxy.
Knows(m) == Later(file[m], tomb[m])

Idle(m, todo) == [pc |-> "idle", peer |-> m, have |-> NoDoc, doc |-> NoDoc,
                  local |-> 0, tombs |-> 0, todo |-> todo]

CallsOf(m) == {c \in calls : c.member = m}

\* The assumption Concurrent = FALSE makes of a member's work.
MayEdit(m) == Concurrent \/ (CallsOf(m) = {} /\ sync[m].pc \in Pulling)
MayMerge(m) == Concurrent \/ CallsOf(m) = {}

Init ==
  /\ clock = 0
  /\ file = [m \in Member |-> 0]
  /\ tomb = [m \in Member |-> 0]
  /\ table = [m \in Member |-> 0]
  /\ cache = [m \in Member |-> 0]
  /\ calls = {}
  /\ sync = [m \in Member |-> Idle(m, {})]
  /\ restarts = 0
  /\ acked = 0
  /\ cut = {}

---------------------------------------------------------------------------
(* The three stores of a member *)

WriteProd(m, v) == file' = [file EXCEPT ![m] = v]

\* Whatever version is there goes: a missing file is not an error.
DeleteProdByID(m) == file' = [file EXCEPT ![m] = 0]

\* An older deletion does not replace a newer one.
RecordTombstone(m, at) == tomb' = [tomb EXCEPT ![m] = Later(@, at)]

ClearTombstone(m) == tomb' = [tomb EXCEPT ![m] = 0]

\* Mutant: a disabled proxy is routed.
ApplyFileProxy_disabled(m, v) == table' = [table EXCEPT ![m] = v]

ApplyFileProxy(m, v) == table' = [table EXCEPT ![m] = Live(v)]

DeleteRoute(m) == table' = [table EXCEPT ![m] = 0]

---------------------------------------------------------------------------
(* Edits: handlePromoteProxyRevision and handleDeleteFileProxy *)

StartCall(m, kind, pc) ==
  /\ clock < MaxClock
  /\ MayEdit(m)
  /\ clock' = clock + 1
  /\ calls' = calls \cup {[member |-> m, kind |-> kind, at |-> clock + 1, pc |-> pc]}
  /\ UNCHANGED <<file, tomb, table, cache, sync, restarts, acked, cut>>

\* Promote takes the mutex and stamps the version it is about to write.
StartPromote(m) ==
  /\ \A c \in CallsOf(m) : c.pc # "write"
  /\ StartCall(m, "promote", "write")

\* The handler takes the instant of the deletion first.
StartDelete(m) == StartCall(m, "delete", "remove")

Advance(c, pc) == calls' = (calls \ {c}) \cup {[c EXCEPT !.pc = pc]}

Answer(c) == calls' = calls \ {c} /\ acked' = Later(acked, c.at)

\* The tombstone of an earlier deletion is left in place.
PromoteWrite(c) ==
  /\ c.pc = "write"
  /\ WriteProd(c.member, c.at)
  /\ Advance(c, "apply")
  /\ UNCHANGED <<clock, tomb, table, cache, sync, restarts, acked, cut>>

\* After Pipeline.mu is released.
PromoteApply(c) ==
  /\ c.pc = "apply"
  /\ ApplyFileProxy(c.member, c.at)
  /\ Answer(c)
  /\ UNCHANGED <<clock, file, tomb, cache, sync, restarts, cut>>

DeleteFile(c) ==
  /\ c.pc = "remove"
  /\ DeleteProdByID(c.member)
  /\ Advance(c, "record")
  /\ UNCHANGED <<clock, tomb, table, cache, sync, restarts, acked, cut>>

DeleteRecord(c) ==
  /\ c.pc = "record"
  /\ RecordTombstone(c.member, c.at)
  /\ Advance(c, "unroute")
  /\ UNCHANGED <<clock, file, table, cache, sync, restarts, acked, cut>>

DeleteUnroute(c) ==
  /\ c.pc = "unroute"
  /\ DeleteRoute(c.member)
  /\ Answer(c)
  /\ UNCHANGED <<clock, file, tomb, cache, sync, restarts, cut>>

CallStep(c) ==
  PromoteWrite(c) \/ PromoteApply(c) \/ DeleteFile(c) \/ DeleteRecord(c) \/ DeleteUnroute(c)

---------------------------------------------------------------------------
(* A pull: syncProxiesFromPeer and the peer's handleProxyReplicaExport *)

\* The goroutine of m goes on to its next step, with these changes to its task.
Becomes(m, t) == sync' = [sync EXCEPT ![m] = t]

\* The pull is over, whatever came of it.
Finish(m) == Becomes(m, Idle(m, sync[m].todo))

\* Mutant: a member is one of its own peers.
StartRound_self(m) ==
  /\ sync[m].pc = "idle" /\ sync[m].todo = {}
  /\ sync' = [sync EXCEPT ![m].todo = Member]
  /\ UNCHANGED <<clock, file, tomb, table, cache, calls, restarts, acked, cut>>

\* A new tick: syncPeersOnce goes through the peers again.
StartRound(m) ==
  /\ sync[m].pc = "idle" /\ sync[m].todo = {}
  /\ Member # {m}
  /\ Becomes(m, [sync[m] EXCEPT !.todo = Member \ {m}])
  /\ UNCHANGED <<clock, file, tomb, table, cache, calls, restarts, acked, cut>>

\* proxyReplicaDoc reads the files, then the tombstones: for the digest of the
\* asking member first, then for the answer.
StartPull(m, p) ==
  /\ sync[m].pc = "idle" /\ p \in sync[m].todo
  /\ Cardinality({n \in Member : sync[n].pc # "idle"}) < MaxPulls
  /\ Becomes(m, [sync[m] EXCEPT !.pc = "digest", !.peer = p, !.todo = @ \ {p},
                                !.have.file = file[m]])
  /\ UNCHANGED <<clock, file, tomb, table, cache, calls, restarts, acked, cut>>

SendRequest(m) ==
  /\ sync[m].pc = "digest"
  /\ Becomes(m, [sync[m] EXCEPT !.pc = "request", !.have.tomb = tomb[m]])
  /\ UNCHANGED <<clock, file, tomb, table, cache, calls, restarts, acked, cut>>

ServeList(m) ==
  /\ sync[m].pc = "request"
  /\ Becomes(m, [sync[m] EXCEPT !.pc = "serve", !.doc.file = file[sync[m].peer]])
  /\ UNCHANGED <<clock, file, tomb, table, cache, calls, restarts, acked, cut>>

\* Mutant: the digest tells presence, not versions.
SameDigest_presence(have, doc) == (have.file = 0) = (doc.file = 0) /\ have.tomb = doc.tomb

\* The digest covers both stamps: a peer with the same ones answers 304.
SameDigest(have, doc) == have = doc

ServeTombs(m) ==
  LET doc == [sync[m].doc EXCEPT !.tomb = tomb[sync[m].peer]] IN
  /\ sync[m].pc = "serve"
  /\ IF SameDigest(sync[m].have, doc)
     THEN Finish(m)
     ELSE Becomes(m, [sync[m] EXCEPT !.pc = "list", !.doc = doc])
  /\ UNCHANGED <<clock, file, tomb, table, cache, calls, restarts, acked, cut>>

\* The peer is unreachable, answers too late or with an error, or its document
\* cannot be opened.  The peer only reads, so a request that never arrived may be
\* taken for an answer that was lost.
FailPull(m) ==
  /\ sync[m].pc = "serve"
  /\ Finish(m)
  /\ UNCHANGED <<clock, file, tomb, table, cache, calls, restarts, acked, cut>>

---------------------------------------------------------------------------
(* The merge: mergeProxyReplica *)

ListLocal(m) ==
  /\ sync[m].pc = "list"
  /\ MayMerge(m)
  /\ Becomes(m, [sync[m] EXCEPT !.pc = "snapshot", !.local = file[m]])
  /\ UNCHANGED <<clock, file, tomb, table, cache, calls, restarts, acked, cut>>

\* Mutants: the deletion is not looked at; any other version is taken.
Adopts_deleted(t) == t.doc.file > t.local
Adopts_other(t) == t.doc.file > t.tombs /\ t.doc.file # t.local

\* A version is adopted if it is later than the deletion and than the version
\* this member has (none: 0).
Adopts(t) == t.doc.file > t.tombs /\ t.doc.file > t.local

AfterTombstones(t) == [t EXCEPT !.pc = IF Adopts(t) THEN "write" ELSE "idle"]

\* Mutants: any deletion removes; a member without the proxy ignores deletions.
Removes_any(t) == t.local # 0 /\ t.doc.tomb # 0
Learns_never(t) == FALSE

\* A deletion removes an older version; without a version it is remembered if
\* it is later than the one already known.
Removes(t) == t.local # 0 /\ t.doc.tomb > t.local
Learns(t) == t.local = 0 /\ t.doc.tomb > t.tombs

\* Back to idle, the goroutine forgets the document.
Settled(m, t) == IF t.pc = "idle" THEN Idle(m, t.todo) ELSE t

SnapTombs(m) ==
  LET t == [sync[m] EXCEPT !.tombs = tomb[m]] IN
  /\ sync[m].pc = "snapshot"
  /\ Becomes(m, IF Removes(t) THEN [t EXCEPT !.pc = "remove"]
                ELSE IF Learns(t) THEN [t EXCEPT !.pc = "learn"]
                ELSE Settled(m, AfterTombstones(t)))
  /\ UNCHANGED <<clock, file, tomb, table, cache, calls, restarts, acked, cut>>

\* removeFileProxy, in three steps.
MergeRemove(m) ==
  /\ sync[m].pc = "remove"
  /\ DeleteProdByID(m)
  /\ Becomes(m, [sync[m] EXCEPT !.pc = "record"])
  /\ UNCHANGED <<clock, tomb, table, cache, calls, restarts, acked, cut>>

MergeRecord(m) ==
  /\ sync[m].pc = "record"
  /\ RecordTombstone(m, sync[m].doc.tomb)
  /\ Becomes(m, [sync[m] EXCEPT !.pc = "unroute"])
  /\ UNCHANGED <<clock, file, table, cache, calls, restarts, acked, cut>>

MergeUnroute(m) ==
  /\ sync[m].pc = "unroute"
  /\ DeleteRoute(m)
  /\ Becomes(m, Settled(m, AfterTombstones([sync[m] EXCEPT !.local = 0,
                                                           !.tombs = sync[m].doc.tomb])))
  /\ UNCHANGED <<clock, file, tomb, cache, calls, restarts, acked, cut>>

MergeLearn(m) ==
  /\ sync[m].pc = "learn"
  /\ RecordTombstone(m, sync[m].doc.tomb)
  /\ Becomes(m, Settled(m, AfterTombstones([sync[m] EXCEPT !.tombs = sync[m].doc.tomb])))
  /\ UNCHANGED <<clock, file, table, cache, calls, restarts, acked, cut>>

MergeWrite(m) ==
  /\ sync[m].pc = "write"
  /\ WriteProd(m, sync[m].doc.file)
  /\ Becomes(m, [sync[m] EXCEPT !.pc = "clear"])
  /\ UNCHANGED <<clock, tomb, table, cache, calls, restarts, acked, cut>>

MergeClear(m) ==
  /\ sync[m].pc = "clear"
  /\ ClearTombstone(m)
  /\ Becomes(m, [sync[m] EXCEPT !.pc = "apply"])
  /\ UNCHANGED <<clock, file, table, cache, calls, restarts, acked, cut>>

MergeApply(m) ==
  /\ sync[m].pc = "apply"
  /\ ApplyFileProxy(m, sync[m].doc.file)
  /\ Finish(m)
  /\ UNCHANGED <<clock, file, tomb, cache, calls, restarts, acked, cut>>

MergeStep(m) ==
  ListLocal(m) \/ SnapTombs(m) \/ MergeRemove(m) \/ MergeRecord(m) \/ MergeUnroute(m)
    \/ MergeLearn(m) \/ MergeWrite(m) \/ MergeClear(m) \/ MergeApply(m)

SyncStep(m) ==
  \/ StartRound(m)
  \/ \E p \in Member : StartPull(m, p)
  \/ SendRequest(m) \/ ServeList(m) \/ ServeTombs(m)
  \/ MergeStep(m)

---------------------------------------------------------------------------
(* The process *)

\* saveCache writes the routing table half a second after the last change, and
\* autosaveLoop every five minutes.  The copy is only read by a restart.
SaveCacheNow(m) ==
  /\ restarts < MaxRestarts /\ cache[m] # table[m]
  /\ cache' = [cache EXCEPT ![m] = table[m]]
  /\ UNCHANGED <<clock, file, tomb, table, calls, sync, restarts, acked, cut>>

\* applySnapshot restores the cached table, loadProductionProxies adds the
\* enabled files to it.
LoadTable(m) == IF Live(file[m]) # 0 THEN Live(file[m]) ELSE cache[m]

Restart(m) ==
  /\ restarts < MaxRestarts
  /\ restarts' = restarts + 1
  /\ table' = [table EXCEPT ![m] = LoadTable(m)]
  /\ Becomes(m, Idle(m, {}))
  /\ calls' = calls \ CallsOf(m)
  /\ cut' = cut \cup {c.at : c \in {e \in CallsOf(m) : e.pc = "record"}}
  /\ UNCHANGED <<clock, file, tomb, cache, acked>>

---------------------------------------------------------------------------
Next ==
  \/ \E m \in Member : StartPromote(m) \/ StartDelete(m)
  \/ \E c \in calls : CallStep(c)
  \/ \E m \in Member : SyncStep(m) \/ FailPull(m)
  \/ \E m \in Member : SaveCacheNow(m) \/ Restart(m)

Spec == Init /\ [][Next]_vars

\* Handlers and goroutines go on (the Go scheduler runs them); a peer that is
\* asked in every round answers in the end, however often calls fail before.
Fairness ==
  /\ WF_vars(\E c \in calls : CallStep(c))
  /\ \A m \in Member : WF_vars(SyncStep(m))
  /\ \A m, p \in Member : SF_vars(sync[m].peer = p /\ ServeTombs(m))

FairSpec == Spec /\ Fairness

---------------------------------------------------------------------------
(* Properties *)

\* Every stamp is one the clock has given, and no member pulls from itself.
TypeOK ==
  /\ clock \in 0..MaxClock
  /\ file \in [Member -> Stamp] /\ tomb \in [Member -> Stamp]
  /\ table \in [Member -> Stamp] /\ cache \in [Member -> Stamp]
  /\ calls \subseteq Call
  /\ sync \in [Member -> Task]
  /\ \A m \in Member : m \notin sync[m].todo
  /\ restarts \in 0..MaxRestarts
  /\ acked \in Stamp
  /\ cut \subseteq Stamp

\* A proxy is never in production beside a deletion that is later: what
\* mergeProxyReplica compares before it removes, adopts or clears.
DeletedStaysDeleted == \A m \in Member : file[m] # 0 => file[m] > tomb[m]

\* What a merge puts in production is later than every version and every deletion
\* the member knew: it adopts what is the most recent for the identifier.
AdoptsNewer ==
  [][\A m \in Member :
       sync[m].pc = "write" /\ sync'[m].pc = "clear" => file'[m] > Knows(m)]_vars

\* An edit that was answered is known to some member, unless a later deletion is
\* under way or was stopped between the removal of the file and its tombstone.
NothingLost ==
  \/ \E m \in Member : Knows(m) >= acked
  \/ \E c \in calls : c.kind = "delete" /\ c.at > acked
  \/ \E at \in cut : at > acked

\* A member that is neither serving an edit nor merging routes exactly what its
\* files say: the files are the source of truth of the configured proxies.
RoutedFromFiles ==
  \A m \in Member :
    CallsOf(m) = {} /\ sync[m].pc \in Pulling => table[m] = Live(file[m])

\* Once the edits stop all members come to hold the same version, or none, and
\* keep it, even if merges and edits of a member overlapped on the way.
Converges == <>[](\A m, p \in Member : file[m] = file[p])

\* Every member comes to know the latest edit that was answered, unless a deletion
\* after it was stopped between the removal of the file and its tombstone.
NewestReachesAll ==
  <>[]((\A at \in cut : at <= acked) => \A m \in Member : Knows(m) >= acked)

\* What a merge of p's document, begun now with nothing else under way, makes of m: nothing.
NothingToTake(m, p) ==
  LET t == [Idle(m, {}) EXCEPT !.doc = [file |-> file[p], tomb |-> tomb[p]],
                               !.local = file[m], !.tombs = tomb[m]]
  IN  ~Adopts(t) /\ ~Removes(t) /\ ~Learns(t)

\* Members none of which has anything to take from another have one version, or none:
\* the merge knows no disagreement that it leaves as it is.
MembersAlike ==
  (\A m, p \in Member : NothingToTake(m, p)) => \A m, p \in Member : file[m] = file[p]

\* What a member knows, with the deletions whose file is removed and which are about to be
\* recorded.
Knowing(m) ==
  {file[m], tomb[m]} \cup {c.at : c \in {d \in CallsOf(m) : d.pc = "record"}}
    \cup {at \in {sync[m].doc.tomb} : sync[m].pc = "record"}

\* What a member knows never goes back to something earlier, but for a deletion that a
\* restart stops halfway.
NeverGoesBack ==
  [][restarts' = restarts =>
       \A m \in Member : \A at \in Knowing(m) : \E new \in Knowing(m)' : new >= at]_vars

\* The stamps that versions bear, and those that deletions bear, wherever they are.
Versions == {file[m] : m \in Member} \cup {sync[m].doc.file : m \in Member}
            \cup {c.at : c \in {d \in calls : d.kind = "promote"}}
Deletions == {tomb[m] : m \in Member} \cup {sync[m].doc.tomb : m \in Member}
             \cup {c.at : c \in {d \in calls : d.kind = "delete"}}

\* An instant is that of one edit: a version and a deletion never bear the same stamp.
OneEdit == \A at \in Versions \cap Deletions : at = 0

---------------------------------------------------------------------------
(* The inductive invariant behind DeletedStaysDeleted and AdoptsNewer *)

\* A member serves one edit at a time and does not merge meanwhile.
Exclusive ==
  /\ \A c, d \in calls : c.member = d.member => c = d
  /\ \A c \in calls : sync[c.member].pc \in Pulling \cup {"list"}

\* What an edit is about to write or record is later than all the member knows,
\* and once it has removed the file there is none.
CallOK(c) ==
  /\ c.pc = "write" => c.at > file[c.member] /\ c.at > tomb[c.member]
  /\ c.pc = "record" => file[c.member] = 0

\* The maps a merge works on describe the member's files as they are, and each of
\* its steps is justified by what the member has.
MergeOK(m) ==
  LET t == sync[m] IN
  /\ t.pc = "snapshot" => t.local = file[m]
  /\ t.pc \in {"remove", "record"} => t.doc.tomb > tomb[m]
  /\ t.pc \in {"record", "unroute"} => file[m] = 0
  /\ t.pc = "unroute" => t.doc.tomb = tomb[m]
  /\ t.pc = "learn" => file[m] = 0 /\ t.doc.tomb > tomb[m]
  /\ t.pc = "write" => t.doc.file > file[m] /\ t.doc.file > tomb[m]
  /\ t.pc = "clear" => file[m] = t.doc.file /\ t.doc.file # 0

\* As long as edits and merges of a member exclude each other, every edit and every
\* merge acts on an accurate view of the member's files and tombstones.
MergeInv ==
  /\ Exclusive
  /\ \A c \in calls : CallOK(c)
  /\ \A m \in Member : MergeOK(m)
  /\ DeletedStaysDeleted

\* A stamp, or a later one, is known: by a member, by a deletion that has removed the file
\* and not yet recorded itself, or it went with one that was stopped there.
Kept(at) ==
  \/ \E m \in Member : Knows(m) >= at
  \/ \E c \in calls : c.pc = "record" /\ c.at > at
  \/ \E lostAt \in cut : lostAt > at

\* What an edit has done so far is still there when it answers.
EditOK(c) ==
  /\ c.pc = "remove" => c.at > file[c.member]
  /\ c.pc = "apply" => file[c.member] = c.at
  /\ c.pc = "unroute" => tomb[c.member] >= c.at

\* NothingLost, made inductive: a removal by a merge counts on the peer that sent the
\* deletion, so the documents under way are to be kept as well.
KnownInv ==
  /\ \A c \in calls : EditOK(c)
  /\ Kept(acked)
  /\ \A m \in Member :
       /\ Kept(sync[m].doc.file) /\ Kept(sync[m].doc.tomb)
       /\ sync[m].pc = "remove" => sync[m].doc.tomb > file[m]

=================================================================================
