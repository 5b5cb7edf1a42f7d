------------------------------- MODULE SecretStore -------------------------------
(***************************************************************************)
(* The secrets of approved Agents, shared by the gateways of a group: the    *)
(* store (internal/edge/ws/agenthmacstore.go) and its exchange              *)
(* (internal/edge/agent_replica.go).  The entry of one Agent: entries do    *)
(* not depend on each other.                                                *)
(*                                                                         *)
(* Clocks agree: a writing is dated by how many came before.  A save comes   *)
(* after the change it saves, copies the store and writes the copy, and     *)
(* two saves of a gateway share a temporary file, so that one may fail.  The *)
(* connections of the Agent (ws/hub.go) are checked and registered, and      *)
(* closed and forgotten, in separate critical sections.                     *)
(***************************************************************************)
EXTENDS Naturals, FiniteSets

CONSTANTS
  Peer,        \* gateways of the group
  Key,         \* secrets
  MaxWrite,    \* bound: approvals, rotations and revocations
  MaxRestart,  \* bound: restarts
  Reached      \* bound: gateways the Agent connects to

ASSUME SecretAssumption ==
  /\ MaxWrite \in Nat /\ MaxRestart \in Nat
  /\ IsFiniteSet(Peer) /\ Reached \subseteq Peer

VARIABLES
  entry,     \* data, stamps and tombs of each gateway
  disk,      \* its file
  saves,     \* calls of save
  timer,     \* gateways whose push is scheduled
  posts,     \* pushes under way
  linked,    \* gateways the Agent is connected to
  entering,  \* gateways that have checked its secret and not registered it yet
  revoking,  \* gateways that have dropped its connection and still hold its secret
  writes, restarts,
  written,   \* history: every writing
  lapsed     \* history: gateways with a connection that no step is to close although its
             \* secret went

linkVars == <<linked, entering, revoking, lapsed>>
secretVars == <<entry, disk, saves, timer, posts, linkVars, writes, restarts, written>>

---------------------------------------------------------------------------
(* Data *)

\* data is empty or one secret; a date is 0 where the map has no value.
Entry == [data : {{}} \cup {{k} : k \in Key}, stamp : 0..MaxWrite, tomb : 0..MaxWrite]
Empty == [data |-> {}, stamp |-> 0, tomb |-> 0]

\* A file, whole or cut short.
Whole(e) == [whole |-> TRUE, doc |-> e]
Torn == [whole |-> FALSE, doc |-> Empty]

\* pc: the store is to be copied, the copy to be written, or its file was taken by another.
\* removed: a merge took the secret away and saves that.
Save == [at : Peer, pc : {"marshal", "write", "fail"}, removed : BOOLEAN, doc : Entry]

\* What an entry amounts to: its last writing.
HeldAt(e) == IF e.stamp > e.tomb THEN e.stamp ELSE e.tomb
Held(e) == [at |-> HeldAt(e), value |-> e.data]

\* Merge of a peer's entry: a later secret, then a later removal.
MergeData(mine, r) ==
  IF r.data # {} /\ r.stamp > mine.stamp /\ r.stamp > mine.tomb
  THEN [mine EXCEPT !.data = r.data, !.stamp = r.stamp] ELSE mine
MergeTomb(mine, r) ==
  IF r.tomb > mine.tomb /\ r.tomb > mine.stamp
  THEN [data |-> {}, stamp |-> 0, tomb |-> r.tomb] ELSE mine
\* Fault: a secret is taken whatever was removed since.
Merge_revive(mine, r) ==
  MergeTomb(IF r.data # {} /\ r.stamp > mine.stamp
            THEN [mine EXCEPT !.data = r.data, !.stamp = r.stamp] ELSE mine, r)

\* Fault: removals are not exchanged.
Merge_notomb(mine, r) == MergeData(mine, r)

Merge(mine, r) == MergeTomb(MergeData(mine, r), r)

SecretInit ==
  /\ entry = [g \in Peer |-> Empty] /\ disk = [g \in Peer |-> Whole(Empty)]
  /\ saves = {} /\ timer = {} /\ posts = {}
  /\ linked = {} /\ entering = {} /\ revoking = {} /\ lapsed = {}
  /\ writes = 0 /\ restarts = 0 /\ written = {}

---------------------------------------------------------------------------
(* Changes *)

NewSave(g, removed) == [at |-> g, pc |-> "marshal", removed |-> removed, doc |-> Empty]

\* Set: an approval or a rotation.  The push is scheduled once the save is over; here
\* it may begin before, as that of an earlier change can.
Set(g, k) ==
  /\ writes + Cardinality(revoking) < MaxWrite
  /\ writes' = writes + 1
  /\ entry' = [entry EXCEPT ![g] = [data |-> {k}, stamp |-> writes + 1, tomb |-> 0]]
  /\ saves' = saves \cup {NewSave(g, FALSE)}
  /\ timer' = timer \cup {g}
  /\ written' = written \cup {[at |-> writes + 1, value |-> {k}]}
  /\ UNCHANGED <<disk, posts, linkVars, restarts>>

\* Delete, the second half of RevokeAgent: a connection registered since the first stays.
\* Where the Agent never connects the first half does nothing.
DeleteSecret(g) ==
  /\ IF g \in Reached THEN g \in revoking /\ writes < MaxWrite
     ELSE writes + Cardinality(revoking) < MaxWrite
  /\ revoking' = revoking \ {g}
  /\ writes' = writes + 1
  /\ entry' = [entry EXCEPT ![g] = [data |-> {}, stamp |-> 0, tomb |-> writes + 1]]
  /\ saves' = saves \cup {NewSave(g, FALSE)}
  /\ timer' = timer \cup {g}
  /\ written' = written \cup {[at |-> writes + 1, value |-> {}]}
  /\ lapsed' = lapsed \cup (linked \cap {g})
  /\ UNCHANGED <<disk, posts, linked, entering, restarts>>

\* Fault: the removal of a secret is not told from other changes.
ApplyReplica_stay(g, r) ==
  LET m == Merge(entry[g], r) IN
  /\ entry' = [entry EXCEPT ![g] = m]
  /\ saves' = IF m = entry[g] THEN saves ELSE saves \cup {NewSave(g, FALSE)}

\* applyAgentReplica: the merge, then the save of what it changed, which is followed by the
\* end of the connection when the secret went.
ApplyReplica(g, r) ==
  LET m == Merge(entry[g], r) IN
  /\ entry' = [entry EXCEPT ![g] = m]
  /\ saves' = IF m = entry[g] THEN saves
              ELSE saves \cup {NewSave(g, MergeData(entry[g], r).data # {} /\ m.data = {})}

\* scheduleAgentReplicaPush fires: the entry as it is now goes to every peer.
PushSecrets(g) ==
  /\ g \in timer
  /\ timer' = timer \ {g}
  /\ posts' = posts \cup {[to |-> p, doc |-> entry[g]] : p \in Peer \ {g}}
  /\ UNCHANGED <<entry, disk, saves, linkVars, writes, restarts, written>>

\* A push arrives, late or not; it may also never do.
ReceiveSecrets(m) ==
  /\ posts' = posts \ {m}
  /\ ApplyReplica(m.to, m.doc)
  /\ UNCHANGED <<disk, timer, linkVars, writes, restarts, written>>

\* syncAgentReplicaFromPeer: every fifteen seconds a peer's entry is fetched.
PullSecrets(g, p) ==
  /\ g # p /\ Merge(entry[g], entry[p]) # entry[g]
  /\ ApplyReplica(g, entry[p])
  /\ UNCHANGED <<disk, timer, posts, linkVars, writes, restarts, written>>

---------------------------------------------------------------------------
(* Connections *)

\* What a step of the connections leaves alone.
StoreSame == UNCHANGED <<entry, disk, saves, timer, posts, writes, restarts, written>>

\* ServeAgent: the secret is checked against the store's (a second connection beside an
\* open one is left to AgentLink).
CheckAgent(g) ==
  /\ g \in Reached \ (linked \cup entering) /\ entry[g].data # {}
  /\ entering' = entering \cup {g}
  /\ StoreSame /\ UNCHANGED <<linked, revoking, lapsed>>

\* Then the connection is registered, whatever became of the secret.
LinkAgent(g) ==
  /\ g \in entering
  /\ entering' = entering \ {g} /\ linked' = linked \cup {g}
  /\ lapsed' = IF entry[g].data = {} THEN lapsed \cup {g} ELSE lapsed
  /\ StoreSame /\ UNCHANGED revoking

\* The connection ends: unregisterAgent.
LoseAgent(g) ==
  /\ g \in linked
  /\ linked' = linked \ {g} /\ lapsed' = lapsed \ {g}
  /\ StoreSame /\ UNCHANGED <<entering, revoking>>

\* RevokeAgent drops the connection before it deletes the secret.
RevokeAgent(g) ==
  /\ g \in Reached \ revoking /\ writes + Cardinality(revoking) < MaxWrite
  /\ revoking' = revoking \cup {g}
  /\ linked' = linked \ {g} /\ lapsed' = lapsed \ {g}
  /\ StoreSame /\ UNCHANGED entering

---------------------------------------------------------------------------
(* save *)

Marshal(s) ==
  /\ s.pc = "marshal"
  /\ saves' = (saves \ {s}) \cup
       {[at |-> s.at, pc |-> "write", removed |-> s.removed, doc |-> entry[s.at]]}
  /\ UNCHANGED <<entry, disk, timer, posts, linkVars, writes, restarts, written>>

\* The other saves of the gateway that may be writing the same file.
Others(s) == {t \in saves \ {s} : t.at = s.at /\ t.pc = "write"}

\* s ends, and with it the file that some others had written beside.
SaveEnds(s) ==
  \E lost \in SUBSET Others(s) :
    saves' = (saves \ (lost \cup {s})) \cup {[t EXCEPT !.pc = "fail"] : t \in lost}

\* The file is written beside and renamed: alone, a save replaces it whole.  While others
\* write the same file beside, it gets the copy of any of them, or is cut short until
\* the last of them ends.  Then applyAgentReplica calls DisconnectAgents.
WriteFile(s) ==
  /\ s.pc = "write"
  /\ \E f \in {Whole(t.doc) : t \in Others(s) \cup {s}}
            \cup (IF Others(s) = {} THEN {} ELSE {Torn}) :
       disk' = [disk EXCEPT ![s.at] = f]
  /\ SaveEnds(s)
  /\ linked' = IF s.removed THEN linked \ {s.at} ELSE linked
  /\ lapsed' = lapsed \cap linked'
  /\ UNCHANGED <<entry, timer, posts, entering, revoking, writes, restarts, written>>

\* A save whose file was renamed or removed by another fails, and applyAgentReplica returns:
\* the connection stays.  What it wrote may still reach a file that was renamed half written.
FailFile(s) ==
  /\ s.pc = "fail"
  /\ disk' = IF disk[s.at].whole THEN disk ELSE [disk EXCEPT ![s.at] = Whole(s.doc)]
  /\ SaveEnds(s)
  /\ lapsed' = IF s.removed THEN lapsed \cup (linked \cap {s.at}) ELSE lapsed
  /\ UNCHANGED <<entry, timer, posts, linked, entering, revoking, writes, restarts, written>>

\* load: what the file holds, nothing if it cannot be read.
RestartStore(g) ==
  /\ restarts < MaxRestart
  /\ restarts' = restarts + 1
  /\ entry' = [entry EXCEPT ![g] = disk[g].doc]
  /\ saves' = {s \in saves : s.at # g}
  /\ timer' = timer \ {g}
  /\ linked' = linked \ {g} /\ entering' = entering \ {g}
  /\ revoking' = revoking \ {g} /\ lapsed' = lapsed \ {g}
  /\ UNCHANGED <<disk, posts, writes, written>>

\* The next step of a save.
SaveStep(s) == Marshal(s) \/ WriteFile(s) \/ FailFile(s)

SecretNext ==
  \/ \E g \in Peer : \/ \E k \in Key : Set(g, k)
                     \/ DeleteSecret(g) \/ PushSecrets(g) \/ RestartStore(g)
                     \/ CheckAgent(g) \/ LinkAgent(g) \/ LoseAgent(g) \/ RevokeAgent(g)
  \/ \E m \in posts : ReceiveSecrets(m)
  \/ \E g, p \in Peer : PullSecrets(g, p)
  \/ \E s \in saves : SaveStep(s)

\* A peer asked again and again is reached in the end, and saves end.
SecretFairness ==
  \A g \in Peer : /\ \A p \in Peer \ {g} : WF_secretVars(PullSecrets(g, p))
                  /\ WF_secretVars(\E s \in saves : s.at = g /\ SaveStep(s))

SecretSpec == SecretInit /\ [][SecretNext]_secretVars /\ SecretFairness

---------------------------------------------------------------------------
(* Properties *)

SecretTypeOK ==
  /\ entry \in [Peer -> Entry]
  /\ disk \in [Peer -> [whole : BOOLEAN, doc : Entry]]
  /\ saves \subseteq Save
  /\ timer \subseteq Peer /\ linked \subseteq Peer
  /\ entering \subseteq Peer /\ revoking \subseteq Peer /\ lapsed \subseteq linked
  /\ posts \subseteq [to : Peer, doc : Entry]
  /\ writes \in 0..MaxWrite /\ restarts \in 0..MaxRestart
  /\ written \subseteq [at : 1..MaxWrite, value : {{}} \cup {{k} : k \in Key}]

\* A gateway the Agent is connected to has a secret of its, or is about to close the
\* connection, unless it lapsed: the save of the removal failed (applyAgentReplica returns),
\* or the secret went between the check and the registration, or the connection came
\* between the two halves of RevokeAgent.
LinkedHasSecret ==
  \A g \in linked \ lapsed :
    entry[g].data # {} \/ \E s \in saves : s.at = g /\ s.removed

\* What the comments of DisconnectAgents and RevokeAgent promise, which the code does not
\* keep (see the README): a connection does not outlive its secret.
NoneLapses == lapsed = {}

\* The store implements the register of LastWriter: no push, pull, delay or restart makes
\* a member hold something that was not written, or mix two writings; a member goes back
\* to an earlier writing by a restart only.
Register == INSTANCE LastWriter WITH
  Member <- Peer, Value <- {{}} \cup {{k} : k \in Key},
  writings <- written, held <- [g \in Peer |-> Held(entry[g])], recalls <- restarts
NewestWins == Register!LastSpec

\* Members none of which learns anything from another hold the same.
SecretsAgree ==
  (\A g, p \in Peer : Merge(entry[g], entry[p]) = entry[g])
    => \A g, p \in Peer : Held(entry[g]) = Held(entry[p])

\* Members that can reach each other agree in the end: an Agent approved on one is
\* accepted by all, a revoked one by none, and none keeps a connection of it that did not
\* lapse.
MembersAgree ==
  <>[](/\ \A g \in linked \ lapsed : entry[g].data # {}
       /\ \A g, p \in Peer : Held(entry[g]) = Held(entry[p]))

\* Once its saves are over a gateway would restart with what it has.
SavedIsCurrent == \A g \in Peer : (\A s \in saves : s.at # g) => disk[g] = Whole(entry[g])

=================================================================================
