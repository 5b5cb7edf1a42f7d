--------------------------- MODULE SecretStore_proofs ---------------------------
(***************************************************************************)
(* For any group, any secrets and any bounds: the store of the Agents'       *)
(* secrets keeps its types, closes the connection of an Agent whose secret   *)
(* went, and implements the register of LastWriter.                         *)
(***************************************************************************)
EXTENDS SecretStore, FiniteSetTheorems, TLAPS

---------------------------------------------------------------------------
(* The invariant of the refinement *)

None == [at |-> 0, value |-> {}]

\* A secret and its date come together, and a secret is later than the removal before it.
Well(e) == /\ e.data = {} <=> e.stamp = 0
           /\ e.data # {} => e.stamp > e.tomb

\* What a copy of an entry amounts to is one of the writings W.
Genuine(e, W) == Well(e) /\ Held(e) \in W \cup {None}

\* Every copy, in memory, on disk or on its way, amounts to a writing; a file, and what is
\* about to be written to it, is no later than the store.
CopiesInv ==
  /\ \A g \in Peer : Genuine(entry[g], written)
  /\ \A g \in Peer : Genuine(disk[g].doc, written) /\ HeldAt(disk[g].doc) <= HeldAt(entry[g])
  /\ \A s \in saves : Genuine(s.doc, written) /\ HeldAt(s.doc) <= HeldAt(entry[s.at])
  /\ \A m \in posts : Genuine(m.doc, written)

\* Each writing has its own date.
DatesInv ==
  /\ \A w \in written : w.at <= writes
  /\ \A v, w \in written : v.at = w.at => v = w

Inv == SecretTypeOK /\ CopiesInv /\ DatesInv

---------------------------------------------------------------------------
(* Lemmas on the merge *)

\* Entries are records of a secret or none and two dates.
LEMMA EntryFields ==
  ASSUME NEW e \in Entry
  PROVE  /\ e.stamp \in Nat /\ e.tomb \in Nat
         /\ e = [data |-> e.data, stamp |-> e.stamp, tomb |-> e.tomb]
  BY SecretAssumption DEF Entry

\* The empty entry is one.
LEMMA EmptyEntry == Empty \in Entry /\ Well(Empty) /\ Held(Empty) = None
  BY SecretAssumption DEF Empty, Entry, Well, Held, HeldAt, None

\* Merge of agenthmacstore.go takes the data of its two sides and nothing else.
LEMMA MergeType ==
  ASSUME NEW a \in Entry, NEW b \in Entry
  PROVE  Merge(a, b) \in Entry
<1>1. ASSUME NEW d \in Entry
      PROVE  MergeTomb(d, b) \in Entry
  BY <1>1, SecretAssumption DEF Entry, MergeTomb
<1>2. MergeData(a, b) \in Entry
  BY DEF Entry, MergeData
<1> QED
  BY <1>1, <1>2 DEF Merge

\* A merge keeps what the gateway held, or takes the peer's later writing whole.
LEMMA MergeHeld ==
  ASSUME NEW a \in Entry, NEW b \in Entry, Well(a), Well(b)
  PROVE  /\ Well(Merge(a, b))
         /\ \/ Held(Merge(a, b)) = Held(a)
            \/ Held(Merge(a, b)) = Held(b) /\ HeldAt(b) > HeldAt(a)
<1> DEFINE d == MergeData(a, b)
           taken == b.data # {} /\ b.stamp > a.stamp /\ b.stamp > a.tomb
<1>1. /\ a.stamp \in Nat /\ a.tomb \in Nat /\ b.stamp \in Nat /\ b.tomb \in Nat
      /\ a = [data |-> a.data, stamp |-> a.stamp, tomb |-> a.tomb]
  BY EntryFields
<1>2. CASE taken
  <2>1. d = [data |-> b.data, stamp |-> b.stamp, tomb |-> a.tomb]
    BY <1>1, <1>2 DEF MergeData
  <2>2. ~(b.tomb > d.stamp)
    BY <1>1, <1>2, <2>1 DEF Well
  <2>3. Merge(a, b) = [data |-> b.data, stamp |-> b.stamp, tomb |-> a.tomb]
    BY <2>1, <2>2 DEF Merge, MergeTomb
  <2> QED
    BY <1>1, <1>2, <2>3 DEF Well, Held, HeldAt
<1>3. CASE ~taken
  <2>1. d = a
    BY <1>3 DEF MergeData
  <2>2. CASE b.tomb > a.tomb /\ b.tomb > a.stamp
    <3>1. Merge(a, b) = [data |-> {}, stamp |-> 0, tomb |-> b.tomb]
      BY <2>1, <2>2 DEF Merge, MergeTomb
    <3>2. b.data = {} /\ b.stamp = 0
      BY <1>1, <1>3, <2>2 DEF Well
    <3> QED
      BY <1>1, <2>2, <3>1, <3>2 DEF Well, Held, HeldAt
  <2>3. CASE ~(b.tomb > a.tomb /\ b.tomb > a.stamp)
    BY <2>1, <2>3 DEF Merge, MergeTomb
  <2> QED
    BY <2>2, <2>3
<1> QED
  BY <1>2, <1>3

---------------------------------------------------------------------------
(* Types *)

\* There are finitely many revocations under way.
LEMMA RevokingCount ==
  ASSUME SecretTypeOK
  PROVE  Cardinality(revoking) \in Nat
<1>1. IsFiniteSet(revoking)
  BY SecretAssumption, FS_Subset DEF SecretTypeOK
<1> QED
  BY <1>1, FS_CardinalityType

\* A writing has a date within the bound.
LEMMA WriteRoom ==
  ASSUME SecretTypeOK, NEW g \in Peer, (\E k \in Key : Set(g, k)) \/ DeleteSecret(g)
  PROVE  /\ writes \in Nat /\ writes + 1 \in 1..MaxWrite
         /\ writes + 1 \in 0..MaxWrite /\ 0 \in 0..MaxWrite
<1> DEFINE pending == Cardinality(revoking)
<1>1. pending \in Nat /\ writes \in 0..MaxWrite /\ MaxWrite \in Nat
  BY RevokingCount, SecretAssumption DEF SecretTypeOK
<1>2. writes + pending < MaxWrite \/ writes < MaxWrite
  BY DEF Set, DeleteSecret
<1> HIDE DEF pending
<1> QED
  BY <1>1, <1>2

\* A step of the connections.
Connecting(g) == CheckAgent(g) \/ LinkAgent(g) \/ LoseAgent(g) \/ RevokeAgent(g)

\* A save begins with an empty copy.
LEMMA NewSaveType == \A g \in Peer : \A b \in BOOLEAN : NewSave(g, b) \in Save
  BY EmptyEntry DEF NewSave, Save

\* applyAgentReplica keeps the types.
LEMMA ReplicaType ==
  ASSUME SecretTypeOK, NEW g \in Peer, NEW r \in Entry, ApplyReplica(g, r)
  PROVE  entry' \in [Peer -> Entry] /\ saves' \subseteq Save
<1>1. Merge(entry[g], r) \in Entry
  BY MergeType DEF SecretTypeOK
<1> QED
  BY <1>1, NewSaveType DEF SecretTypeOK, ApplyReplica

\* A file is the copy of one of the saves of its gateway, or is cut short.
LEMMA WriteFileDisk ==
  ASSUME NEW s \in saves, WriteFile(s)
  PROVE  \E f : /\ f = Torn \/ \E t \in saves : t.at = s.at /\ f = Whole(t.doc)
                /\ disk' = [disk EXCEPT ![s.at] = f]
<1> DEFINE files == {Whole(t.doc) : t \in Others(s) \cup {s}}
                     \cup (IF Others(s) = {} THEN {} ELSE {Torn})
<1>1. PICK f \in files : disk' = [disk EXCEPT ![s.at] = f]
  BY Zenon DEF WriteFile
<1>2. f = Torn \/ \E t \in Others(s) \cup {s} : f = Whole(t.doc)
  BY Zenon
<1>3. f = Torn \/ \E t \in saves : t.at = s.at /\ f = Whole(t.doc)
  BY <1>2 DEF Others
<1> QED
  BY <1>1, <1>3

\* The end of a save leaves the others, some of them to fail.
LEMMA SavesLeft ==
  ASSUME saves \subseteq Save, NEW s \in saves, SaveEnds(s)
  PROVE  /\ saves' \subseteq Save
         /\ \A u \in saves' : \E t \in saves : u.at = t.at /\ u.doc = t.doc /\ u.removed = t.removed
         /\ \A t \in saves \ {s} : \E u \in saves' : u.at = t.at /\ u.removed = t.removed
<1>1. PICK lost \in SUBSET Others(s) :
        saves' = (saves \ (lost \cup {s})) \cup {[t EXCEPT !.pc = "fail"] : t \in lost}
  BY DEF SaveEnds
<1>2. ASSUME NEW t \in Save
      PROVE  /\ [t EXCEPT !.pc = "fail"] \in Save
             /\ [t EXCEPT !.pc = "fail"].at = t.at /\ [t EXCEPT !.pc = "fail"].doc = t.doc
             /\ [t EXCEPT !.pc = "fail"].removed = t.removed
  BY DEF Save
<1>3. lost \subseteq saves \ {s}
  BY DEF Others
<1> DEFINE failed(t) == [t EXCEPT !.pc = "fail"]
<1>4. \A u \in saves' : u \in saves \/ \E t \in lost : u = failed(t)
  BY <1>1
<1>5. \A t \in saves \ {s} : t \in saves' \/ (t \in lost /\ failed(t) \in saves')
  BY <1>1, <1>3
<1>6. \A t \in saves : /\ failed(t) \in Save /\ failed(t).at = t.at
                       /\ failed(t).doc = t.doc /\ failed(t).removed = t.removed
  BY <1>2
<1> HIDE DEF failed
<1>7. \A u \in saves' : \E t \in saves : u.at = t.at /\ u.doc = t.doc /\ u.removed = t.removed
  BY <1>3, <1>4, <1>6
<1>8. \A t \in saves \ {s} : \E u \in saves' : u.at = t.at /\ u.removed = t.removed
  BY <1>5, <1>6
<1>9. saves' \subseteq Save
  BY <1>3, <1>4, <1>6
<1> QED
  BY <1>7, <1>8, <1>9

\* Every step of the store, of its exchange and of save keeps the types.
LEMMA NextType ==
  ASSUME SecretTypeOK, [SecretNext]_secretVars
  PROVE  SecretTypeOK'
<1> USE SecretAssumption DEF SecretTypeOK, linkVars
<1>1. ASSUME NEW g \in Peer, NEW k \in Key, Set(g, k)
      PROVE  SecretTypeOK'
  <2>0. /\ writes \in Nat /\ writes + 1 \in 0..MaxWrite /\ 0 \in 0..MaxWrite
    BY <1>1, WriteRoom DEF Inv
  <2>1. [data |-> {k}, stamp |-> writes + 1, tomb |-> 0] \in Entry
    BY <2>0 DEF Entry
  <2>2. [at |-> writes + 1, value |-> {k}] \in [at : 1..MaxWrite, value : {{}} \cup {{x} : x \in Key}]
    BY <1>1, WriteRoom
  <2> QED
    BY <1>1, <2>1, <2>2, NewSaveType, WriteRoom DEF Set
<1>2. ASSUME NEW g \in Peer, DeleteSecret(g)
      PROVE  SecretTypeOK'
  <2>0. /\ writes \in Nat /\ writes + 1 \in 0..MaxWrite /\ 0 \in 0..MaxWrite
    BY <1>2, WriteRoom DEF Inv
  <2>1. [data |-> {}, stamp |-> 0, tomb |-> writes + 1] \in Entry
    BY <2>0 DEF Entry
  <2>2. [at |-> writes + 1, value |-> {}] \in [at : 1..MaxWrite, value : {{}} \cup {{x} : x \in Key}]
    BY <1>2, WriteRoom
  <2> QED
    BY <1>2, <2>1, <2>2, NewSaveType, WriteRoom DEF DeleteSecret
<1>3. ASSUME NEW g \in Peer, PushSecrets(g)
      PROVE  SecretTypeOK'
  BY <1>3 DEF PushSecrets
<1>4. ASSUME NEW g \in Peer, Connecting(g)
      PROVE  SecretTypeOK'
  BY <1>4 DEF Connecting, CheckAgent, LinkAgent, LoseAgent, RevokeAgent, StoreSame
<1>5. ASSUME NEW g \in Peer, RestartStore(g)
      PROVE  SecretTypeOK'
  BY <1>5 DEF RestartStore
<1>6. ASSUME NEW m \in posts, ReceiveSecrets(m)
      PROVE  SecretTypeOK'
  BY <1>6, ReplicaType DEF ReceiveSecrets
<1>7. ASSUME NEW g \in Peer, NEW p \in Peer, PullSecrets(g, p)
      PROVE  SecretTypeOK'
  BY <1>7, ReplicaType DEF PullSecrets
<1>8. ASSUME NEW s \in saves, Marshal(s)
      PROVE  SecretTypeOK'
  BY <1>8 DEF Marshal, Save
<1>9. ASSUME NEW s \in saves, WriteFile(s)
      PROVE  SecretTypeOK'
  <2>1. \A t \in saves : Whole(t.doc) \in [whole : BOOLEAN, doc : Entry]
    BY DEF Whole, Save
  <2>2. Torn \in [whole : BOOLEAN, doc : Entry]
    BY EmptyEntry DEF Torn
  <2>3. s.at \in Peer
    BY DEF Save
  <2>4. \E f \in [whole : BOOLEAN, doc : Entry] : disk' = [disk EXCEPT ![s.at] = f]
    BY <1>9, <2>1, <2>2, WriteFileDisk
  <2>5. saves' \subseteq Save
    BY <1>9, SavesLeft DEF WriteFile
  <2> QED
    BY <1>9, <2>3, <2>4, <2>5 DEF WriteFile
<1>10. ASSUME NEW s \in saves, FailFile(s)
       PROVE  SecretTypeOK'
  <2>1. s.at \in Peer /\ Whole(s.doc) \in [whole : BOOLEAN, doc : Entry]
    BY DEF Whole, Save
  <2>2. saves' \subseteq Save
    BY <1>10, SavesLeft DEF FailFile
  <2> QED
    BY <1>10, <2>1, <2>2 DEF FailFile
<1>11. CASE UNCHANGED secretVars
  BY <1>11 DEF secretVars, linkVars
<1> QED
  BY <1>1, <1>2, <1>3, <1>4, <1>5, <1>6, <1>7, <1>8, <1>9, <1>10, <1>11
  DEF SecretNext, SaveStep, Connecting

\* The store begins well typed.
LEMMA InitType == SecretInit => SecretTypeOK
  BY SecretAssumption, EmptyEntry DEF SecretInit, SecretTypeOK, Whole

\* The store of the Agents' secrets, its file and what is exchanged keep their types.
THEOREM TypeCorrect == SecretSpec => []SecretTypeOK
  BY InitType, NextType, PTL DEF SecretSpec

---------------------------------------------------------------------------
(* The invariant *)

\* The date of an entry is that of what it amounts to, no later than the last writing.
LEMMA HeldDate ==
  ASSUME NEW e \in Entry
  PROVE  HeldAt(e) \in Nat /\ Held(e) = [at |-> HeldAt(e), value |-> e.data] /\ Held(e).at = HeldAt(e)
  BY EntryFields DEF HeldAt, Held

LEMMA DateBound ==
  ASSUME Inv, NEW e \in Entry, Genuine(e, written)
  PROVE  HeldAt(e) <= writes
<1>1. CASE Held(e) \in written
  BY <1>1, HeldDate DEF Inv, DatesInv
<1>2. CASE Held(e) = None
  BY <1>2, HeldDate DEF None, Inv, SecretTypeOK
<1> QED
  BY <1>1, <1>2 DEF Genuine

\* The copies stay genuine when one gateway moves to a writing no earlier than its own.
LEMMA MoveCopies ==
  ASSUME Inv, NEW g \in Peer, NEW e \in Entry,
         entry' = [entry EXCEPT ![g] = e],
         Genuine(e, written'), HeldAt(entry[g]) <= HeldAt(e), written \subseteq written',
         disk' = disk, posts' \subseteq posts, saves' \subseteq saves \cup {NewSave(g, b) : b \in BOOLEAN}
  PROVE  CopiesInv'
<1>1. \A d : Genuine(d, written) => Genuine(d, written')
  BY DEF Genuine
<1>2. \A p \in Peer : entry[p] \in Entry /\ disk[p].doc \in Entry /\ entry'[p] \in Entry
  BY DEF Inv, SecretTypeOK
<1>3. \A p \in Peer : /\ HeldAt(entry[p]) \in Nat /\ HeldAt(disk[p].doc) \in Nat
                      /\ HeldAt(entry'[p]) \in Nat /\ HeldAt(entry[p]) <= HeldAt(entry'[p])
  BY <1>2, HeldDate DEF Inv, SecretTypeOK
<1>4. \A p \in Peer : Genuine(entry'[p], written')
  BY <1>1 DEF Inv, CopiesInv, SecretTypeOK
<1>5. \A p \in Peer : Genuine(disk'[p].doc, written') /\ HeldAt(disk'[p].doc) <= HeldAt(entry'[p])
  BY <1>1, <1>3 DEF Inv, CopiesInv
<1>6. \A s \in saves' : Genuine(s.doc, written') /\ HeldAt(s.doc) <= HeldAt(entry'[s.at])
  <2> TAKE s \in saves'
  <2>1. CASE s \in saves
    <3>1. s.at \in Peer /\ s.doc \in Entry
      BY <2>1 DEF Inv, SecretTypeOK, Save
    <3>2. HeldAt(s.doc) \in Nat
      BY <3>1, HeldDate
    <3> QED
      BY <1>1, <1>3, <2>1, <3>1, <3>2 DEF Inv, CopiesInv
  <2>2. CASE \E b \in BOOLEAN : s = NewSave(g, b)
    <3>1. s.at = g /\ s.doc = Empty
      BY <2>2 DEF NewSave
    <3>2. Genuine(Empty, written') /\ HeldAt(Empty) = 0
      BY EmptyEntry, HeldDate DEF Genuine, Empty, HeldAt
    <3> QED
      BY <1>3, <3>1, <3>2
  <2> QED
    BY <2>1, <2>2
<1>7. \A m \in posts' : Genuine(m.doc, written')
  BY <1>1 DEF Inv, CopiesInv
<1> QED
  BY <1>4, <1>5, <1>6, <1>7 DEF CopiesInv

\* A writing is dated after the others.
LEMMA WriteDates ==
  ASSUME Inv, NEW v, writes' = writes + 1,
         written' = written \cup {[at |-> writes + 1, value |-> v]}
  PROVE  DatesInv'
<1> DEFINE new == [at |-> writes + 1, value |-> v]
<1>1. writes \in Nat /\ \A w \in written : w.at \in Nat /\ w.at <= writes
  BY SecretAssumption DEF Inv, SecretTypeOK, DatesInv
<1>2. new.at = writes + 1 /\ \A w \in written' : w \in written \/ w = new
  OBVIOUS
<1> HIDE DEF new
<1>3. \A w \in written' : w.at <= writes'
  BY <1>1, <1>2
<1>4. \A u, w \in written' : u.at = w.at => u = w
  BY <1>1, <1>2 DEF Inv, DatesInv
<1> QED
  BY <1>3, <1>4 DEF DatesInv

\* A merge leaves a gateway with what it held or with the later writing it was sent.
LEMMA ReplicaMove ==
  ASSUME Inv, NEW g \in Peer, NEW r \in Entry, Genuine(r, written), ApplyReplica(g, r)
  PROVE  \E e \in Entry : /\ entry' = [entry EXCEPT ![g] = e]
                          /\ Genuine(e, written)
                          /\ HeldAt(entry[g]) <= HeldAt(e)
<1> DEFINE e == Merge(entry[g], r)
<1>1. entry[g] \in Entry /\ e \in Entry
  BY MergeType DEF Inv, SecretTypeOK
<1>2. Well(entry[g]) /\ Well(r) /\ Held(entry[g]) \in written \cup {None}
  BY DEF Inv, CopiesInv, Genuine
<1>3. /\ Well(e)
      /\ \/ Held(e) = Held(entry[g])
         \/ Held(e) = Held(r) /\ HeldAt(r) > HeldAt(entry[g])
  BY <1>1, <1>2, MergeHeld
<1>4. Genuine(e, written)
  BY <1>2, <1>3 DEF Genuine
<1>5. HeldAt(entry[g]) <= HeldAt(e)
  BY <1>1, <1>3, HeldDate
<1> QED
  BY <1>1, <1>4, <1>5 DEF ApplyReplica

\* Every step keeps the invariant.
LEMMA NextInv ==
  ASSUME Inv, [SecretNext]_secretVars
  PROVE  Inv'
<1> USE DEF Inv
<1>0. SecretTypeOK'
  BY NextType
<1>1. ASSUME NEW g \in Peer, NEW k \in Key, Set(g, k)
      PROVE  CopiesInv' /\ DatesInv'
  <2> DEFINE e == [data |-> {k}, stamp |-> writes + 1, tomb |-> 0]
  <2>0. /\ writes \in Nat /\ writes + 1 \in 0..MaxWrite /\ 0 \in 0..MaxWrite
    BY <1>1, WriteRoom DEF Inv
  <2>1. e \in Entry /\ writes \in Nat
    BY <2>0 DEF Entry
  <2>2. Well(e) /\ Held(e) = [at |-> writes + 1, value |-> {k}] /\ HeldAt(e) = writes + 1
    BY <2>1 DEF Well, Held, HeldAt
  <2>3. Genuine(e, written') /\ written \subseteq written'
    BY <1>1, <2>2 DEF Genuine, Set
  <2>4. HeldAt(entry[g]) <= HeldAt(e)
    <3>1. entry[g] \in Entry /\ Genuine(entry[g], written)
      BY DEF SecretTypeOK, CopiesInv
    <3> QED
      BY <2>1, <2>2, <3>1, DateBound, HeldDate
  <2>5. /\ entry' = [entry EXCEPT ![g] = e] /\ disk' = disk /\ posts' \subseteq posts
        /\ saves' \subseteq saves \cup {NewSave(g, b) : b \in BOOLEAN}
    BY <1>1 DEF Set
  <2>6. CopiesInv'
    BY <2>1, <2>3, <2>4, <2>5, MoveCopies
  <2>7. DatesInv'
    BY <1>1, WriteDates DEF Set
  <2> QED
    BY <2>6, <2>7
<1>2. ASSUME NEW g \in Peer, DeleteSecret(g)
      PROVE  CopiesInv' /\ DatesInv'
  <2> DEFINE e == [data |-> {}, stamp |-> 0, tomb |-> writes + 1]
  <2>0. /\ writes \in Nat /\ writes + 1 \in 0..MaxWrite /\ 0 \in 0..MaxWrite
    BY <1>2, WriteRoom DEF Inv
  <2>1. e \in Entry /\ writes \in Nat
    BY <2>0 DEF Entry
  <2>2. Well(e) /\ Held(e) = [at |-> writes + 1, value |-> {}] /\ HeldAt(e) = writes + 1
    BY <2>1 DEF Well, Held, HeldAt
  <2>3. Genuine(e, written') /\ written \subseteq written'
    BY <1>2, <2>2 DEF Genuine, DeleteSecret
  <2>4. HeldAt(entry[g]) <= HeldAt(e)
    <3>1. entry[g] \in Entry /\ Genuine(entry[g], written)
      BY DEF SecretTypeOK, CopiesInv
    <3> QED
      BY <2>1, <2>2, <3>1, DateBound, HeldDate
  <2>5. /\ entry' = [entry EXCEPT ![g] = e] /\ disk' = disk /\ posts' \subseteq posts
        /\ saves' \subseteq saves \cup {NewSave(g, b) : b \in BOOLEAN}
    BY <1>2 DEF DeleteSecret
  <2>6. CopiesInv'
    BY <2>1, <2>3, <2>4, <2>5, MoveCopies
  <2>7. DatesInv'
    BY <1>2, WriteDates DEF DeleteSecret
  <2> QED
    BY <2>6, <2>7
<1>3. ASSUME NEW g \in Peer, PushSecrets(g)
      PROVE  CopiesInv' /\ DatesInv'
  BY <1>3 DEF PushSecrets, CopiesInv, DatesInv
<1>4. ASSUME NEW g \in Peer, Connecting(g)
      PROVE  CopiesInv' /\ DatesInv'
  <2>1. /\ entry' = entry /\ disk' = disk /\ saves' = saves /\ posts' = posts
        /\ writes' = writes /\ written' = written
    BY <1>4 DEF Connecting, CheckAgent, LinkAgent, LoseAgent, RevokeAgent, StoreSame
  <2> QED
    BY <2>1 DEF CopiesInv, DatesInv
<1>5. ASSUME NEW g \in Peer, RestartStore(g)
      PROVE  CopiesInv' /\ DatesInv'
  <2>1. entry' = [entry EXCEPT ![g] = disk[g].doc] /\ disk' = disk /\ posts' = posts
        /\ written' = written /\ writes' = writes /\ saves' = {s \in saves : s.at # g}
    BY <1>5 DEF RestartStore
  <2>2. \A p \in Peer : entry'[p] = IF p = g THEN disk[g].doc ELSE entry[p]
    BY <2>1 DEF SecretTypeOK
  <2>3. HeldAt(disk[g].doc) \in Nat
    BY HeldDate DEF SecretTypeOK
  <2>4. \A s \in saves : s.at \in Peer
    BY DEF SecretTypeOK, Save
  <2>5. \A p \in Peer : Genuine(disk[p].doc, written) /\ HeldAt(disk[p].doc) <= HeldAt(entry'[p])
    BY <2>2, <2>3 DEF CopiesInv
  <2>6. \A s \in saves' : Genuine(s.doc, written) /\ HeldAt(s.doc) <= HeldAt(entry'[s.at])
    BY <2>1, <2>2, <2>4 DEF CopiesInv
  <2> QED
    BY <2>1, <2>2, <2>5, <2>6 DEF CopiesInv, DatesInv
<1>6. ASSUME NEW m \in posts, ReceiveSecrets(m)
      PROVE  CopiesInv' /\ DatesInv'
  <2>1. m.to \in Peer /\ m.doc \in Entry /\ Genuine(m.doc, written) /\ ApplyReplica(m.to, m.doc)
    BY <1>6 DEF ReceiveSecrets, SecretTypeOK, CopiesInv
  <2>2. disk' = disk /\ posts' \subseteq posts /\ written' = written /\ writes' = writes
    BY <1>6 DEF ReceiveSecrets
  <2>3. saves' \subseteq saves \cup {NewSave(m.to, b) : b \in BOOLEAN}
    BY <2>1 DEF ApplyReplica
  <2>4. PICK e \in Entry : /\ entry' = [entry EXCEPT ![m.to] = e]
                           /\ Genuine(e, written) /\ HeldAt(entry[m.to]) <= HeldAt(e)
    BY <2>1, ReplicaMove
  <2>5. CopiesInv'
    BY <2>1, <2>2, <2>3, <2>4, MoveCopies
  <2> QED
    BY <2>2, <2>5 DEF DatesInv
<1>7. ASSUME NEW g \in Peer, NEW p \in Peer, PullSecrets(g, p)
      PROVE  CopiesInv' /\ DatesInv'
  <2>1. entry[p] \in Entry /\ Genuine(entry[p], written) /\ ApplyReplica(g, entry[p])
    BY <1>7 DEF PullSecrets, SecretTypeOK, CopiesInv
  <2>2. disk' = disk /\ posts' \subseteq posts /\ written' = written /\ writes' = writes
    BY <1>7 DEF PullSecrets
  <2>3. saves' \subseteq saves \cup {NewSave(g, b) : b \in BOOLEAN}
    BY <2>1 DEF ApplyReplica
  <2>4. PICK e \in Entry : /\ entry' = [entry EXCEPT ![g] = e]
                           /\ Genuine(e, written) /\ HeldAt(entry[g]) <= HeldAt(e)
    BY <2>1, ReplicaMove
  <2>5. CopiesInv'
    BY <2>1, <2>2, <2>3, <2>4, MoveCopies
  <2> QED
    BY <2>2, <2>5 DEF DatesInv
<1>8. ASSUME NEW s \in saves, Marshal(s)
      PROVE  CopiesInv' /\ DatesInv'
  <2>1. s.at \in Peer /\ HeldAt(entry[s.at]) \in Nat
    BY HeldDate DEF SecretTypeOK, Save
  <2>2. \A t \in saves' : t \in saves \/ t = [at |-> s.at, pc |-> "write", removed |-> s.removed, doc |-> entry[s.at]]
    BY <1>8 DEF Marshal
  <2>3. /\ entry' = entry /\ disk' = disk /\ posts' = posts
        /\ written' = written /\ writes' = writes
    BY <1>8 DEF Marshal
  <2> QED
    BY <2>1, <2>2, <2>3 DEF CopiesInv, DatesInv
<1>9. ASSUME NEW s \in saves, WriteFile(s)
      PROVE  CopiesInv' /\ DatesInv'
  <2>1. /\ entry' = entry /\ posts' = posts
        /\ written' = written /\ writes' = writes
        /\ \A u \in saves' : \E t \in saves : u.at = t.at /\ u.doc = t.doc
    BY <1>9, SavesLeft DEF WriteFile, SecretTypeOK
  <2>2. s.at \in Peer /\ HeldAt(entry[s.at]) \in Nat
    BY HeldDate DEF SecretTypeOK, Save
  <2>3. PICK f : /\ f = Torn \/ \E t \in saves : t.at = s.at /\ f = Whole(t.doc)
                 /\ disk' = [disk EXCEPT ![s.at] = f]
    BY <1>9, WriteFileDisk
  <2>4. Genuine(f.doc, written) /\ HeldAt(f.doc) <= HeldAt(entry[s.at])
    <3>1. CASE f = Torn
      <4>1. f.doc = Empty /\ HeldAt(Empty) = 0
        BY <3>1 DEF Torn, Empty, HeldAt
      <4> QED
        BY <2>2, <4>1, EmptyEntry DEF Genuine
    <3>2. CASE \E t \in saves : t.at = s.at /\ f = Whole(t.doc)
      BY <3>2 DEF Whole, CopiesInv
    <3> QED
      BY <2>3, <3>1, <3>2
  <2>5. \A p \in Peer : disk'[p] = IF p = s.at THEN f ELSE disk[p]
    BY <2>3 DEF SecretTypeOK
  <2> QED
    BY <2>1, <2>4, <2>5 DEF CopiesInv, DatesInv
<1>10. ASSUME NEW s \in saves, FailFile(s)
       PROVE  CopiesInv' /\ DatesInv'
  <2>1. /\ entry' = entry /\ posts' = posts
        /\ written' = written /\ writes' = writes
        /\ \A u \in saves' : \E t \in saves : u.at = t.at /\ u.doc = t.doc
    BY <1>10, SavesLeft DEF FailFile, SecretTypeOK
  <2>2. \A p \in Peer : disk'[p] = disk[p] \/ (p = s.at /\ disk'[p] = Whole(s.doc))
    BY <1>10 DEF FailFile, SecretTypeOK
  <2>3. Genuine(s.doc, written) /\ HeldAt(s.doc) <= HeldAt(entry[s.at]) /\ Whole(s.doc).doc = s.doc
    BY DEF CopiesInv, Whole
  <2> QED
    BY <2>1, <2>2, <2>3 DEF CopiesInv, DatesInv
<1>11. CASE UNCHANGED secretVars
  <2>1. /\ entry' = entry /\ disk' = disk /\ saves' = saves /\ posts' = posts
        /\ writes' = writes /\ written' = written
    BY <1>11 DEF secretVars
  <2> QED
    BY <1>0, <2>1 DEF CopiesInv, DatesInv
<1> QED
  BY <1>0, <1>1, <1>2, <1>3, <1>4, <1>5, <1>6, <1>7, <1>8, <1>9, <1>10, <1>11
  DEF SecretNext, SaveStep, Connecting

\* The store begins empty.
LEMMA InitInv == SecretInit => Inv
<1> SUFFICES ASSUME SecretInit PROVE Inv
  OBVIOUS
<1>1. HeldAt(Empty) = 0 /\ Genuine(Empty, written)
  BY EmptyEntry DEF Empty, HeldAt, Genuine
<1>2. \A g \in Peer : entry[g] = Empty /\ disk[g].doc = Empty
  BY DEF SecretInit, Whole
<1>3. saves = {} /\ posts = {} /\ written = {}
  BY DEF SecretInit
<1> QED
  BY <1>1, <1>2, <1>3, InitType DEF Inv, CopiesInv, DatesInv

---------------------------------------------------------------------------
(* The refinement *)

\* A step of one gateway is seen by the register as a step of that member.
LEMMA MappedMove ==
  ASSUME SecretTypeOK, NEW g \in Peer, NEW e \in Entry, entry' = [entry EXCEPT ![g] = e]
  PROVE  [p \in Peer |-> Held(entry'[p])] = [[p \in Peer |-> Held(entry[p])] EXCEPT ![g] = Held(e)]
<1>1. \A p \in Peer : entry'[p] = IF p = g THEN e ELSE entry[p]
  BY DEF SecretTypeOK
<1> DEFINE held == [p \in Peer |-> Held(entry[p])]
           seen == [p \in Peer |-> Held(entry'[p])]
           next == [held EXCEPT ![g] = Held(e)]
<1>2. next = [p \in Peer |-> IF p = g THEN Held(e) ELSE Held(entry[p])]
  BY Zenon
<1>3. \A p \in Peer : Held(entry'[p]) = IF p = g THEN Held(e) ELSE Held(entry[p])
  BY <1>1
<1> QED
  BY <1>2, <1>3

\* What is exchanged is learnt, or changes nothing.
LEMMA LearnStep ==
  ASSUME Inv, NEW g \in Peer, NEW e \in Entry, entry' = [entry EXCEPT ![g] = e],
         Genuine(e, written), HeldAt(entry[g]) <= HeldAt(e),
         written' = written, restarts' = restarts
  PROVE  [Register!LastNext]_(Register!lastVars)
<1> DEFINE held == [p \in Peer |-> Held(entry[p])]
           seen == [p \in Peer |-> Held(entry'[p])]
<1>1. entry[g] \in Entry /\ Genuine(entry[g], written)
  BY DEF Inv, SecretTypeOK, CopiesInv
<1>2. seen = [held EXCEPT ![g] = Held(e)]
  BY MappedMove DEF Inv
<1>3. HeldAt(e) \in Nat /\ HeldAt(entry[g]) \in Nat
      /\ Held(e).at = HeldAt(e) /\ Held(entry[g]).at = HeldAt(entry[g])
  BY <1>1, HeldDate
<1>4. CASE HeldAt(entry[g]) < HeldAt(e)
  <2>1. Held(e) \in written
    BY <1>3, <1>4 DEF Genuine, None
  <2>2. Held(e).at > held[g].at
    BY <1>3, <1>4
  <2>3. Register!Learn(g)
    BY <1>2, <2>1, <2>2 DEF Register!Learn
  <2> QED
    BY <2>3 DEF Register!LastNext
<1>5. CASE HeldAt(entry[g]) = HeldAt(e)
  <2>1. \A w \in written : w.at # 0
    BY DEF Inv, SecretTypeOK
  <2>2. Held(e) = Held(entry[g])
    BY <1>1, <1>3, <1>5, <2>1 DEF Inv, DatesInv, Genuine, None
  <2>3. seen = held
    BY <1>2, <2>2
  <2> QED
    BY <2>3 DEF Register!lastVars
<1> QED
  BY <1>3, <1>4, <1>5

\* An approval, a rotation or a revocation is a writing.
LEMMA WriteStep ==
  ASSUME Inv, NEW g \in Peer, NEW e \in Entry, entry' = [entry EXCEPT ![g] = e],
         NEW v \in {{}} \cup {{k} : k \in Key}, Held(e) = [at |-> writes + 1, value |-> v],
         written' = written \cup {Held(e)}, restarts' = restarts
  PROVE  Register!LastNext
<1> DEFINE held == [p \in Peer |-> Held(entry[p])]
           seen == [p \in Peer |-> Held(entry'[p])]
<1>1. seen = [held EXCEPT ![g] = Held(e)]
  BY MappedMove DEF Inv
<1>2. seen[g].at = writes + 1
  BY <1>1
<1>3. writes + 1 \in Nat \ {0} /\ \A w \in written : w.at < writes + 1
  BY SecretAssumption DEF Inv, DatesInv, SecretTypeOK
<1>4. Register!Write(g, v)
  BY <1>1, <1>2, <1>3 DEF Register!Write
<1> QED
  BY <1>4 DEF Register!LastNext

\* A restart recalls what the file held.
LEMMA RecallStep ==
  ASSUME Inv, NEW g \in Peer, RestartStore(g)
  PROVE  Register!LastNext
<1> DEFINE held == [p \in Peer |-> Held(entry[p])]
           seen == [p \in Peer |-> Held(entry'[p])]
           e == disk[g].doc
<1>1. e \in Entry /\ entry[g] \in Entry /\ Genuine(e, written) /\ HeldAt(e) <= HeldAt(entry[g])
  BY DEF Inv, SecretTypeOK, CopiesInv
<1>2. entry' = [entry EXCEPT ![g] = e] /\ written' = written /\ restarts' = restarts + 1
  BY DEF RestartStore
<1>3. seen = [held EXCEPT ![g] = Held(e)]
  BY <1>1, <1>2, MappedMove DEF Inv
<1>4. Held(e).at <= held[g].at
  BY <1>1, HeldDate
<1>5. Held(e) \in written \cup {[at |-> 0, value |-> {}]}
  BY <1>1 DEF Genuine, None
<1>6. Register!Recall(g)
  BY <1>2, <1>3, <1>4, <1>5 DEF Register!Recall
<1> QED
  BY <1>6 DEF Register!LastNext

\* Every step of the store is a step of the register or changes nothing in it.
LEMMA NextRefines ==
  ASSUME Inv, [SecretNext]_secretVars
  PROVE  [Register!LastNext]_(Register!lastVars)
<1>0. ASSUME entry' = entry, written' = written, restarts' = restarts
      PROVE  [Register!LastNext]_(Register!lastVars)
  BY <1>0 DEF Register!lastVars
<1>1. ASSUME NEW g \in Peer, NEW k \in Key, Set(g, k)
      PROVE  Register!LastNext
  <2> DEFINE e == [data |-> {k}, stamp |-> writes + 1, tomb |-> 0]
  <2>0. /\ writes \in Nat /\ writes + 1 \in 0..MaxWrite /\ 0 \in 0..MaxWrite
    BY <1>1, WriteRoom DEF Inv
  <2>1. e \in Entry /\ writes \in Nat
    BY <2>0 DEF Entry
  <2>2. Held(e) = [at |-> writes + 1, value |-> {k}]
    BY <2>1 DEF Held, HeldAt
  <2>3. entry' = [entry EXCEPT ![g] = e] /\ written' = written \cup {Held(e)} /\ restarts' = restarts
    BY <1>1, <2>2 DEF Set
  <2>4. {k} \in {{}} \cup {{x} : x \in Key}
    OBVIOUS
  <2> QED
    BY <2>1, <2>2, <2>3, <2>4, WriteStep
<1>2. ASSUME NEW g \in Peer, DeleteSecret(g)
      PROVE  Register!LastNext
  <2> DEFINE e == [data |-> {}, stamp |-> 0, tomb |-> writes + 1]
  <2>0. /\ writes \in Nat /\ writes + 1 \in 0..MaxWrite /\ 0 \in 0..MaxWrite
    BY <1>2, WriteRoom DEF Inv
  <2>1. e \in Entry /\ writes \in Nat
    BY <2>0 DEF Entry
  <2>2. Held(e) = [at |-> writes + 1, value |-> {}]
    <3>1. HeldAt(e) = writes + 1
      BY <2>1 DEF HeldAt
    <3> QED
      BY <3>1 DEF Held
  <2>3. entry' = [entry EXCEPT ![g] = e] /\ written' = written \cup {Held(e)} /\ restarts' = restarts
    BY <1>2, <2>2 DEF DeleteSecret
  <2>4. {} \in {{}} \cup {{x} : x \in Key}
    OBVIOUS
  <2> QED
    BY <2>1, <2>2, <2>3, <2>4, WriteStep
<1>3. ASSUME NEW g \in Peer, PushSecrets(g) \/ Connecting(g)
      PROVE  [Register!LastNext]_(Register!lastVars)
  BY <1>0, <1>3 DEF PushSecrets, Connecting, CheckAgent, LinkAgent, LoseAgent, RevokeAgent, StoreSame
<1>4. ASSUME NEW m \in posts, ReceiveSecrets(m)
      PROVE  [Register!LastNext]_(Register!lastVars)
  <2>1. m.to \in Peer /\ m.doc \in Entry /\ Genuine(m.doc, written) /\ ApplyReplica(m.to, m.doc)
    BY <1>4 DEF ReceiveSecrets, Inv, SecretTypeOK, CopiesInv
  <2>2. written' = written /\ restarts' = restarts
    BY <1>4 DEF ReceiveSecrets
  <2> QED
    BY <2>1, <2>2, ReplicaMove, LearnStep
<1>5. ASSUME NEW g \in Peer, NEW p \in Peer, PullSecrets(g, p)
      PROVE  [Register!LastNext]_(Register!lastVars)
  <2>1. entry[p] \in Entry /\ Genuine(entry[p], written) /\ ApplyReplica(g, entry[p])
    BY <1>5 DEF PullSecrets, Inv, SecretTypeOK, CopiesInv
  <2>2. written' = written /\ restarts' = restarts
    BY <1>5 DEF PullSecrets
  <2> QED
    BY <2>1, <2>2, ReplicaMove, LearnStep
<1>6. ASSUME NEW s \in saves, SaveStep(s)
      PROVE  [Register!LastNext]_(Register!lastVars)
  BY <1>0, <1>6 DEF SaveStep, Marshal, WriteFile, FailFile
<1>7. CASE UNCHANGED secretVars
  BY <1>0, <1>7 DEF secretVars
<1> QED
  BY <1>1, <1>2, <1>3, <1>4, <1>5, <1>6, <1>7, RecallStep DEF SecretNext, Connecting

\* The store begins as the register does.
LEMMA InitRefines == SecretInit => Register!LastInit
  BY EmptyEntry DEF SecretInit, Register!LastInit, None

\* Whatever is pushed, pulled, delayed, lost or saved, the store of the Agents' secrets
\* implements the register: Set and Delete write, a merge learns a later writing whole or
\* changes nothing, and only a restart goes back.
THEOREM Refines == SecretSpec => NewestWins
<1>1. Inv /\ [SecretNext]_secretVars => Inv'
  BY NextInv
<1>2. Inv /\ [SecretNext]_secretVars => [Register!LastNext]_(Register!lastVars)
  BY NextRefines
<1> QED
  BY InitInv, InitRefines, <1>1, <1>2, PTL DEF SecretSpec, NewestWins, Register!LastSpec

---------------------------------------------------------------------------
(* Connections *)

\* A merge that takes a secret away saves the removal as one.
LEMMA ReplicaLinks ==
  ASSUME SecretTypeOK, LinkedHasSecret, NEW g \in Peer, NEW r \in Entry, ApplyReplica(g, r),
         UNCHANGED linkVars
  PROVE  LinkedHasSecret'
<1> DEFINE m == Merge(entry[g], r)
           d == MergeData(entry[g], r)
<1>1. entry[g].data # {} => d.data # {}
  BY DEF MergeData, SecretTypeOK, Entry
<1>2. \A p \in Peer : entry'[p] = IF p = g THEN m ELSE entry[p]
  BY DEF ApplyReplica, SecretTypeOK
<1>3. saves \subseteq saves' /\ linked' = linked /\ lapsed' = lapsed /\ linked \subseteq Peer
  BY DEF ApplyReplica, linkVars, SecretTypeOK
<1>4. ASSUME entry[g].data # {}, m.data = {}
      PROVE  \E s \in saves' : s.at = g /\ s.removed
  <2>1. m # entry[g]
    BY <1>4
  <2>2. NewSave(g, TRUE) \in saves'
    BY <1>1, <1>4, <2>1 DEF ApplyReplica
  <2> QED
    BY <2>2 DEF NewSave
<1> HIDE DEF m, d
<1>5. ASSUME NEW p \in linked \ lapsed, m.data = {}, p = g
      PROVE  \E s \in saves' : s.at = p /\ s.removed
  BY <1>3, <1>4, <1>5 DEF LinkedHasSecret
<1> QED
  BY <1>2, <1>3, <1>5 DEF LinkedHasSecret

\* A path that takes an Agent's secret away (a revocation, a merged removal whose save goes
\* well, a restart) closes its connection, or will once the save is over: apart from the
\* lapses of LinkedHasSecret no connection outlives its secret.
THEOREM LinkSafe == SecretSpec => []LinkedHasSecret
<1>1. SecretInit => LinkedHasSecret
  BY DEF SecretInit, LinkedHasSecret
<1>2. ASSUME SecretTypeOK, LinkedHasSecret, [SecretNext]_secretVars
      PROVE  LinkedHasSecret'
  <2> USE <1>2
  <2>0. linked \subseteq Peer /\ saves \subseteq Save
    BY DEF SecretTypeOK
  <2>2. ASSUME NEW g \in Peer, NEW k \in Key, Set(g, k)
        PROVE  LinkedHasSecret'
    BY <2>2 DEF Set, linkVars, SecretTypeOK, LinkedHasSecret
  <2>3. ASSUME NEW g \in Peer, DeleteSecret(g)
        PROVE  LinkedHasSecret'
    BY <2>3 DEF DeleteSecret, SecretTypeOK, LinkedHasSecret
  <2>4. ASSUME NEW g \in Peer, RestartStore(g)
        PROVE  LinkedHasSecret'
    <3>1. \A p \in linked' \ lapsed' : p \in linked \ lapsed /\ p # g /\ entry'[p] = entry[p]
      BY <2>4 DEF RestartStore, SecretTypeOK
    <3>2. \A s \in saves : s.at # g => s \in saves'
      BY <2>4 DEF RestartStore
    <3> QED
      BY <3>1, <3>2 DEF LinkedHasSecret
  <2>5. ASSUME NEW g \in Peer, PushSecrets(g)
        PROVE  LinkedHasSecret'
    BY <2>5 DEF PushSecrets, linkVars, LinkedHasSecret
  <2>6. ASSUME NEW g \in Peer, Connecting(g)
        PROVE  LinkedHasSecret'
    BY <2>6 DEF Connecting, CheckAgent, LinkAgent, LoseAgent, RevokeAgent, StoreSame, LinkedHasSecret
  <2>7. ASSUME NEW m \in posts, ReceiveSecrets(m)
        PROVE  LinkedHasSecret'
    BY <2>7, ReplicaLinks DEF ReceiveSecrets, SecretTypeOK
  <2>8. ASSUME NEW g \in Peer, NEW p \in Peer, PullSecrets(g, p)
        PROVE  LinkedHasSecret'
    BY <2>8, ReplicaLinks DEF PullSecrets, SecretTypeOK
  <2>9. ASSUME NEW s \in saves, Marshal(s)
        PROVE  LinkedHasSecret'
    <3> DEFINE w == [at |-> s.at, pc |-> "write", removed |-> s.removed, doc |-> entry[s.at]]
    <3>1. w \in saves' /\ saves \ {s} \subseteq saves' /\ w.at = s.at /\ w.removed = s.removed
      BY <2>9 DEF Marshal
    <3>2. entry' = entry /\ linked' = linked /\ lapsed' = lapsed
      BY <2>9 DEF Marshal, linkVars
    <3> HIDE DEF w
    <3> QED
      BY <3>1, <3>2 DEF LinkedHasSecret
  <2>10. ASSUME NEW s \in saves, WriteFile(s)
         PROVE  LinkedHasSecret'
    <3>1. \A t \in saves \ {s} : \E u \in saves' : u.at = t.at /\ u.removed = t.removed
      BY <2>10, <2>0, SavesLeft DEF WriteFile
    <3>2. /\ entry' = entry /\ lapsed' = lapsed \cap linked' /\ linked' \subseteq linked
          /\ s.removed => s.at \notin linked'
      BY <2>10 DEF WriteFile
    <3> QED
      BY <3>1, <3>2 DEF LinkedHasSecret
  <2>11. ASSUME NEW s \in saves, FailFile(s)
         PROVE  LinkedHasSecret'
    <3>1. \A t \in saves \ {s} : \E u \in saves' : u.at = t.at /\ u.removed = t.removed
      BY <2>11, <2>0, SavesLeft DEF FailFile
    <3>2. /\ entry' = entry /\ linked' = linked /\ lapsed \subseteq lapsed'
          /\ s.removed /\ s.at \in linked => s.at \in lapsed'
      BY <2>11 DEF FailFile
    <3> QED
      BY <3>1, <3>2 DEF LinkedHasSecret
  <2>12. CASE UNCHANGED secretVars
    BY <2>12 DEF secretVars, linkVars, LinkedHasSecret
  <2> QED
    BY <2>2, <2>3, <2>4, <2>5, <2>6, <2>7, <2>8, <2>9, <2>10, <2>11, <2>12
    DEF SecretNext, SaveStep, Connecting
<1> QED
  BY <1>1, <1>2, TypeCorrect, PTL DEF SecretSpec

---------------------------------------------------------------------------
(* Members that have nothing more to learn *)

\* A merge leaves nothing earlier than what the peer holds.
LEMMA MergeLatest ==
  ASSUME NEW a \in Entry, NEW b \in Entry, Well(a), Well(b)
  PROVE  HeldAt(Merge(a, b)) >= HeldAt(b)
<1> DEFINE d == MergeData(a, b)
<1>1. /\ a.stamp \in Nat /\ a.tomb \in Nat /\ b.stamp \in Nat /\ b.tomb \in Nat
      /\ a = [data |-> a.data, stamp |-> a.stamp, tomb |-> a.tomb]
  BY EntryFields
<1>2. CASE b.data # {} /\ b.stamp > a.stamp /\ b.stamp > a.tomb
  <2>1. d = [data |-> b.data, stamp |-> b.stamp, tomb |-> a.tomb]
    BY <1>1, <1>2 DEF MergeData
  <2>2. Merge(a, b) = d
    BY <1>1, <1>2, <2>1 DEF Merge, MergeTomb, Well
  <2> QED BY <1>1, <1>2, <2>1, <2>2 DEF HeldAt, Well
<1>3. CASE ~(b.data # {} /\ b.stamp > a.stamp /\ b.stamp > a.tomb)
  <2>1. Merge(a, b) = MergeTomb(a, b)
    BY <1>3 DEF Merge, MergeData
  <2>2. CASE b.tomb > a.tomb /\ b.tomb > a.stamp
    <3>1. Merge(a, b) = [data |-> {}, stamp |-> 0, tomb |-> b.tomb]
      BY <2>1, <2>2 DEF MergeTomb
    <3>2. b.stamp <= b.tomb
      BY <1>1, <1>3, <2>2 DEF Well
    <3> QED BY <1>1, <3>1, <3>2 DEF HeldAt
  <2>3. CASE ~(b.tomb > a.tomb /\ b.tomb > a.stamp)
    <3>1. Merge(a, b) = a
      BY <2>1, <2>3 DEF MergeTomb
    <3> QED BY <1>1, <1>3, <2>3, <3>1 DEF HeldAt, Well
  <2> QED BY <2>2, <2>3
<1> QED BY <1>2, <1>3

\* Two entries of one date are one writing.
LEMMA DateDecides ==
  ASSUME Inv, NEW a \in Entry, NEW b \in Entry, Genuine(a, written), Genuine(b, written),
         HeldAt(a) = HeldAt(b)
  PROVE  Held(a) = Held(b)
<1>1. Held(a).at = Held(b).at
  BY HeldDate
<1>2. \A w \in written : w.at # 0
  BY SecretAssumption DEF Inv, SecretTypeOK
<1>3. Held(a) \in written \cup {None} /\ Held(b) \in written \cup {None} /\ None.at = 0
  BY DEF Genuine, None
<1> QED BY <1>1, <1>2, <1>3 DEF Inv, DatesInv

\* Members none of which learns anything from another (syncAgentReplicaFromPeer) hold the same
\* writing: a merge takes what is later, and a date stands for one writing.
THEOREM SecretsSettle == SecretSpec => []SecretsAgree
<1>1. ASSUME Inv PROVE SecretsAgree
  <2> SUFFICES ASSUME \A g, p \in Peer : Merge(entry[g], entry[p]) = entry[g],
                      NEW g \in Peer, NEW p \in Peer
               PROVE  Held(entry[g]) = Held(entry[p])
    BY DEF SecretsAgree
  <2>1. /\ entry[g] \in Entry /\ entry[p] \in Entry
        /\ Genuine(entry[g], written) /\ Genuine(entry[p], written)
    BY <1>1 DEF Inv, SecretTypeOK, CopiesInv
  <2>2. HeldAt(entry[g]) >= HeldAt(entry[p]) /\ HeldAt(entry[p]) >= HeldAt(entry[g])
    BY <2>1, MergeLatest DEF Genuine
  <2>3. HeldAt(entry[g]) = HeldAt(entry[p])
    BY <2>1, <2>2, HeldDate
  <2> QED BY <1>1, <2>1, <2>3, DateDecides
<1>2. Inv /\ [SecretNext]_secretVars => Inv'
  BY NextInv
<1> QED BY <1>1, <1>2, InitInv, PTL DEF SecretSpec

=================================================================================
