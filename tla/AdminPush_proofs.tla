----------------------------- MODULE AdminPush_proofs -----------------------------
(***************************************************************************)
(* Proofs about AdminPush and JournalRegister: what a gateway tells its      *)
(* peers it uses is what it uses, gateways that have nothing to ask of each  *)
(* other have one document, and their journals are a register whose last     *)
(* writing wins, for any gateways, documents, changes and faults.           *)
(***************************************************************************)
EXTENDS JournalRegister, TLAPS

Phases == {"down", "sync", "send", "flush", "read"}
Pushes == [to : Edge, doc : Document, n : 0..MaxEdit, conn : Nat]

\* PushTypeOK in three parts: the Administration, what is under way, the gateways.
AdminTypes ==
  /\ document \in Document /\ edits \in 0..MaxEdit /\ breaks \in 0..MaxBreak
  /\ pushes \subseteq Pushes
  /\ alive \in [Edge -> BOOLEAN] /\ gen \in [Edge -> Nat] /\ now \in Nat
ClientTypes == client \in [Edge -> Client]
WireTypes == wire \in [Edge -> Seq(Document)]
EdgeTypes ==
  /\ applied \in [Edge -> Document] /\ journal \in [Edge -> Entries]
  /\ handler \in [Edge -> SUBSET Document] /\ merging \in [Edge -> SUBSET Merging]

\* The invariant of one gateway, in two parts: its journal and its client.
Journalled(g) ==
  /\ journal[g].at <= now
  /\ handler[g] \subseteq {applied[g]}
  /\ handler[g] = {} \/ merging[g] = {}
  /\ \A m \in merging[g] : /\ m.entry.at > journal[g].at /\ m.entry.at <= now
                           /\ m.done => m.entry.doc = applied[g]
Linked(g) ==
  /\ client[g].phase \in {"sync", "send", "flush"} =>
       \A p \in pushes : p.to = g => p.conn = 0
  /\ client[g].phase \in {"sync", "send"} /\ alive[g] => client[g].conn # 0
\* The document used is about to be journalled.
Noted(g) == journal[g].doc = applied[g] \/ handler[g] # {} \/ \E m \in merging[g] : m.done
Due(g) == ~alive[g] \/ client[g].phase \in {"sync", "send"} \/ wire[g] # <<>>

Types == AdminTypes /\ ClientTypes /\ WireTypes /\ EdgeTypes
PushParts == Types /\ \A g \in Edge : Journalled(g) /\ Linked(g) /\ (Noted(g) \/ Due(g))

LEMMA PushInvParts == PushParts <=> PushInv
BY DEF PushParts, Types, PushInv, PushTypeOK, AdminTypes, ClientTypes, WireTypes, EdgeTypes, Pushes,
       Journalled, Linked, Noted, Due

LEMMA ClientFields ==
  ASSUME NEW c \in Client
  PROVE  /\ c.conn \in Nat /\ c.phase \in Phases /\ c.snap \in SUBSET Document
         /\ c.pending \in Seq(Document) /\ c.queued \in Seq(Document)
BY DEF Client, Phases

\* The fields of a client changed one by one.
LEMMA ClientChanges ==
  ASSUME NEW c \in Client
  PROVE  /\ \A n \in Nat : LET d == [c EXCEPT !.conn = n] IN
              d \in Client /\ d.conn = n /\ d.phase = c.phase
         /\ \A ph \in Phases : LET d == [c EXCEPT !.phase = ph] IN
              d \in Client /\ d.conn = c.conn /\ d.phase = ph
BY DEF Client, Phases

---------------------------------------------------------------------------
(* The Administration: what gateways use and journal does not change *)

LEMMA AdminSteps ==
  ASSUME PushParts, UNCHANGED edgeSide, Types',
         \A g \in Edge : Linked(g)' /\ (Due(g) => Due(g)')
  PROVE  PushParts'
<1>1. \A g \in Edge : Journalled(g)' /\ (Noted(g) => Noted(g)')
  BY DEF edgeSide, PushParts, Journalled, Noted
<1> QED BY <1>1 DEF PushParts

LEMMA EditStep ==
  ASSUME PushParts, NEW d \in Document, Edit(d)
  PROVE  PushParts'
<1> DEFINE new == {[to |-> g, doc |-> d, n |-> edits, conn |-> 0] : g \in Edge}
<1>1. /\ edits < MaxEdit /\ edits' = edits + 1 /\ document' = d /\ pushes' = pushes \cup new
      /\ UNCHANGED <<client, alive, gen, wire, edgeSide, breaks>>
  BY DEF Edit
<1>2. \A p \in new : p \in Pushes /\ p.conn = 0
  BY PushAssumption DEF PushParts, Types, AdminTypes, Pushes
<1> HIDE DEF new
<1>3. Types'
  BY <1>1, <1>2, PushAssumption
     DEF PushParts, Types, AdminTypes, ClientTypes, WireTypes, EdgeTypes, edgeSide
<1>4. \A g \in Edge : Linked(g)' /\ (Due(g) => Due(g)')
  BY <1>1, <1>2 DEF PushParts, Linked, Due
<1> QED BY <1>1, <1>3, <1>4, AdminSteps

\* A goroutine that pushes changes at most the connection and what waits of its client, and
\* adds to what is under way.
LEMMA PushGoesOn ==
  ASSUME PushParts, NEW p \in pushes, NEW c \in Client, NEW q \in Pushes,
         c.phase = client[p.to].phase, q.to = p.to,
         client' = [client EXCEPT ![p.to] = c],
         pushes' \subseteq (pushes \ {p}) \cup {q},
         c.phase \in {"sync", "send", "flush"} => q.conn = 0,
         c.phase \in {"sync", "send"} => c.conn = client[p.to].conn,
         UNCHANGED <<document, edits, alive, gen, edgeSide, breaks>>,
         WireTypes', \A g \in Edge : wire[g] # <<>> => wire'[g] # <<>>
  PROVE  PushParts'
<1>1. p \in Pushes /\ p.to \in Edge
  BY DEF PushParts, Types, AdminTypes, Pushes
<1>2. /\ client'[p.to] = c /\ \A g \in Edge \ {p.to} : client'[g] = client[g]
      /\ ClientTypes'
  BY <1>1 DEF PushParts, Types, ClientTypes
<1>3. Types'
  BY <1>2 DEF PushParts, Types, AdminTypes, EdgeTypes, edgeSide
<1>4. \A g \in Edge : client'[g].phase = client[g].phase
  BY <1>2
<1>5. ASSUME NEW g \in Edge PROVE Linked(g)'
  <2>1. Linked(g)
    BY DEF PushParts
  <2>2. CASE g = p.to
    BY <1>2, <2>1, <2>2 DEF Linked
  <2>3. CASE g # p.to
    BY <1>2, <2>1, <2>3 DEF Linked
  <2> QED BY <2>2, <2>3
<1>6. \A g \in Edge : Due(g) => Due(g)'
  BY <1>4 DEF Due
<1> QED BY <1>3, <1>5, <1>6, AdminSteps

LEMMA PushSteps ==
  ASSUME ~PushOverlap, PushParts, NEW p \in pushes, Enqueue(p) \/ TakeConn(p) \/ WriteDoc(p)
  PROVE  PushParts'
<1> PICK c : c = client[p.to]
  OBVIOUS
<1>1. p \in Pushes /\ p.to \in Edge /\ p.doc \in Document /\ c \in Client
  BY DEF PushParts, Types, AdminTypes, ClientTypes, Pushes
<1>2. Linked(p.to)
  BY <1>1 DEF PushParts
<1>3. client = [client EXCEPT ![p.to] = c]
  BY <1>1 DEF PushParts, Types, ClientTypes
<1>4. CASE Enqueue(p)
  <2> DEFINE d == [c EXCEPT !.pending = Append(c.pending, p.doc)]
  <2>1. client' = [client EXCEPT ![p.to] = d] /\ pushes' = pushes \ {p}
        /\ UNCHANGED <<document, edits, alive, gen, wire, edgeSide, breaks>> /\ p.conn = 0
    BY <1>4 DEF Enqueue
  <2>2. Append(c.pending, p.doc) \in Seq(Document)
    BY <1>1, ClientFields
  <2>3. d \in Client /\ d.phase = c.phase /\ d.conn = c.conn
    BY <1>1, <2>2 DEF Client
  <2>4. WireTypes'
    BY <2>1 DEF PushParts, Types, WireTypes
  <2> HIDE DEF d
  <2> QED BY <1>1, <2>1, <2>3, <2>4, PushGoesOn
<1>5. CASE TakeConn(p)
  <2> DEFINE q == [p EXCEPT !.conn = c.conn]
  <2>1. /\ p.conn = 0 /\ pushes' = (pushes \ {p}) \cup {q}
        /\ PushOverlap \/ c.phase \in {"down", "read"}
        /\ UNCHANGED <<document, edits, client, alive, gen, wire, edgeSide, breaks>>
    BY <1>5 DEF TakeConn
  <2>2. q \in Pushes /\ q.to = p.to
    BY <1>1, ClientFields DEF Pushes
  <2>3. WireTypes'
    BY <2>1 DEF PushParts, Types, WireTypes
  <2>4. c.phase \notin {"sync", "send", "flush"}
    BY <2>1
  <2> HIDE DEF q
  <2> QED BY <1>1, <1>3, <2>1, <2>2, <2>3, <2>4, PushGoesOn
<1>6. CASE WriteDoc(p)
  <2>1. p.conn # 0 /\ pushes' = pushes \ {p}
        /\ UNCHANGED <<document, edits, alive, gen, edgeSide, breaks>>
    BY <1>6 DEF WriteDoc
  <2>2. c.phase \notin {"sync", "send", "flush"}
    BY <1>1, <1>2, <2>1 DEF Linked
  <2>3. CASE UNCHANGED client /\ wire' = [wire EXCEPT ![p.to] = Append(wire[p.to], p.doc)]
    <3>1. WireTypes' /\ \A g \in Edge : wire[g] # <<>> => wire'[g] # <<>>
      BY <1>1, <2>3 DEF PushParts, Types, WireTypes
    <3> QED BY <1>1, <1>3, <2>1, <2>2, <2>3, <3>1, PushGoesOn
  <2>4. CASE client' = [client EXCEPT ![p.to].conn = 0] /\ UNCHANGED wire
    <3> DEFINE d == [c EXCEPT !.conn = 0]
    <3>1. d \in Client /\ d.phase = c.phase
      BY <1>1, ClientChanges
    <3>2. client' = [client EXCEPT ![p.to] = d]
      BY <2>4
    <3>3. WireTypes'
      BY <2>4 DEF PushParts, Types, WireTypes
    <3> HIDE DEF d
    <3> QED BY <1>1, <2>1, <2>2, <2>4, <3>1, <3>2, <3>3, PushGoesOn
  <2> QED BY <1>6, <2>3, <2>4 DEF WriteDoc
<1> QED BY <1>4, <1>5, <1>6

\* The goroutine of connect goes on: its client becomes c.
LEMMA ConnectGoesOn ==
  ASSUME PushParts, NEW g \in Edge, NEW c \in Client,
         client' = [client EXCEPT ![g] = c],
         c.phase \in {"sync", "send", "flush"} => client[g].phase \in {"sync", "send", "flush"},
         c.phase \in {"sync", "send"} /\ alive[g] => c.conn # 0,
         Due(g) => ~alive[g] \/ c.phase \in {"sync", "send"} \/ wire'[g] # <<>>,
         \A h \in Edge \ {g} : wire'[h] = wire[h],
         UNCHANGED <<document, edits, pushes, alive, gen, edgeSide, breaks>>, WireTypes'
  PROVE  PushParts'
<1>1. /\ client'[g] = c /\ \A h \in Edge \ {g} : client'[h] = client[h]
      /\ ClientTypes'
  BY DEF PushParts, Types, ClientTypes
<1>2. Types'
  BY <1>1 DEF PushParts, Types, AdminTypes, EdgeTypes, edgeSide
<1>3. ASSUME NEW h \in Edge PROVE Linked(h)'
  <2>1. Linked(h)
    BY DEF PushParts
  <2>2. CASE h = g
    BY <1>1, <2>1, <2>2 DEF Linked
  <2>3. CASE h # g
    BY <1>1, <2>1, <2>3 DEF Linked
  <2> QED BY <2>2, <2>3
<1>4. \A h \in Edge : Due(h) => Due(h)'
  BY <1>1 DEF Due
<1> QED BY <1>2, <1>3, <1>4, AdminSteps

LEMMA DialStep ==
  ASSUME ~PushOverlap, PushParts, NEW g \in Edge, Dial(g)
  PROVE  PushParts'
<1> PICK c : c = client[g]
  OBVIOUS
<1> DEFINE d == [c EXCEPT !.conn = gen[g] + 1, !.phase = "sync"]
<1>1. /\ c.phase = "down" /\ \A p \in pushes : p.to = g => p.conn = 0
      /\ gen' = [gen EXCEPT ![g] = gen[g] + 1] /\ alive' = [alive EXCEPT ![g] = TRUE]
      /\ client' = [client EXCEPT ![g] = d]
      /\ UNCHANGED <<document, edits, pushes, wire, edgeSide, breaks>>
  BY DEF Dial
<1>2. c \in Client /\ gen[g] \in Nat
  BY DEF PushParts, Types, AdminTypes, ClientTypes
<1>3. d \in Client /\ d.phase = "sync" /\ d.conn # 0
  <2> DEFINE n == gen[g] + 1
  <2>1. n \in Nat /\ n # 0
    BY <1>2
  <2> HIDE DEF n
  <2>2. [c EXCEPT !.conn = n, !.phase = "sync"] \in Client
    BY <1>2, <2>1 DEF Client
  <2>3. LET e == [c EXCEPT !.conn = n, !.phase = "sync"] IN e.conn = n /\ e.phase = "sync"
    BY <1>2 DEF Client
  <2> QED BY <2>1, <2>2, <2>3 DEF n
<1> HIDE DEF d
<1>4. /\ client'[g] = d /\ \A h \in Edge \ {g} : client'[h] = client[h] /\ alive'[h] = alive[h]
      /\ ClientTypes'
  BY <1>1, <1>3 DEF PushParts, Types, ClientTypes, AdminTypes
<1>5. Types'
  <2>1. gen' \in [Edge -> Nat]
    BY <1>1, <1>2 DEF PushParts, Types, AdminTypes
  <2>2. alive' \in [Edge -> BOOLEAN]
    BY <1>1 DEF PushParts, Types, AdminTypes
  <2> QED BY <1>1, <1>4, <2>1, <2>2 DEF PushParts, Types, AdminTypes, EdgeTypes, WireTypes, edgeSide
<1>6. ASSUME NEW h \in Edge PROVE Linked(h)' /\ (Due(h) => Due(h)')
  <2>1. Linked(h)
    BY DEF PushParts
  <2>2. CASE h = g
    BY <1>1, <1>3, <1>4, <2>2 DEF Linked, Due
  <2>3. CASE h # g
    BY <1>1, <1>4, <2>1, <2>3 DEF Linked, Due
  <2> QED BY <2>2, <2>3
<1> QED BY <1>1, <1>5, <1>6, AdminSteps

\* A message is sent, waits, or is lost with the connection.
LEMMA TransmitStep ==
  ASSUME PushParts, NEW g \in Edge, NEW c \in Client, NEW d \in Document, Transmit(g, c, d),
         client[g].phase \in {"send", "flush"}, c.phase = "flush",
         client[g].phase = "send" /\ alive[g] => c.conn # 0,
         UNCHANGED <<document, edits, pushes, alive, gen, edgeSide, breaks>>
  PROVE  PushParts'
<1>1. \E e \in Client : /\ client' = [client EXCEPT ![g] = e] /\ e.phase = "flush"
                        /\ \/ wire' = [wire EXCEPT ![g] = Append(wire[g], d)]
                           \/ UNCHANGED wire /\ (c.conn = 0 \/ ~alive[g])
  <2>1. CASE c.conn = 0
    <3> DEFINE e == [c EXCEPT !.pending = Append(c.pending, d)]
    <3>1. Append(c.pending, d) \in Seq(Document)
      BY ClientFields
    <3>2. e \in Client /\ e.phase = "flush"
      BY <3>1 DEF Client
    <3>3. client' = [client EXCEPT ![g] = e] /\ UNCHANGED wire
      BY <2>1 DEF Transmit
    <3> HIDE DEF e
    <3> QED BY <2>1, <3>2, <3>3
  <2>2. CASE c.conn # 0 /\ alive[g]
    BY <2>2 DEF Transmit
  <2>3. CASE c.conn # 0 /\ ~alive[g]
    <3>1. client' = [client EXCEPT ![g] = [c EXCEPT !.conn = 0]] /\ UNCHANGED wire
      BY <2>3 DEF Transmit
    <3> QED BY <2>3, <3>1, ClientChanges
  <2> QED BY <2>1, <2>2, <2>3
<1>2. PICK e \in Client : /\ client' = [client EXCEPT ![g] = e] /\ e.phase = "flush"
                          /\ \/ wire' = [wire EXCEPT ![g] = Append(wire[g], d)]
                             \/ UNCHANGED wire /\ (c.conn = 0 \/ ~alive[g])
  BY <1>1
<1>3. wire \in [Edge -> Seq(Document)]
  BY DEF PushParts, Types, WireTypes
<1>4. CASE UNCHANGED wire
  <2>1. WireTypes' /\ \A h \in Edge : wire'[h] = wire[h]
    BY <1>3, <1>4 DEF WireTypes
  <2>2. c.conn = 0 \/ ~alive[g] \/ wire'[g] # <<>>
    BY <1>2, <1>3
  <2>3. Due(g) => ~alive[g] \/ wire'[g] # <<>>
    BY <2>1, <2>2 DEF Due
  <2> QED BY <1>2, <2>1, <2>3, ConnectGoesOn
<1>5. CASE wire' = [wire EXCEPT ![g] = Append(wire[g], d)]
  <2> DEFINE w == Append(wire[g], d)
  <2>1. w \in Seq(Document) /\ w # <<>>
    BY <1>3
  <2>2. wire' = [wire EXCEPT ![g] = w]
    BY <1>5
  <2> HIDE DEF w
  <2>3. WireTypes' /\ wire'[g] = w /\ \A h \in Edge \ {g} : wire'[h] = wire[h]
    BY <1>3, <2>1, <2>2 DEF WireTypes
  <2> QED BY <1>2, <2>1, <2>3, ConnectGoesOn
<1> QED BY <1>2, <1>4, <1>5

LEMMA ConnectSteps ==
  ASSUME PushParts, NEW g \in Edge,
         \/ SyncLoad(g) \/ SyncSend(g) \/ TakePending(g) \/ SendPending(g)
         \/ StartReading(g) \/ Disconnected(g)
  PROVE  PushParts'
<1> PICK c : c = client[g]
  OBVIOUS
<1>1. c \in Client /\ Linked(g) /\ document \in Document
  BY DEF PushParts, Types, AdminTypes, ClientTypes
<1>2. ASSUME UNCHANGED wire PROVE WireTypes'
  BY <1>2 DEF PushParts, Types, WireTypes
<1>3. CASE SyncLoad(g)
  <2> DEFINE d == [c EXCEPT !.phase = "send", !.snap = {document}]
  <2>1. /\ c.phase = "sync" /\ client' = [client EXCEPT ![g] = d]
        /\ UNCHANGED <<document, edits, pushes, alive, gen, wire, edgeSide, breaks>>
    BY <1>3 DEF SyncLoad
  <2>2. d \in Client /\ d.phase = "send" /\ d.conn = c.conn
    BY <1>1 DEF Client
  <2> HIDE DEF d
  <2> QED BY <1>1, <1>2, <2>1, <2>2, ConnectGoesOn DEF Linked
<1>4. CASE SyncSend(g)
  <2> DEFINE d == [c EXCEPT !.phase = "flush", !.snap = {}]
  <2>1. /\ c.phase = "send" /\ \E e \in c.snap : Transmit(g, d, e)
        /\ UNCHANGED <<document, edits, pushes, alive, gen, edgeSide, breaks>>
    BY <1>4 DEF SyncSend
  <2>2. d \in Client /\ d.phase = "flush" /\ d.conn = c.conn
    BY <1>1 DEF Client
  <2>3. c.snap \subseteq Document
    BY <1>1, ClientFields
  <2> HIDE DEF d
  <2> QED BY <1>1, <2>1, <2>2, <2>3, TransmitStep DEF Linked
<1>5. CASE TakePending(g)
  <2> DEFINE d == [c EXCEPT !.queued = c.pending, !.pending = <<>>]
  <2>1. /\ c.phase = "flush" /\ client' = [client EXCEPT ![g] = d]
        /\ UNCHANGED <<document, edits, pushes, alive, gen, wire, edgeSide, breaks>>
    BY <1>5 DEF TakePending
  <2>2. c.pending \in Seq(Document) /\ <<>> \in Seq(Document)
    BY <1>1, ClientFields
  <2>3. \A w, v \in Seq(Document) : LET e == [c EXCEPT !.queued = w, !.pending = v] IN
          e \in Client /\ e.phase = c.phase
    BY <1>1 DEF Client
  <2>4. d \in Client /\ d.phase = "flush"
    BY <2>1, <2>2, <2>3
  <2> HIDE DEF d
  <2> QED BY <1>2, <2>1, <2>4, ConnectGoesOn DEF Due
<1>6. CASE SendPending(g)
  <2> DEFINE d == [c EXCEPT !.queued = Tail(c.queued)]
  <2>1. /\ c.phase = "flush" /\ c.queued # <<>> /\ Transmit(g, d, Head(c.queued))
        /\ UNCHANGED <<document, edits, pushes, alive, gen, edgeSide, breaks>>
    BY <1>6 DEF SendPending
  <2>2. Tail(c.queued) \in Seq(Document) /\ Head(c.queued) \in Document
    BY <1>1, <2>1, ClientFields
  <2>3. d \in Client /\ d.phase = "flush"
    BY <1>1, <2>1, <2>2 DEF Client
  <2> HIDE DEF d
  <2> QED BY <2>1, <2>2, <2>3, TransmitStep
<1>7. CASE StartReading(g)
  <2> DEFINE d == [c EXCEPT !.phase = "read"]
  <2>1. /\ c.phase = "flush" /\ client' = [client EXCEPT ![g] = d]
        /\ UNCHANGED <<document, edits, pushes, alive, gen, wire, edgeSide, breaks>>
    BY <1>7 DEF StartReading
  <2>2. d \in Client /\ d.phase = "read"
    BY <1>1 DEF Client
  <2> HIDE DEF d
  <2> QED BY <1>2, <2>1, <2>2, ConnectGoesOn DEF Due
<1>8. CASE Disconnected(g)
  <2> DEFINE d == [c EXCEPT !.phase = "down", !.conn = 0]
  <2>1. /\ ~alive[g] /\ client' = [client EXCEPT ![g] = d]
        /\ UNCHANGED <<document, edits, pushes, alive, gen, wire, edgeSide, breaks>>
    BY <1>8 DEF Disconnected
  <2>2. d \in Client /\ d.phase = "down"
    BY <1>1 DEF Client
  <2> HIDE DEF d
  <2> QED BY <1>2, <2>1, <2>2, ConnectGoesOn
<1> QED BY <1>3, <1>4, <1>5, <1>6, <1>7, <1>8

---------------------------------------------------------------------------
(* The gateways: what the Administration does does not change *)

\* Of what one gateway changes, its own invariant decides.
LEMMA EdgeSteps ==
  ASSUME PushParts, NEW g \in Edge, UNCHANGED <<adminSide, breaks>>, WireTypes', EdgeTypes',
         now' \in Nat, now <= now',
         \A h \in Edge \ {g} : /\ wire'[h] = wire[h] /\ applied'[h] = applied[h]
                               /\ journal'[h] = journal[h] /\ handler'[h] = handler[h]
                               /\ merging'[h] = merging[h],
         Journalled(g)', Noted(g)' \/ (Due(g)' /\ ~Noted(g)) \/ (wire'[g] = wire[g] /\ ~Noted(g))
  PROVE  PushParts'
<1>1. Types'
  BY DEF adminSide, PushParts, Types, AdminTypes, ClientTypes
<1>2. \A h \in Edge : Linked(h)'
  BY DEF adminSide, PushParts, Linked
<1>3. ASSUME NEW h \in Edge \ {g} PROVE Journalled(h)'
  <2>1. Journalled(h)
    BY DEF PushParts
  <2>2. journal[h].at \in Nat /\ \A m \in merging[h] : m.entry.at \in Nat
    BY DEF PushParts, Types, EdgeTypes, Entries, Merging
  <2>3. now \in Nat
    BY DEF PushParts, Types, AdminTypes
  <2>4. journal[h].at <= now' /\ \A m \in merging[h] : m.entry.at <= now'
    BY <2>1, <2>2, <2>3 DEF Journalled
  <2> QED BY <2>1, <2>4 DEF Journalled
<1>4. \A h \in Edge \ {g} : Noted(h)' \/ Due(h)'
  BY DEF adminSide, PushParts, Noted, Due
<1>5. Noted(g)' \/ Due(g)'
  BY DEF adminSide, PushParts, Noted, Due
<1> QED BY <1>1, <1>2, <1>3, <1>4, <1>5 DEF PushParts

\* What put leaves is one of the two entries; an entry not older is kept or has the same content.
LEMMA RecordedEntry ==
  ASSUME NEW cur \in Entries, NEW e \in Entries, e.at >= cur.at
  PROVE  /\ Recorded(cur, e) \in {cur, e}
         /\ Recorded(cur, e).doc = e.doc
BY DEF Recorded, Entries

LEMMA ApplyMessageStep ==
  ASSUME ~PushOverlap, PushParts, NEW g \in Edge, ApplyMessage(g)
  PROVE  PushParts'
<1> PICK d : d = Head(wire[g])
  OBVIOUS
<1> PICK w : w = Tail(wire[g])
  OBVIOUS
<1>1. /\ handler[g] = {} /\ merging[g] = {}
      /\ applied' = [applied EXCEPT ![g] = d] /\ handler' = [handler EXCEPT ![g] = {d}]
      /\ wire' = [wire EXCEPT ![g] = w] /\ wire[g] # <<>>
      /\ UNCHANGED <<adminSide, journal, merging, now, breaks>>
  BY DEF ApplyMessage
<1>2. wire \in [Edge -> Seq(Document)] /\ EdgeTypes /\ now \in Nat /\ Journalled(g)
  BY DEF PushParts, Types, WireTypes, AdminTypes
<1>3. d \in Document /\ w \in Seq(Document)
  BY <1>1, <1>2
<1>4. WireTypes' /\ \A h \in Edge \ {g} : wire'[h] = wire[h]
  BY <1>1, <1>2, <1>3 DEF WireTypes
<1>5. /\ applied' \in [Edge -> Document] /\ applied'[g] = d
      /\ \A h \in Edge \ {g} : applied'[h] = applied[h]
  BY <1>1, <1>2, <1>3 DEF EdgeTypes
<1>6. /\ handler' \in [Edge -> SUBSET Document] /\ handler'[g] = {d}
      /\ \A h \in Edge \ {g} : handler'[h] = handler[h]
  BY <1>1, <1>2, <1>3 DEF EdgeTypes
<1>7. EdgeTypes'
  BY <1>1, <1>2, <1>5, <1>6 DEF EdgeTypes
<1>8. Journalled(g)'
  BY <1>1, <1>2, <1>5, <1>6 DEF Journalled
<1>9. Noted(g)'
  BY <1>6 DEF Noted
<1> QED BY <1>1, <1>2, <1>4, <1>5, <1>6, <1>7, <1>8, <1>9, EdgeSteps

LEMMA JournalMessageStep ==
  ASSUME PushParts, NEW g \in Edge, JournalMessage(g)
  PROVE  PushParts'
<1> PICK d : d = CHOOSE x \in handler[g] : TRUE
  OBVIOUS
<1> PICK n : n = now + 1
  OBVIOUS
<1> PICK r : r = Recorded(journal[g], [doc |-> d, at |-> n])
  OBVIOUS
<1>1. /\ handler[g] # {} /\ now' = n
      /\ journal' = [journal EXCEPT ![g] = r] /\ handler' = [handler EXCEPT ![g] = {}]
      /\ UNCHANGED <<adminSide, wire, applied, merging, breaks>>
  BY DEF JournalMessage
<1>2. WireTypes /\ EdgeTypes /\ now \in Nat /\ Journalled(g)
  BY DEF PushParts, Types, AdminTypes
<1>3. d = applied[g] /\ d \in Document /\ merging[g] = {}
  BY <1>1, <1>2 DEF Journalled, EdgeTypes
<1>4. journal[g] \in Entries /\ journal[g].at \in Nat /\ journal[g].at <= now
  BY <1>2 DEF Journalled, EdgeTypes, Entries
<1>5. n \in Nat /\ now <= n /\ journal[g].at <= n
  BY <1>2, <1>4
<1> DEFINE e == [doc |-> d, at |-> n]
<1>6. e \in Entries /\ e.at = n /\ e.doc = d
  BY <1>3, <1>5 DEF Entries
<1>7. r = Recorded(journal[g], e)
  OBVIOUS
<1> HIDE DEF e
<1>8. r \in Entries /\ r.doc = applied[g] /\ r.at <= n
  <2>1. e.at >= journal[g].at
    BY <1>4, <1>5, <1>6
  <2>2. r \in {journal[g], e} /\ r.doc = d
    BY <1>4, <1>6, <1>7, <2>1, RecordedEntry
  <2>3. journal[g].at <= n /\ e.at <= n
    BY <1>5, <1>6
  <2> QED BY <1>3, <1>4, <1>6, <2>2, <2>3
<1>9. /\ journal' \in [Edge -> Entries] /\ journal'[g] = r
      /\ \A h \in Edge \ {g} : journal'[h] = journal[h]
  BY <1>1, <1>2, <1>8 DEF EdgeTypes
<1>10. /\ handler' \in [Edge -> SUBSET Document] /\ handler'[g] = {}
       /\ \A h \in Edge \ {g} : handler'[h] = handler[h]
  BY <1>1, <1>2 DEF EdgeTypes
<1>11. WireTypes' /\ EdgeTypes'
  BY <1>1, <1>2, <1>9, <1>10 DEF EdgeTypes, WireTypes
<1>12. Journalled(g)' /\ Noted(g)'
  BY <1>1, <1>3, <1>8, <1>9, <1>10 DEF Journalled, Noted
<1> QED BY <1>1, <1>5, <1>9, <1>10, <1>11, <1>12, EdgeSteps

LEMMA PullEntryStep ==
  ASSUME ~PushOverlap, PushParts, NEW g \in Edge, NEW p \in Edge, PullEntry(g, p)
  PROVE  PushParts'
<1> PICK e : e = journal[p]
  OBVIOUS
<1> PICK m : m = [entry |-> e, done |-> FALSE]
  OBVIOUS
<1>1. /\ merging[g] = {} /\ handler[g] = {} /\ e.at > journal[g].at
      /\ merging' = [merging EXCEPT ![g] = {m}]
      /\ UNCHANGED <<adminSide, wire, applied, journal, handler, now, breaks>>
  BY DEF PullEntry, Newer
<1>2. WireTypes /\ EdgeTypes /\ now \in Nat /\ Journalled(g) /\ Journalled(p)
  BY DEF PushParts, Types, AdminTypes
<1>3. e \in Entries /\ e.at <= now
  BY <1>2 DEF Journalled, EdgeTypes
<1>4. m \in Merging /\ m.entry = e /\ ~m.done
  BY <1>3 DEF Merging
<1>5. /\ merging' \in [Edge -> SUBSET Merging] /\ merging'[g] = {m}
      /\ \A h \in Edge \ {g} : merging'[h] = merging[h]
  BY <1>1, <1>2, <1>4 DEF EdgeTypes
<1>6. WireTypes' /\ EdgeTypes' /\ now <= now'
  BY <1>1, <1>2, <1>5 DEF EdgeTypes, WireTypes
<1>7. Journalled(g)'
  BY <1>1, <1>2, <1>3, <1>4, <1>5 DEF Journalled
<1>8. Noted(g) => Noted(g)'
  BY <1>1 DEF Noted
<1> QED BY <1>1, <1>2, <1>5, <1>6, <1>7, <1>8, EdgeSteps

LEMMA ApplyEntryStep ==
  ASSUME PushParts, NEW g \in Edge, ApplyEntry(g)
  PROVE  PushParts'
<1>1. PICK m \in merging[g] :
        /\ applied' = [applied EXCEPT ![g] = m.entry.doc]
        /\ merging' = [merging EXCEPT ![g] = {[m EXCEPT !.done = TRUE]}]
  BY DEF ApplyEntry
<1>2. UNCHANGED <<adminSide, wire, journal, handler, now, breaks>>
  BY DEF ApplyEntry
<1>3. WireTypes /\ EdgeTypes /\ now \in Nat /\ Journalled(g)
  BY DEF PushParts, Types, AdminTypes
<1>4. m \in Merging /\ m.entry.doc \in Document
  BY <1>3 DEF EdgeTypes, Merging, Entries
<1> PICK k : k = [m EXCEPT !.done = TRUE]
  OBVIOUS
<1>5. k \in Merging /\ k.entry = m.entry /\ k.done
  BY <1>4 DEF Merging
<1>6. /\ applied' \in [Edge -> Document] /\ applied'[g] = m.entry.doc
      /\ \A h \in Edge \ {g} : applied'[h] = applied[h]
  BY <1>1, <1>3, <1>4 DEF EdgeTypes
<1>7. /\ merging' \in [Edge -> SUBSET Merging] /\ merging'[g] = {k}
      /\ \A h \in Edge \ {g} : merging'[h] = merging[h]
  BY <1>1, <1>3, <1>5 DEF EdgeTypes
<1>8. WireTypes' /\ EdgeTypes' /\ now <= now'
  BY <1>2, <1>3, <1>6, <1>7 DEF EdgeTypes, WireTypes
<1>9. Journalled(g)' /\ Noted(g)'
  BY <1>1, <1>2, <1>3, <1>5, <1>6, <1>7 DEF Journalled, Noted
<1> QED BY <1>2, <1>3, <1>6, <1>7, <1>8, <1>9, EdgeSteps

LEMMA PutEntryStep ==
  ASSUME PushParts, NEW g \in Edge, PutEntry(g)
  PROVE  PushParts'
<1>1. PICK m \in merging[g] : m.done /\ journal' = [journal EXCEPT ![g] = Recorded(journal[g], m.entry)]
  BY DEF PutEntry
<1>2. /\ merging' = [merging EXCEPT ![g] = {}]
      /\ UNCHANGED <<adminSide, wire, applied, handler, now, breaks>>
  BY DEF PutEntry
<1>3. WireTypes /\ EdgeTypes /\ now \in Nat /\ Journalled(g)
  BY DEF PushParts, Types, AdminTypes
<1> PICK r : r = Recorded(journal[g], m.entry)
  OBVIOUS
<1>4. /\ m.entry \in Entries /\ journal[g] \in Entries
      /\ m.entry.at \in Nat /\ journal[g].at \in Nat
  BY <1>3 DEF EdgeTypes, Merging, Entries
<1>5. /\ m.entry.at > journal[g].at /\ m.entry.at <= now /\ m.entry.doc = applied[g]
      /\ handler[g] = {}
  BY <1>1, <1>3 DEF Journalled
<1>6. r \in Entries /\ r.doc = applied[g] /\ r.at <= now
  <2>1. m.entry.at >= journal[g].at
    BY <1>4, <1>5
  <2>2. r \in {journal[g], m.entry} /\ r.doc = m.entry.doc
    BY <1>4, <2>1, RecordedEntry
  <2> QED BY <1>3, <1>4, <1>5, <2>2 DEF Journalled
<1>7. /\ journal' \in [Edge -> Entries] /\ journal'[g] = r
      /\ \A h \in Edge \ {g} : journal'[h] = journal[h]
  BY <1>1, <1>3, <1>6 DEF EdgeTypes
<1>8. /\ merging' \in [Edge -> SUBSET Merging] /\ merging'[g] = {}
      /\ \A h \in Edge \ {g} : merging'[h] = merging[h]
  BY <1>2, <1>3 DEF EdgeTypes
<1>9. WireTypes' /\ EdgeTypes' /\ now <= now'
  BY <1>2, <1>3, <1>7, <1>8 DEF EdgeTypes, WireTypes
<1>10. Journalled(g)' /\ Noted(g)'
  BY <1>2, <1>5, <1>6, <1>7, <1>8 DEF Journalled, Noted
<1> QED BY <1>2, <1>3, <1>7, <1>8, <1>9, <1>10, EdgeSteps

---------------------------------------------------------------------------
(* Faults *)

\* The connection to a gateway is lost, and with a restart what it was doing.
LEMMA FaultStep ==
  ASSUME PushParts, NEW g \in Edge, BreakLink(g) \/ RestartEdge(g)
  PROVE  PushParts'
<1>1. /\ breaks < MaxBreak /\ breaks' = breaks + 1
      /\ alive' = [alive EXCEPT ![g] = FALSE] /\ wire' = [wire EXCEPT ![g] = <<>>]
      /\ UNCHANGED <<document, edits, pushes, client, gen, applied, journal, now>>
      /\ \/ UNCHANGED <<handler, merging>>
         \/ /\ handler' = [handler EXCEPT ![g] = {}]
            /\ merging' = [merging EXCEPT ![g] = {}]
  BY DEF BreakLink, RestartEdge, edgeSide
<1>2. AdminTypes /\ ClientTypes /\ WireTypes /\ EdgeTypes
  BY DEF PushParts, Types
<1>3. /\ alive' \in [Edge -> BOOLEAN] /\ ~alive'[g]
      /\ \A h \in Edge \ {g} : alive'[h] = alive[h]
  BY <1>1, <1>2 DEF AdminTypes
<1>4. WireTypes' /\ \A h \in Edge \ {g} : wire'[h] = wire[h]
  <2>1. <<>> \in Seq(Document)
    OBVIOUS
  <2> QED BY <1>1, <1>2, <2>1 DEF WireTypes
<1>5. /\ handler' \in [Edge -> SUBSET Document] /\ merging' \in [Edge -> SUBSET Merging]
      /\ handler'[g] \in {handler[g], {}} /\ merging'[g] \in {merging[g], {}}
      /\ \A h \in Edge \ {g} : handler'[h] = handler[h] /\ merging'[h] = merging[h]
  BY <1>1, <1>2 DEF EdgeTypes
<1>6. breaks' \in 0..MaxBreak
  BY <1>1, <1>2, PushAssumption DEF AdminTypes
<1>7. Types'
  BY <1>1, <1>2, <1>3, <1>4, <1>5, <1>6 DEF Types, AdminTypes, ClientTypes, EdgeTypes
<1>8. ASSUME NEW h \in Edge PROVE Journalled(h)' /\ Linked(h)' /\ (Noted(h)' \/ Due(h)')
  <2>1. Journalled(h) /\ Linked(h) /\ (Noted(h) \/ Due(h))
    BY DEF PushParts
  <2>2. CASE h = g
    <3>1. Journalled(g)'
      BY <1>1, <1>5, <2>1, <2>2 DEF Journalled
    <3>2. Linked(g)' /\ Due(g)'
      BY <1>1, <1>3, <2>1, <2>2 DEF Linked, Due
    <3> QED BY <2>2, <3>1, <3>2
  <2>3. CASE h # g
    <3>1. Journalled(h)'
      BY <1>1, <1>5, <2>1, <2>3 DEF Journalled
    <3>2. Linked(h)' /\ (Noted(h)' \/ Due(h)')
      BY <1>1, <1>3, <1>4, <1>5, <2>1, <2>3 DEF Linked, Due, Noted
    <3> QED BY <3>1, <3>2
  <2> QED BY <2>2, <2>3
<1> QED BY <1>7, <1>8 DEF PushParts

---------------------------------------------------------------------------
(* Every step, and the theorems *)

LEMMA PushInitially == PushInit => PushParts
<1> SUFFICES ASSUME PushInit PROVE PushParts
  OBVIOUS
<1>1. PICK d \in Document :
        /\ document = d /\ edits = 0 /\ pushes = {}
        /\ client = [g \in Edge |-> [conn |-> 1, phase |-> "read", snap |-> {},
                                     pending |-> <<>>, queued |-> <<>>]]
        /\ alive = [g \in Edge |-> TRUE] /\ gen = [g \in Edge |-> 1]
        /\ wire = [g \in Edge |-> <<>>]
        /\ applied = [g \in Edge |-> d] /\ journal = [g \in Edge |-> [doc |-> d, at |-> 1]]
        /\ handler = [g \in Edge |-> {}] /\ merging = [g \in Edge |-> {}]
        /\ now = 1 /\ breaks = 0
  BY DEF PushInit
<1>2. AdminTypes
  BY <1>1, PushAssumption DEF AdminTypes
<1>3. <<>> \in Seq(Document)
  OBVIOUS
<1>4. [conn |-> 1, phase |-> "read", snap |-> {}, pending |-> <<>>, queued |-> <<>>] \in Client
  BY <1>3 DEF Client
<1>5. ClientTypes /\ WireTypes
  BY <1>1, <1>3, <1>4 DEF ClientTypes, WireTypes
<1>6. EdgeTypes
  BY <1>1 DEF EdgeTypes, Entries
<1>7. \A g \in Edge : Journalled(g) /\ Linked(g) /\ Noted(g)
  BY <1>1 DEF Journalled, Linked, Noted
<1> QED BY <1>2, <1>5, <1>6, <1>7 DEF PushParts, Types

LEMMA PushStep ==
  ASSUME ~PushOverlap, PushParts, [PushNext]_pushVars
  PROVE  PushParts'
<1>1. CASE \E d \in Document : Edit(d)
  BY <1>1, EditStep
<1>2. CASE \E p \in pushes : Enqueue(p) \/ TakeConn(p) \/ WriteDoc(p)
  BY <1>2, PushSteps
<1>3. CASE \E g \in Edge : Dial(g)
  BY <1>3, DialStep
<1>4. CASE \E g \in Edge : \/ SyncLoad(g) \/ SyncSend(g) \/ TakePending(g) \/ SendPending(g)
                           \/ StartReading(g) \/ Disconnected(g)
  BY <1>4, ConnectSteps
<1>5. CASE \E g \in Edge : \/ ApplyMessage(g) \/ JournalMessage(g) \/ ApplyEntry(g)
                           \/ PutEntry(g) \/ \E p \in Edge : PullEntry(g, p)
  BY <1>5, ApplyMessageStep, JournalMessageStep, ApplyEntryStep, PutEntryStep, PullEntryStep
<1>6. CASE \E g \in Edge : BreakLink(g) \/ RestartEdge(g)
  BY <1>6, FaultStep
<1>7. CASE UNCHANGED pushVars
  <2>1. Types'
    BY <1>7 DEF pushVars, PushParts, Types, AdminTypes, ClientTypes, WireTypes, EdgeTypes
  <2>2. \A g \in Edge : Journalled(g)' /\ Linked(g)' /\ (Noted(g)' \/ Due(g)')
    BY <1>7 DEF pushVars, PushParts, Journalled, Linked, Noted, Due
  <2> QED BY <2>1, <2>2 DEF PushParts
<1> QED BY <1>1, <1>2, <1>3, <1>4, <1>5, <1>6, <1>7 DEF PushNext

\* When the goroutines of one client, and those of one gateway, do not overlap, a document a
\* gateway uses and has not journalled (handleWSAdminMessage, mergePushedReplica) is about to
\* be: by what is under way on it, or by the synchronisation that follows the next connection.
THEOREM PushInvariant == ASSUME ~PushOverlap PROVE PushSpec => []PushInv
<1>1. PushInit => PushInv
  BY PushInitially, PushInvParts
<1>2. PushInv /\ [PushNext]_pushVars => PushInv'
  <2>1. PushParts' <=> PushInv'
    BY PushInvParts, PTL
  <2> QED BY <2>1, PushStep, PushInvParts
<1> QED BY <1>1, <1>2, PTL DEF PushSpec

\* Then what a gateway with nothing under way shows its peers in its journal is what it uses,
\* whatever was changed, lost, restarted or merged before.
THEOREM JournalTells == ASSUME ~PushOverlap PROVE PushSpec => []JournalIsApplied
<1>1. PushInv => JournalIsApplied
  BY DEF PushInv, JournalIsApplied, Quiet
<1> QED BY <1>1, PushInvariant, PTL

---------------------------------------------------------------------------
(* Whatever overlaps: types, and one document for each instant *)

LEMMA TypesParts == Types <=> PushTypeOK
BY DEF Types, PushTypeOK, AdminTypes, ClientTypes, WireTypes, EdgeTypes, Pushes

\* The entries gateways have journalled or are merging.
Entered == {journal[g] : g \in Edge} \cup UNION {{m.entry : m \in merging[g]} : g \in Edge}

OneDocument == \A v, w \in Entered : v.at <= now /\ (v.at = w.at => v = w)

\* Steps that leave the gateways alone.
LEMMA AdminOnly ==
  ASSUME Types, OneDocument, UNCHANGED edgeSide
  PROVE  EdgeTypes' /\ OneDocument' /\ now' = now
BY DEF edgeSide, Types, EdgeTypes, OneDocument, Entered

LEMMA EditTypes ==
  ASSUME Types, NEW d \in Document, Edit(d)
  PROVE  Types'
<1> DEFINE new == {[to |-> g, doc |-> d, n |-> edits, conn |-> 0] : g \in Edge}
<1>1. /\ edits < MaxEdit /\ edits' = edits + 1 /\ document' = d /\ pushes' = pushes \cup new
      /\ UNCHANGED <<client, alive, gen, wire, edgeSide, breaks>>
  BY DEF Edit
<1>2. new \subseteq Pushes
  BY PushAssumption DEF Types, AdminTypes, Pushes
<1> HIDE DEF new
<1> QED BY <1>1, <1>2, PushAssumption
        DEF Types, AdminTypes, ClientTypes, WireTypes, EdgeTypes, edgeSide

LEMMA PushesTypes ==
  ASSUME Types, NEW p \in pushes, Enqueue(p) \/ TakeConn(p) \/ WriteDoc(p)
  PROVE  Types'
<1> PICK c : c = client[p.to]
  OBVIOUS
<1>1. p \in Pushes /\ p.to \in Edge /\ p.doc \in Document /\ c \in Client
  BY DEF Types, AdminTypes, ClientTypes, Pushes
<1>2. UNCHANGED <<document, edits, alive, gen, edgeSide, breaks>>
  BY DEF Enqueue, TakeConn, WriteDoc
<1>3. EdgeTypes' /\ now' = now
  BY <1>2 DEF edgeSide, Types, EdgeTypes
<1>4. pushes' \subseteq Pushes
  <2> DEFINE q == [p EXCEPT !.conn = c.conn]
  <2>1. q \in Pushes
    BY <1>1, ClientFields DEF Pushes
  <2>2. pushes' \subseteq pushes \cup {q}
    BY DEF Enqueue, TakeConn, WriteDoc
  <2> HIDE DEF q
  <2> QED BY <2>1, <2>2 DEF Types, AdminTypes
<1>5. ClientTypes'
  <2>1. CASE client' = client
    BY <2>1 DEF Types, ClientTypes
  <2>2. CASE Enqueue(p)
    <3> DEFINE d == [c EXCEPT !.pending = Append(c.pending, p.doc)]
    <3>1. client' = [client EXCEPT ![p.to] = d]
      BY <2>2 DEF Enqueue
    <3>2. Append(c.pending, p.doc) \in Seq(Document)
      BY <1>1, ClientFields
    <3>3. d \in Client
      BY <1>1, <3>2 DEF Client
    <3> HIDE DEF d
    <3> QED BY <1>1, <3>1, <3>3 DEF Types, ClientTypes
  <2>3. CASE client' = [client EXCEPT ![p.to].conn = 0]
    <3> DEFINE d == [c EXCEPT !.conn = 0]
    <3>1. client' = [client EXCEPT ![p.to] = d]
      BY <2>3
    <3>2. d \in Client
      BY <1>1, ClientChanges
    <3> HIDE DEF d
    <3> QED BY <1>1, <3>1, <3>2 DEF Types, ClientTypes
  <2> QED BY <2>1, <2>2, <2>3 DEF TakeConn, WriteDoc
<1>6. WireTypes'
  <2> PICK w : w = Append(wire[p.to], p.doc)
    OBVIOUS
  <2>1. wire' = wire \/ wire' = [wire EXCEPT ![p.to] = w]
    BY DEF Enqueue, TakeConn, WriteDoc
  <2>2. w \in Seq(Document)
    BY <1>1 DEF Types, WireTypes
  <2> QED BY <2>1, <2>2 DEF Types, WireTypes
<1>7. AdminTypes'
  BY <1>2, <1>3, <1>4 DEF Types, AdminTypes
<1> QED BY <1>3, <1>5, <1>6, <1>7 DEF Types

\* A message of the goroutine of connect leaves a client and a wire.
LEMMA TransmitTypes ==
  ASSUME Types, NEW g \in Edge, NEW c \in Client, NEW d \in Document, Transmit(g, c, d)
  PROVE  ClientTypes' /\ WireTypes'
<1>1. CASE c.conn = 0
  <2> DEFINE e == [c EXCEPT !.pending = Append(c.pending, d)]
  <2>1. Append(c.pending, d) \in Seq(Document)
    BY ClientFields
  <2>2. e \in Client
    BY <2>1 DEF Client
  <2>3. client' = [client EXCEPT ![g] = e] /\ UNCHANGED wire
    BY <1>1 DEF Transmit
  <2> HIDE DEF e
  <2> QED BY <2>2, <2>3 DEF Types, ClientTypes, WireTypes
<1>2. CASE c.conn # 0 /\ alive[g]
  <2>1. client' = [client EXCEPT ![g] = c] /\ wire' = [wire EXCEPT ![g] = Append(wire[g], d)]
    BY <1>2 DEF Transmit
  <2> QED BY <2>1 DEF Types, ClientTypes, WireTypes
<1>3. CASE c.conn # 0 /\ ~alive[g]
  <2> DEFINE e == [c EXCEPT !.conn = 0]
  <2>1. client' = [client EXCEPT ![g] = e] /\ UNCHANGED wire
    BY <1>3 DEF Transmit
  <2>2. e \in Client
    BY ClientChanges
  <2> HIDE DEF e
  <2> QED BY <2>1, <2>2 DEF Types, ClientTypes, WireTypes
<1> QED BY <1>1, <1>2, <1>3

LEMMA ConnectTypes ==
  ASSUME Types, NEW g \in Edge,
         \/ Dial(g) \/ SyncLoad(g) \/ SyncSend(g) \/ TakePending(g) \/ SendPending(g)
         \/ StartReading(g) \/ Disconnected(g)
  PROVE  Types'
<1> PICK c : c = client[g]
  OBVIOUS
<1>1. c \in Client /\ document \in Document /\ gen[g] \in Nat
  BY DEF Types, AdminTypes, ClientTypes
<1>2. UNCHANGED <<document, edits, pushes, edgeSide, breaks>>
  BY DEF Dial, SyncLoad, SyncSend, TakePending, SendPending, StartReading, Disconnected
<1>3. EdgeTypes' /\ now' = now
  BY <1>2 DEF edgeSide, Types, EdgeTypes
<1>4. AdminTypes'
  <2>1. CASE Dial(g)
    <3>1. gen' \in [Edge -> Nat]
      BY <1>1, <2>1 DEF Dial, Types, AdminTypes
    <3>2. alive' \in [Edge -> BOOLEAN]
      BY <2>1 DEF Dial, Types, AdminTypes
    <3> QED BY <1>2, <1>3, <3>1, <3>2 DEF Types, AdminTypes
  <2>2. CASE ~Dial(g)
    <3>1. UNCHANGED <<alive, gen>>
      BY <2>2 DEF SyncLoad, SyncSend, TakePending, SendPending, StartReading, Disconnected
    <3> QED BY <1>2, <1>3, <3>1 DEF Types, AdminTypes
  <2> QED BY <2>1, <2>2
<1>5. ASSUME NEW d \in Client, client' = [client EXCEPT ![g] = d], UNCHANGED wire
      PROVE  ClientTypes' /\ WireTypes'
  BY <1>5 DEF Types, ClientTypes, WireTypes
<1>6. ClientTypes' /\ WireTypes'
  <2>1. CASE Dial(g)
    <3> DEFINE n == gen[g] + 1
               d == [c EXCEPT !.conn = n, !.phase = "sync"]
    <3>1. client' = [client EXCEPT ![g] = d] /\ UNCHANGED wire
      BY <2>1 DEF Dial
    <3>2. n \in Nat
      BY <1>1
    <3> HIDE DEF n
    <3>3. d \in Client
      BY <1>1, <3>2 DEF Client
    <3> HIDE DEF d
    <3> QED BY <1>5, <3>1, <3>3
  <2>2. CASE SyncLoad(g)
    <3> DEFINE d == [c EXCEPT !.phase = "send", !.snap = {document}]
    <3>1. client' = [client EXCEPT ![g] = d] /\ UNCHANGED wire
      BY <2>2 DEF SyncLoad
    <3>2. d \in Client
      BY <1>1 DEF Client
    <3> HIDE DEF d
    <3> QED BY <1>5, <3>1, <3>2
  <2>3. CASE SyncSend(g)
    <3> DEFINE d == [c EXCEPT !.phase = "flush", !.snap = {}]
    <3>1. \E e \in c.snap : Transmit(g, d, e)
      BY <2>3 DEF SyncSend
    <3>2. d \in Client /\ c.snap \subseteq Document
      BY <1>1, ClientFields DEF Client
    <3> HIDE DEF d
    <3> QED BY <3>1, <3>2, TransmitTypes
  <2>4. CASE TakePending(g)
    <3> DEFINE d == [c EXCEPT !.queued = c.pending, !.pending = <<>>]
    <3>1. client' = [client EXCEPT ![g] = d] /\ UNCHANGED wire
      BY <2>4 DEF TakePending
    <3>2. c.pending \in Seq(Document) /\ <<>> \in Seq(Document)
      BY <1>1, ClientFields
    <3>3. \A w, v \in Seq(Document) : [c EXCEPT !.queued = w, !.pending = v] \in Client
      BY <1>1 DEF Client
    <3>4. d \in Client
      BY <3>2, <3>3
    <3> HIDE DEF d
    <3> QED BY <1>5, <3>1, <3>4
  <2>5. CASE SendPending(g)
    <3> DEFINE d == [c EXCEPT !.queued = Tail(c.queued)]
    <3>1. c.queued # <<>> /\ Transmit(g, d, Head(c.queued))
      BY <2>5 DEF SendPending
    <3>2. Tail(c.queued) \in Seq(Document) /\ Head(c.queued) \in Document
      BY <1>1, <3>1, ClientFields
    <3>3. d \in Client
      BY <1>1, <3>2 DEF Client
    <3> HIDE DEF d
    <3> QED BY <3>1, <3>2, <3>3, TransmitTypes
  <2>6. CASE StartReading(g)
    <3> DEFINE d == [c EXCEPT !.phase = "read"]
    <3>1. client' = [client EXCEPT ![g] = d] /\ UNCHANGED wire
      BY <2>6 DEF StartReading
    <3>2. d \in Client
      BY <1>1 DEF Client
    <3> HIDE DEF d
    <3> QED BY <1>5, <3>1, <3>2
  <2>7. CASE Disconnected(g)
    <3> DEFINE d == [c EXCEPT !.phase = "down", !.conn = 0]
    <3>1. client' = [client EXCEPT ![g] = d] /\ UNCHANGED wire
      BY <2>7 DEF Disconnected
    <3>2. d \in Client
      BY <1>1 DEF Client
    <3> HIDE DEF d
    <3> QED BY <1>5, <3>1, <3>2
  <2> QED BY <2>1, <2>2, <2>3, <2>4, <2>5, <2>6, <2>7
<1> QED BY <1>3, <1>4, <1>6 DEF Types

\* What put leaves is one of the two entries.
LEMMA RecordedOne ==
  ASSUME NEW cur, NEW e
  PROVE  Recorded(cur, e) \in {cur, e}
BY DEF Recorded

\* A gateway journals or merges what was entered before, or what it journals now.
LEMMA EnteredMove ==
  ASSUME OneDocument, now \in Nat, now' \in Nat, now <= now',
         \A v \in Entered : v.at \in Nat,
         NEW e, e.at \in Nat, (e.at = now + 1 /\ now' = now + 1) \/ e \in Entered,
         Entered' \subseteq Entered \cup {e}
  PROVE  OneDocument'
<1>1. \A v \in Entered' : v.at <= now'
  BY DEF OneDocument
<1>2. ASSUME NEW v \in Entered', NEW w \in Entered', v.at = w.at
      PROVE  v = w
  BY <1>2 DEF OneDocument
<1> QED BY <1>1, <1>2 DEF OneDocument

LEMMA EdgeMoves ==
  ASSUME Types, OneDocument, NEW g \in Edge,
         \/ ApplyMessage(g) \/ JournalMessage(g) \/ ApplyEntry(g) \/ PutEntry(g)
         \/ (\E p \in Edge : PullEntry(g, p)) \/ BreakLink(g) \/ RestartEdge(g)
  PROVE  Types' /\ OneDocument'
<1>1. /\ wire \in [Edge -> Seq(Document)] /\ now \in Nat /\ EdgeTypes
      /\ applied \in [Edge -> Document] /\ journal \in [Edge -> Entries]
      /\ handler \in [Edge -> SUBSET Document] /\ merging \in [Edge -> SUBSET Merging]
  BY DEF Types, WireTypes, AdminTypes, EdgeTypes
<1>2. \A e \in Entries : e.at \in Nat /\ e.doc \in Document
  BY DEF Entries
<1>3. \A m \in Merging : m.entry \in Entries
  BY DEF Merging
<1>4. Entered \subseteq Entries
  BY <1>1, <1>3 DEF Entered
<1>5. CASE ApplyMessage(g)
  <2>1. /\ wire[g] # <<>> /\ applied' = [applied EXCEPT ![g] = Head(wire[g])]
        /\ handler' = [handler EXCEPT ![g] = {Head(wire[g])}]
        /\ wire' = [wire EXCEPT ![g] = Tail(wire[g])]
        /\ UNCHANGED <<adminSide, journal, merging, now, breaks>>
    BY <1>5 DEF ApplyMessage
  <2>2. Head(wire[g]) \in Document /\ Tail(wire[g]) \in Seq(Document)
    BY <1>1, <2>1
  <2>3. applied' \in [Edge -> Document] /\ handler' \in [Edge -> SUBSET Document]
    BY <1>1, <2>1, <2>2
  <2>4. WireTypes'
    BY <1>1, <2>1, <2>2 DEF WireTypes
  <2>5. Types'
    BY <2>1, <2>3, <2>4 DEF adminSide, Types, AdminTypes, ClientTypes, EdgeTypes
  <2>6. OneDocument'
    BY <2>1 DEF OneDocument, Entered
  <2> QED BY <2>5, <2>6
<1>6. CASE JournalMessage(g)
  <2> PICK d : d = CHOOSE x \in handler[g] : TRUE
    OBVIOUS
  <2> DEFINE e == [doc |-> d, at |-> now + 1]
  <2>1. /\ handler[g] # {} /\ now' = now + 1
        /\ journal' = [journal EXCEPT ![g] = Recorded(journal[g], e)]
        /\ handler' = [handler EXCEPT ![g] = {}]
        /\ UNCHANGED <<adminSide, wire, applied, merging, breaks>>
    BY <1>6 DEF JournalMessage
  <2>2. d \in Document
    BY <1>1, <2>1
  <2>3. e \in Entries /\ e.at = now + 1 /\ e.at \in Nat
    BY <1>1, <2>2 DEF Entries
  <2> HIDE DEF e
  <2> PICK r : r = Recorded(journal[g], e)
    OBVIOUS
  <2>4. r \in {journal[g], e} /\ r \in Entries
    BY <1>1, <2>3, RecordedOne
  <2>5. journal' = [journal EXCEPT ![g] = r]
    BY <2>1
  <2>6. journal' \in [Edge -> Entries] /\ handler' \in [Edge -> SUBSET Document]
    BY <1>1, <2>1, <2>4, <2>5
  <2>7. Types'
    BY <1>1, <2>1, <2>6 DEF adminSide, Types, AdminTypes, ClientTypes, WireTypes, EdgeTypes
  <2>8. Entered' \subseteq Entered \cup {e}
    BY <1>1, <2>1, <2>4, <2>5 DEF Entered
  <2>9. \A v \in Entered : v.at \in Nat
    BY <1>2, <1>4
  <2>10. now <= now' /\ now' \in Nat
    BY <1>1, <2>1
  <2>11. OneDocument'
    BY <1>1, <2>1, <2>3, <2>8, <2>9, <2>10, EnteredMove
  <2> QED BY <2>7, <2>11
<1>7. CASE ApplyEntry(g)
  <2>1. PICK m \in merging[g] :
          /\ applied' = [applied EXCEPT ![g] = m.entry.doc]
          /\ merging' = [merging EXCEPT ![g] = {[m EXCEPT !.done = TRUE]}]
    BY <1>7 DEF ApplyEntry
  <2>2. UNCHANGED <<adminSide, wire, journal, handler, now, breaks>>
    BY <1>7 DEF ApplyEntry
  <2>3. m \in Merging /\ m.entry.doc \in Document
    BY <1>1, <1>2, <1>3
  <2> PICK k : k = [m EXCEPT !.done = TRUE]
    OBVIOUS
  <2>4. k \in Merging /\ k.entry = m.entry
    BY <2>3 DEF Merging
  <2>5. applied' \in [Edge -> Document] /\ merging' \in [Edge -> SUBSET Merging]
    BY <1>1, <2>1, <2>3, <2>4
  <2>6. Types'
    BY <1>1, <2>2, <2>5 DEF adminSide, Types, AdminTypes, ClientTypes, WireTypes, EdgeTypes
  <2>7. Entered' \subseteq Entered
    <3>1. merging'[g] = {k} /\ \A h \in Edge \ {g} : merging'[h] = merging[h]
      BY <1>1, <2>1
    <3>2. \A h \in Edge : \A n \in merging'[h] : \E o \in merging[h] : n.entry = o.entry
      BY <2>4, <3>1
    <3> QED BY <2>2, <3>2 DEF Entered
  <2>8. OneDocument'
    BY <2>2, <2>7 DEF OneDocument
  <2> QED BY <2>6, <2>8
<1>8. CASE PutEntry(g)
  <2>1. PICK m \in merging[g] : journal' = [journal EXCEPT ![g] = Recorded(journal[g], m.entry)]
    BY <1>8 DEF PutEntry
  <2>2. /\ merging' = [merging EXCEPT ![g] = {}]
        /\ UNCHANGED <<adminSide, wire, applied, handler, now, breaks>>
    BY <1>8 DEF PutEntry
  <2>3. m.entry \in Entries
    BY <1>1, <1>3
  <2> PICK r : r = Recorded(journal[g], m.entry)
    OBVIOUS
  <2>4. r \in {journal[g], m.entry} /\ r \in Entries
    BY <1>1, <2>3, RecordedOne
  <2>5. journal' = [journal EXCEPT ![g] = r]
    BY <2>1
  <2>6. journal' \in [Edge -> Entries] /\ merging' \in [Edge -> SUBSET Merging]
    BY <1>1, <2>2, <2>4, <2>5
  <2>7. Types'
    BY <1>1, <2>2, <2>6 DEF adminSide, Types, AdminTypes, ClientTypes, WireTypes, EdgeTypes
  <2>8. Entered' \subseteq Entered
    BY <1>1, <2>2, <2>4, <2>5 DEF Entered
  <2>9. OneDocument'
    BY <2>2, <2>8 DEF OneDocument
  <2> QED BY <2>7, <2>9
<1>9. ASSUME NEW p \in Edge, PullEntry(g, p)
      PROVE  Types' /\ OneDocument'
  <2> PICK m : m = [entry |-> journal[p], done |-> FALSE]
    OBVIOUS
  <2>1. /\ merging' = [merging EXCEPT ![g] = {m}]
        /\ UNCHANGED <<adminSide, wire, applied, journal, handler, now, breaks>>
    BY <1>9 DEF PullEntry
  <2>2. m \in Merging /\ m.entry = journal[p]
    BY <1>1 DEF Merging
  <2>3. merging' \in [Edge -> SUBSET Merging]
    BY <1>1, <2>1, <2>2
  <2>4. Types'
    BY <1>1, <2>1, <2>3 DEF adminSide, Types, AdminTypes, ClientTypes, WireTypes, EdgeTypes
  <2>5. Entered' \subseteq Entered
    BY <1>1, <2>1, <2>2 DEF Entered
  <2>6. OneDocument'
    BY <2>1, <2>5 DEF OneDocument
  <2> QED BY <2>4, <2>6
<1>10. CASE BreakLink(g) \/ RestartEdge(g)
  <2>1. /\ breaks < MaxBreak /\ breaks' = breaks + 1
        /\ alive' = [alive EXCEPT ![g] = FALSE] /\ wire' = [wire EXCEPT ![g] = <<>>]
        /\ UNCHANGED <<document, edits, pushes, client, gen, applied, journal, now>>
        /\ \/ UNCHANGED <<handler, merging>>
           \/ /\ handler' = [handler EXCEPT ![g] = {}]
              /\ merging' = [merging EXCEPT ![g] = {}]
    BY <1>10 DEF BreakLink, RestartEdge, edgeSide
  <2>2. breaks' \in 0..MaxBreak /\ alive' \in [Edge -> BOOLEAN]
    BY <2>1, PushAssumption DEF Types, AdminTypes
  <2>3. WireTypes'
    BY <1>1, <2>1 DEF WireTypes
  <2>4. handler' \in [Edge -> SUBSET Document] /\ merging' \in [Edge -> SUBSET Merging]
    BY <1>1, <2>1
  <2>5. Types'
    BY <2>1, <2>2, <2>3, <2>4 DEF Types, AdminTypes, ClientTypes, EdgeTypes
  <2>6. \A h \in Edge : merging'[h] \subseteq merging[h]
    BY <1>1, <2>1
  <2>7. Entered' \subseteq Entered
    BY <2>1, <2>6 DEF Entered
  <2>8. OneDocument'
    BY <2>1, <2>7 DEF OneDocument
  <2> QED BY <2>5, <2>8
<1> QED BY <1>5, <1>6, <1>7, <1>8, <1>9, <1>10

LEMMA OverlapStep ==
  ASSUME Types, OneDocument, [PushNext]_pushVars
  PROVE  Types' /\ OneDocument'
<1>1. CASE \E d \in Document : Edit(d)
  BY <1>1, EditTypes, AdminOnly DEF Edit
<1>2. CASE \E p \in pushes : Enqueue(p) \/ TakeConn(p) \/ WriteDoc(p)
  BY <1>2, PushesTypes, AdminOnly DEF Enqueue, TakeConn, WriteDoc
<1>3. ASSUME NEW g \in Edge,
             \/ Dial(g) \/ SyncLoad(g) \/ SyncSend(g) \/ TakePending(g) \/ SendPending(g)
             \/ StartReading(g) \/ Disconnected(g)
      PROVE  Types' /\ OneDocument'
  <2>1. UNCHANGED edgeSide
    BY <1>3 DEF Dial, SyncLoad, SyncSend, TakePending, SendPending, StartReading, Disconnected
  <2> QED BY <1>3, <2>1, ConnectTypes, AdminOnly
<1>4. CASE \E g \in Edge : \/ ApplyMessage(g) \/ JournalMessage(g) \/ ApplyEntry(g)
                           \/ PutEntry(g) \/ (\E p \in Edge : PullEntry(g, p))
                           \/ BreakLink(g) \/ RestartEdge(g)
  BY <1>4, EdgeMoves
<1>5. CASE UNCHANGED pushVars
  <2>1. UNCHANGED edgeSide
    BY <1>5 DEF pushVars, edgeSide
  <2>2. Types'
    BY <1>5 DEF pushVars, Types, AdminTypes, ClientTypes, WireTypes, EdgeTypes
  <2> QED BY <2>1, <2>2, AdminOnly
<1> QED BY <1>1, <1>2, <1>3, <1>4, <1>5 DEF PushNext

LEMMA OverlapInitially == PushInit => Types /\ OneDocument
<1> SUFFICES ASSUME PushInit PROVE Types /\ OneDocument
  OBVIOUS
<1>1. Types
  BY PushInitially DEF PushParts
<1>2. PICK d \in Document : /\ journal = [g \in Edge |-> [doc |-> d, at |-> 1]]
                            /\ merging = [g \in Edge |-> {}] /\ now = 1
  BY DEF PushInit
<1>3. Entered \subseteq {[doc |-> d, at |-> 1]}
  BY <1>2 DEF Entered
<1>4. OneDocument
  BY <1>2, <1>3 DEF OneDocument
<1> QED BY <1>1, <1>4

\* Queues, connections, messages, documents and journals keep their types, whatever overlaps.
THEOREM PushTypes == PushSpec => []PushTypeOK
<1>1. Types /\ OneDocument /\ [PushNext]_pushVars => Types' /\ OneDocument'
  BY OverlapStep
<1>2. Types => PushTypeOK
  BY TypesParts
<1> QED BY <1>1, <1>2, OverlapInitially, PTL DEF PushSpec

LEMMA OneDocumentAgrees ==
  ASSUME Types, OneDocument
  PROVE  JournalsAgree
<1> SUFFICES ASSUME \A g, p \in Edge : ~Newer(journal[p], journal[g]), NEW g \in Edge, NEW p \in Edge
             PROVE  journal[g].doc = journal[p].doc
  BY DEF JournalsAgree
<1>1. journal[g].at \in Nat /\ journal[p].at \in Nat
  BY DEF Types, EdgeTypes, Entries
<1>2. journal[g] \in Entered /\ journal[p] \in Entered
  BY DEF Entered
<1>3. CASE journal[g].at = journal[p].at
  BY <1>2, <1>3 DEF OneDocument
<1>4. CASE journal[g].at # journal[p].at
  BY <1>1, <1>4 DEF Newer
<1> QED BY <1>3, <1>4

\* Whatever overlaps, gateways none of which has anything newer to ask of another
\* (mergePushedReplica) have journalled one document.
THEOREM JournalsSettle == PushSpec => []JournalsAgree
<1>1. Types /\ OneDocument /\ [PushNext]_pushVars => Types' /\ OneDocument'
  BY OverlapStep
<1> QED BY <1>1, OneDocumentAgrees, OverlapInitially, PTL DEF PushSpec

\* When goroutines do not overlap, such gateways use one document once nothing is under way.
THEOREM GatewaysSettle == ASSUME ~PushOverlap PROVE PushSpec => []QuietAgree
<1>1. JournalsAgree /\ JournalIsApplied => QuietAgree
  BY DEF JournalsAgree, JournalIsApplied, QuietAgree
<1> QED BY <1>1, JournalsSettle, JournalTells, PTL

---------------------------------------------------------------------------
(* The journals as a register *)

\* What a gateway has journalled or is merging, but for the document of the beginning, was
\* entered, and an instant stands for one entry of all those ever made.
HistoryInv ==
  /\ \A v \in Entered : v.at >= 1 /\ (v.at = 1 \/ v \in entered)
  /\ \A v \in entered : v \in Entries /\ v.at > 1 /\ v.at <= now

RegisterInv == Types /\ OneDocument /\ HistoryInv

\* An entry in the journal of one gateway, and all others as they were.
LEMMA WritingMove ==
  ASSUME journal \in [Edge -> Entries], NEW g \in Edge, NEW e \in Entries,
         journal' = [journal EXCEPT ![g] = e]
  PROVE  [h \in Edge |-> Writing(journal'[h])]
           = [[h \in Edge |-> Writing(journal[h])] EXCEPT ![g] = Writing(e)]
<1> DEFINE next == [[h \in Edge |-> Writing(journal[h])] EXCEPT ![g] = Writing(e)]
<1>1. next = [h \in Edge |-> IF h = g THEN Writing(e) ELSE Writing(journal[h])]
  BY Zenon
<1>2. \A h \in Edge : Writing(journal'[h]) = IF h = g THEN Writing(e) ELSE Writing(journal[h])
  OBVIOUS
<1> QED BY <1>1, <1>2

\* A step that leaves the journals alone enters nothing.
LEMMA SameJournals ==
  ASSUME RegisterInv, JournalNext, journal' = journal
  PROVE  [Journal!LastNext]_(Journal!lastVars) /\ entered' = entered
<1>1. entered' = entered
  BY DEF JournalNext
<1> QED BY <1>1 DEF Journal!lastVars

\* The entries there are after a step of a gateway's.
LEMMA JournalMoves ==
  ASSUME RegisterInv, NEW g \in Edge, JournalMessage(g) \/ PutEntry(g)
  PROVE  \E e \in Entries :
           /\ journal' = [journal EXCEPT ![g] = e]
           /\ \/ e = journal[g]
              \/ e.at = now + 1 /\ now' = now + 1
              \/ e \in Entered /\ e.at > journal[g].at
<1>1. /\ journal \in [Edge -> Entries] /\ journal[g] \in Entries /\ now \in Nat
      /\ handler \in [Edge -> SUBSET Document] /\ merging \in [Edge -> SUBSET Merging]
  BY DEF RegisterInv, Types, AdminTypes, EdgeTypes
<1>2. CASE JournalMessage(g)
  <2> PICK d : d = CHOOSE x \in handler[g] : TRUE
    OBVIOUS
  <2> DEFINE e == [doc |-> d, at |-> now + 1]
  <2>1. /\ handler[g] # {} /\ now' = now + 1
        /\ journal' = [journal EXCEPT ![g] = Recorded(journal[g], e)]
    BY <1>2 DEF JournalMessage
  <2>2. e \in Entries /\ e.at = now + 1
    BY <1>1, <2>1 DEF Entries
  <2> HIDE DEF e
  <2>3. Recorded(journal[g], e) \in {journal[g], e}
    BY RecordedOne
  <2> QED BY <1>1, <2>1, <2>2, <2>3
<1>3. CASE PutEntry(g)
  <2>1. PICK m \in merging[g] : journal' = [journal EXCEPT ![g] = Recorded(journal[g], m.entry)]
    BY <1>3 DEF PutEntry
  <2> PICK e : e = m.entry
    OBVIOUS
  <2>2. e \in Entries /\ e \in Entered /\ journal[g] \in Entered
    BY <1>1 DEF Entered, Merging
  <2>3. e.at \in Nat /\ journal[g].at \in Nat
    BY <1>1, <2>2 DEF Entries
  <2>4. CASE Recorded(journal[g], e) = journal[g]
    BY <1>1, <2>1, <2>4
  <2>5. CASE Recorded(journal[g], e) # journal[g]
    <3>1. Recorded(journal[g], e) = e /\ e # journal[g] /\ ~(e.at < journal[g].at)
      BY <2>5 DEF Recorded
    <3>2. e.at # journal[g].at
      BY <2>2, <3>1 DEF RegisterInv, OneDocument
    <3>3. e.at > journal[g].at
      BY <2>3, <3>1, <3>2
    <3> QED BY <2>1, <2>2, <3>1, <3>3
  <2> QED BY <2>4, <2>5
<1> QED BY <1>2, <1>3

\* Only these steps change a journal.
LEMMA JournalsStill ==
  ASSUME PushNext, \A g \in Edge : ~JournalMessage(g) /\ ~PutEntry(g)
  PROVE  journal' = journal
BY DEF PushNext, Edit, Enqueue, TakeConn, WriteDoc, Dial, SyncLoad, SyncSend, TakePending,
       SendPending, StartReading, Disconnected, ApplyMessage, ApplyEntry, BreakLink, RestartEdge,
       PullEntry, edgeSide

\* A gateway that moves on enters what it moves to.
LEMMA EnteredNext ==
  ASSUME RegisterInv, JournalNext, NEW g \in Edge, NEW e \in Entries, e # journal[g],
         journal' = [journal EXCEPT ![g] = e]
  PROVE  entered' = entered \cup {e}
<1>1. journal \in [Edge -> Entries]
  BY DEF RegisterInv, Types, EdgeTypes
<1>2. {h \in Edge : journal'[h] # journal[h]} = {g} /\ journal'[g] = e
  BY <1>1
<1> QED BY <1>2 DEF JournalNext

\* Each step of the journals is a writing, is learning a later one, or changes nothing.
LEMMA JournalRefines ==
  ASSUME RegisterInv, JournalNext
  PROVE  [Journal!LastNext]_(Journal!lastVars)
<1>1. CASE \A g \in Edge : ~JournalMessage(g) /\ ~PutEntry(g)
  BY <1>1, JournalsStill, SameJournals DEF JournalNext
<1>2. ASSUME NEW g \in Edge, JournalMessage(g) \/ PutEntry(g)
      PROVE  [Journal!LastNext]_(Journal!lastVars)
  <2>1. PICK e \in Entries :
           /\ journal' = [journal EXCEPT ![g] = e]
           /\ \/ e = journal[g]
              \/ e.at = now + 1 /\ now' = now + 1
              \/ e \in Entered /\ e.at > journal[g].at
    BY <1>2, JournalMoves
  <2> DEFINE have == [h \in Edge |-> Writing(journal[h])]
             next == [h \in Edge |-> Writing(journal'[h])]
             made == {Writing(v) : v \in entered}
  <2>2. /\ journal \in [Edge -> Entries] /\ journal[g] \in Entries /\ now \in Nat
        /\ journal[g] \in Entered
    BY DEF RegisterInv, Types, AdminTypes, EdgeTypes, Entered
  <2>3. /\ e.at \in Nat /\ e.doc \in Document /\ journal[g].at \in Nat
        /\ journal[g].at >= 1 /\ journal[g].at <= now
    BY <2>2 DEF Entries, RegisterInv, HistoryInv, OneDocument
  <2>4. next = [have EXCEPT ![g] = Writing(e)]
    BY <2>1, <2>2, WritingMove
  <2>5. CASE e = journal[g]
    <3>1. journal' = journal
      BY <2>1, <2>2, <2>5
    <3> QED BY <3>1, SameJournals
  <2>6. CASE e # journal[g] /\ e.at = now + 1
    <3>1. entered' = entered \cup {e}
      BY <2>1, <2>6, EnteredNext
    <3>2. Writing(e) = [at |-> now, value |-> {e.doc}]
      <4>1. e.at - 1 = now /\ e.at # 1
        BY <2>2, <2>3, <2>6
      <4> QED BY <4>1 DEF Writing
    <3>3. {Writing(v) : v \in entered'} = made \cup {[at |-> now, value |-> {e.doc}]}
      BY <3>1, <3>2
    <3>4. next = [have EXCEPT ![g] = [at |-> now, value |-> {e.doc}]] /\ next[g].at = now
      BY <2>4, <3>2
    <3>5. \A w \in made : w.at < now
      <4> SUFFICES ASSUME NEW v \in entered PROVE Writing(v).at < now
        OBVIOUS
      <4>1. v.at \in Nat /\ v.at <= now /\ v.at > 1
        BY DEF RegisterInv, HistoryInv, Entries
      <4> QED BY <2>2, <4>1 DEF Writing
    <3>6. now \in Nat \ {0}
      BY <2>2, <2>3
    <3>7. Journal!Write(g, {e.doc})
      BY <3>3, <3>4, <3>5, <3>6 DEF Journal!Write
    <3> QED BY <2>3, <3>7 DEF Journal!LastNext
  <2>7. CASE e # journal[g] /\ e \in Entered /\ e.at > journal[g].at
    <3>1. e \in entered
      BY <2>3, <2>7 DEF RegisterInv, HistoryInv
    <3>2. entered' = entered
      BY <2>1, <2>7, <3>1, EnteredNext
    <3>3. Writing(e) \in made /\ Writing(e).at > have[g].at
      <4>1. Writing(e).at = e.at - 1 /\ have[g].at = journal[g].at - 1
        BY DEF Writing
      <4>2. e.at - 1 > journal[g].at - 1
        BY <2>3, <2>7
      <4> HIDE DEF have
      <4> QED BY <3>1, <4>1, <4>2
    <3>4. Journal!Learn(g)
      BY <2>4, <3>2, <3>3 DEF Journal!Learn
    <3> QED BY <3>4 DEF Journal!LastNext
  <2> QED BY <2>1, <2>5, <2>6, <2>7
<1> QED BY <1>1, <1>2

\* What can be merged or is journalled after a step was so before it, or is what a gateway
\* has just entered.
LEMMA EnteredOnly ==
  ASSUME RegisterInv, JournalNext
  PROVE  /\ Entered' \subseteq Entered \cup entered'
         /\ \A v \in entered' : v \in entered \/ (v \in Entries /\ v.at > 1 /\ v.at <= now')
         /\ entered \subseteq entered'
<1>0. /\ journal \in [Edge -> Entries] /\ now \in Nat /\ merging \in [Edge -> SUBSET Merging]
  BY DEF RegisterInv, Types, AdminTypes, EdgeTypes
<1>1. \A g \in Edge : journal'[g] \in Entered \cup entered'
  BY DEF JournalNext, Entered
<1>2. entered \subseteq entered'
  BY DEF JournalNext
<1>3. \A g \in Edge : {m.entry : m \in merging'[g]} \subseteq Entered
  <2>1. CASE UNCHANGED merging
    BY <2>1 DEF Entered
  <2>2. ASSUME NEW g \in Edge,
               (\E p \in Edge : PullEntry(g, p)) \/ ApplyEntry(g) \/ PutEntry(g) \/ RestartEdge(g)
        PROVE  \A h \in Edge : {m.entry : m \in merging'[h]} \subseteq Entered
    <3>1. \A h \in Edge \ {g} : merging'[h] = merging[h]
      BY <1>0, <2>2 DEF PullEntry, ApplyEntry, PutEntry, RestartEdge
    <3>2. {m.entry : m \in merging'[g]} \subseteq Entered
      <4>1. CASE \E p \in Edge : PullEntry(g, p)
        BY <1>0, <4>1 DEF PullEntry, Entered
      <4>2. CASE ApplyEntry(g)
        <5>1. PICK m \in merging[g] : merging' = [merging EXCEPT ![g] = {[m EXCEPT !.done = TRUE]}]
          BY <4>2 DEF ApplyEntry
        <5> PICK k : k = [m EXCEPT !.done = TRUE]
          OBVIOUS
        <5>2. k.entry = m.entry
          BY <1>0 DEF Merging
        <5>3. merging'[g] = {k}
          BY <1>0, <5>1
        <5>4. m.entry \in Entered
          BY <5>1 DEF Entered
        <5>5. {n.entry : n \in merging'[g]} = {k.entry}
          BY <5>3
        <5> QED BY <5>2, <5>4, <5>5
      <4>3. CASE PutEntry(g) \/ RestartEdge(g)
        BY <1>0, <4>3 DEF PutEntry, RestartEdge
      <4> QED BY <2>2, <4>1, <4>2, <4>3
    <3>3. \A h \in Edge \ {g} : {m.entry : m \in merging'[h]} \subseteq Entered
      BY <3>1 DEF Entered
    <3> QED BY <3>2, <3>3
  <2>3. PushNext
    BY DEF JournalNext
  <2> QED BY <2>1, <2>2, <2>3 DEF PushNext, Edit, Enqueue, TakeConn, WriteDoc, Dial, SyncLoad,
         SyncSend, TakePending, SendPending, StartReading, Disconnected, ApplyMessage,
         JournalMessage, BreakLink, edgeSide
<1>4. Entered' \subseteq Entered \cup entered'
  BY <1>1, <1>3 DEF Entered
<1>5. \A v \in entered' : v \in entered \/ (v \in Entries /\ v.at > 1 /\ v.at <= now')
  <2>1. CASE journal' = journal
    BY <2>1, SameJournals
  <2>2. ASSUME NEW g \in Edge, JournalMessage(g) \/ PutEntry(g)
        PROVE  \A v \in entered' : v \in entered \/ (v \in Entries /\ v.at > 1 /\ v.at <= now')
    <3>1. PICK e \in Entries :
             /\ journal' = [journal EXCEPT ![g] = e]
             /\ \/ e = journal[g]
                \/ e.at = now + 1 /\ now' = now + 1
                \/ e \in Entered /\ e.at > journal[g].at
      BY <2>2, JournalMoves
    <3>2. journal[g] \in Entered /\ journal[g].at \in Nat /\ e.at \in Nat
      BY <1>0 DEF Entered, Entries
    <3>3. journal[g].at >= 1 /\ journal[g].at <= now
      BY <3>2 DEF RegisterInv, HistoryInv, OneDocument
    <3>4. CASE e = journal[g]
      <4>1. journal' = journal
        BY <1>0, <3>1, <3>4
      <4> QED BY <4>1, SameJournals
    <3>5. CASE e # journal[g] /\ e.at = now + 1 /\ now' = now + 1
      <4>1. entered' = entered \cup {e}
        BY <3>1, <3>5, EnteredNext
      <4>2. e.at > 1 /\ e.at <= now'
        BY <1>0, <3>2, <3>3, <3>5
      <4> QED BY <3>1, <4>1, <4>2
    <3>6. CASE e # journal[g] /\ e \in Entered /\ e.at > journal[g].at
      <4>1. e \in entered
        BY <3>2, <3>3, <3>6 DEF RegisterInv, HistoryInv
      <4> QED BY <3>1, <3>6, <4>1, EnteredNext
    <3> QED BY <3>1, <3>4, <3>5, <3>6
  <2>3. PushNext
    BY DEF JournalNext
  <2> QED BY <2>1, <2>2, <2>3, JournalsStill
<1> QED BY <1>2, <1>4, <1>5

LEMMA NowGrows ==
  ASSUME Types, [PushNext]_pushVars
  PROVE  now \in Nat /\ now' \in Nat /\ now <= now'
<1>1. now \in Nat
  BY DEF Types, AdminTypes
<1>2. now' = now \/ now' = now + 1
  BY DEF PushNext, Edit, Enqueue, TakeConn, WriteDoc, Dial, SyncLoad, SyncSend, TakePending,
         SendPending, StartReading, Disconnected, ApplyMessage, JournalMessage, ApplyEntry,
         PutEntry, BreakLink, RestartEdge, PullEntry, edgeSide, pushVars
<1> QED BY <1>1, <1>2

LEMMA RegisterInvStep == RegisterInv /\ [JournalNext]_journalVars => RegisterInv'
<1> SUFFICES ASSUME RegisterInv, [JournalNext]_journalVars PROVE RegisterInv'
  OBVIOUS
<1>1. [PushNext]_pushVars
  BY DEF JournalNext, journalVars
<1>2. Types' /\ OneDocument'
  BY <1>1, OverlapStep DEF RegisterInv
<1>3. now \in Nat /\ now' \in Nat /\ now <= now'
  BY <1>1, NowGrows DEF RegisterInv
<1>4. CASE JournalNext
  <2>1. \A v \in entered' : v \in Entries /\ v.at > 1 /\ v.at <= now'
    <3>1. \A v \in entered : v \in Entries /\ v.at \in Nat /\ v.at > 1 /\ v.at <= now'
      BY <1>3 DEF RegisterInv, HistoryInv, Entries
    <3> QED BY <1>4, <3>1, EnteredOnly
  <2>2. \A v \in Entered' : v.at >= 1 /\ (v.at = 1 \/ v \in entered')
    <3>1. \A v \in entered' : v.at \in Nat /\ v.at >= 1
      BY <2>1 DEF Entries
    <3> QED BY <1>4, <3>1, EnteredOnly DEF RegisterInv, HistoryInv
  <2> QED BY <1>2, <2>1, <2>2 DEF RegisterInv, HistoryInv
<1>5. CASE UNCHANGED journalVars
  BY <1>2, <1>5 DEF journalVars, pushVars, RegisterInv, HistoryInv, Entered
<1> QED BY <1>4, <1>5

LEMMA RegisterInitially == JournalInit => RegisterInv /\ Journal!LastInit
<1> SUFFICES ASSUME JournalInit PROVE RegisterInv /\ Journal!LastInit
  OBVIOUS
<1>1. PICK d \in Document : /\ journal = [g \in Edge |-> [doc |-> d, at |-> 1]]
                            /\ merging = [g \in Edge |-> {}] /\ now = 1
  BY DEF JournalInit, PushInit
<1>2. entered = {} /\ Types /\ OneDocument
  BY OverlapInitially DEF JournalInit
<1>3. \A v \in Entered : v.at = 1
  BY <1>1 DEF Entered
<1>4. \A g \in Edge : Writing(journal[g]) = [at |-> 0, value |-> {}]
  BY <1>1 DEF Writing
<1> QED BY <1>2, <1>3, <1>4 DEF RegisterInv, HistoryInv, Journal!LastInit

\* Whatever messages, merges, pushes and restarts overlap, the journals of a group implement
\* the register: a document that arrives (put, after its handler) is a writing, a merge of a
\* peer's entry (mergePushedReplica) learns a later one or changes nothing, and no gateway
\* ever goes back.
THEOREM JournalsRefine == JournalSpec => JournalKeepsNewest
<1>1. RegisterInv /\ [JournalNext]_journalVars => [Journal!LastNext]_(Journal!lastVars)
  <2> SUFFICES ASSUME RegisterInv, [JournalNext]_journalVars
               PROVE  [Journal!LastNext]_(Journal!lastVars)
    OBVIOUS
  <2>1. CASE UNCHANGED journalVars
    BY <2>1 DEF journalVars, pushVars, Journal!lastVars
  <2> QED BY <2>1, JournalRefines
<1> QED BY <1>1, RegisterInvStep, RegisterInitially, PTL
        DEF JournalSpec, JournalKeepsNewest, Journal!LastSpec

=================================================================================
