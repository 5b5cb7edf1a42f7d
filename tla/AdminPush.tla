-------------------------------- MODULE AdminPush --------------------------------
(***************************************************************************)
(* How a document of the Administration reaches the gateways of a group:    *)
(* the Administration's links (internal/admin/edgews/manager.go, client.go), *)
(* the handler of a gateway (internal/edge/wshandlers.go), and the journal   *)
(* gateways keep of what they were sent and show each other                 *)
(* (internal/edge/pushed_replica.go).  One document: kinds do not interact.  *)
(***************************************************************************)
EXTENDS Naturals, Sequences, FiniteSets

CONSTANTS
  Edge,         \* gateways
  Document,     \* contents the document may have
  MaxEdit,      \* bound: how often it is changed
  MaxBreak,     \* bound: connections broken and gateways restarted
  PushOverlap   \* TRUE: goroutines of one client, and of one gateway, may overlap

ASSUME PushAssumption == MaxEdit \in Nat /\ MaxBreak \in Nat /\ PushOverlap \in BOOLEAN

VARIABLES
  document,  \* the Administration's database
  edits,
  pushes,    \* goroutines of a push: what they read, and Client.conn once they have read it
  client,    \* Client of each gateway: conn, the phase of connect, the snapshot of its sync,
             \* pending and the messages it took from there
  alive,     \* the newest connection to the gateway works
  gen,       \* connections made to it
  wire,      \* messages under way to it
  applied,   \* the document a gateway uses
  journal,   \* pushedJournal.entries: the document and the instant of its arrival
  handler,   \* a document applied from the Administration and not yet journalled
  merging,   \* a peer's entry being applied, or applied and not yet journalled
  now,       \* instants so far
  breaks

pushVars == <<document, edits, pushes, client, alive, gen, wire, applied, journal, handler,
              merging, now, breaks>>
adminSide == <<document, edits, pushes, client, alive, gen>>
edgeSide == <<applied, journal, handler, merging, now>>

---------------------------------------------------------------------------
(* Data *)

Entries == [doc : Document, at : Nat]
Merging == [entry : Entries, done : BOOLEAN]
Client == [conn : Nat, phase : {"down", "sync", "send", "flush", "read"},
           snap : SUBSET Document, pending : Seq(Document), queued : Seq(Document)]

\* At first the gateways are connected and have the same document.
PushInit ==
  \E d \in Document :
    /\ document = d /\ edits = 0 /\ pushes = {}
    /\ client = [g \in Edge |-> [conn |-> 1, phase |-> "read", snap |-> {},
                                 pending |-> <<>>, queued |-> <<>>]]
    /\ alive = [g \in Edge |-> TRUE] /\ gen = [g \in Edge |-> 1]
    /\ wire = [g \in Edge |-> <<>>]
    /\ applied = [g \in Edge |-> d] /\ journal = [g \in Edge |-> [doc |-> d, at |-> 1]]
    /\ handler = [g \in Edge |-> {}] /\ merging = [g \in Edge |-> {}]
    /\ now = 1 /\ breaks = 0

---------------------------------------------------------------------------
(* The Administration *)

\* A change, and the push that follows it: one goroutine for each gateway.
Edit(d) ==
  /\ edits < MaxEdit /\ d # document
  /\ PushOverlap \/ pushes = {}
  /\ edits' = edits + 1
  /\ document' = d
  /\ pushes' = pushes \cup {[to |-> g, doc |-> d, n |-> edits, conn |-> 0] : g \in Edge}
  /\ UNCHANGED <<client, alive, gen, wire, edgeSide, breaks>>

\* Send without a connection: the message waits.
Enqueue(p) ==
  /\ p.conn = 0 /\ client[p.to].conn = 0
  /\ client' = [client EXCEPT ![p.to].pending = Append(@, p.doc)]
  /\ pushes' = pushes \ {p}
  /\ UNCHANGED <<document, edits, alive, gen, wire, edgeSide, breaks>>

\* Send with one: it is read, then written to under another lock.
TakeConn(p) ==
  /\ p.conn = 0 /\ client[p.to].conn # 0
  /\ PushOverlap \/ client[p.to].phase \in {"down", "read"}
  /\ pushes' = (pushes \ {p}) \cup {[p EXCEPT !.conn = client[p.to].conn]}
  /\ UNCHANGED <<document, edits, client, alive, gen, wire, edgeSide, breaks>>

\* The write; one that fails loses its message and forgets the connection, whichever it is.
WriteDoc(p) ==
  /\ p.conn # 0
  /\ pushes' = pushes \ {p}
  /\ IF alive[p.to] /\ p.conn = gen[p.to]
     THEN wire' = [wire EXCEPT ![p.to] = Append(@, p.doc)] /\ UNCHANGED client
     ELSE client' = [client EXCEPT ![p.to].conn = 0] /\ UNCHANGED wire
  /\ UNCHANGED <<document, edits, alive, gen, edgeSide, breaks>>

\* connectLoop after its wait.
Dial(g) ==
  /\ client[g].phase = "down"
  /\ PushOverlap \/ \A p \in pushes : p.to = g => p.conn = 0
  /\ gen' = [gen EXCEPT ![g] = @ + 1]
  /\ alive' = [alive EXCEPT ![g] = TRUE]
  /\ client' = [client EXCEPT ![g].conn = gen[g] + 1, ![g].phase = "sync"]
  /\ UNCHANGED <<document, edits, pushes, wire, edgeSide, breaks>>

\* Fault: a new connection is not synchronised.
SyncLoad_not(g) ==
  /\ client[g].phase = "sync"
  /\ client' = [client EXCEPT ![g].phase = "flush", ![g].queued = client[g].pending,
                              ![g].pending = <<>>]
  /\ UNCHANGED <<document, edits, pushes, alive, gen, wire, edgeSide, breaks>>

\* pushAllToEntry reads every document,
SyncLoad(g) ==
  /\ client[g].phase = "sync"
  /\ client' = [client EXCEPT ![g].phase = "send", ![g].snap = {document}]
  /\ UNCHANGED <<document, edits, pushes, alive, gen, wire, edgeSide, breaks>>

\* A message of the goroutine of connect, whose client becomes c.
Transmit(g, c, d) ==
  IF c.conn = 0
  THEN client' = [client EXCEPT ![g] = [c EXCEPT !.pending = Append(@, d)]] /\ UNCHANGED wire
  ELSE IF alive[g]
  THEN client' = [client EXCEPT ![g] = c] /\ wire' = [wire EXCEPT ![g] = Append(@, d)]
  ELSE client' = [client EXCEPT ![g] = [c EXCEPT !.conn = 0]] /\ UNCHANGED wire

\* and sends them;
SyncSend(g) ==
  /\ client[g].phase = "send"
  /\ \E d \in client[g].snap : Transmit(g, [client[g] EXCEPT !.phase = "flush", !.snap = {}], d)
  /\ UNCHANGED <<document, edits, pushes, alive, gen, edgeSide, breaks>>

\* what waited follows.
TakePending(g) ==
  /\ client[g].phase = "flush" /\ client[g].queued = <<>> /\ client[g].pending # <<>>
  /\ client[g].conn # 0
  /\ client' = [client EXCEPT ![g].queued = client[g].pending, ![g].pending = <<>>]
  /\ UNCHANGED <<document, edits, pushes, alive, gen, wire, edgeSide, breaks>>

SendPending(g) ==
  /\ client[g].phase = "flush" /\ client[g].queued # <<>>
  /\ Transmit(g, [client[g] EXCEPT !.queued = Tail(@)], Head(client[g].queued))
  /\ UNCHANGED <<document, edits, pushes, alive, gen, edgeSide, breaks>>

StartReading(g) ==
  /\ client[g].phase = "flush" /\ client[g].queued = <<>>
  /\ client[g].pending = <<>> \/ client[g].conn = 0
  /\ client' = [client EXCEPT ![g].phase = "read"]
  /\ UNCHANGED <<document, edits, pushes, alive, gen, wire, edgeSide, breaks>>

\* The end of connect, once a read fails.
Disconnected(g) ==
  /\ client[g].phase = "read" /\ ~alive[g]
  /\ client' = [client EXCEPT ![g].phase = "down", ![g].conn = 0]
  /\ UNCHANGED <<document, edits, pushes, alive, gen, wire, edgeSide, breaks>>

---------------------------------------------------------------------------
(* A gateway *)

\* handleWSAdminMessage: applied first,
ApplyMessage(g) ==
  /\ wire[g] # <<>> /\ handler[g] = {}
  /\ PushOverlap \/ merging[g] = {}
  /\ applied' = [applied EXCEPT ![g] = Head(wire[g])]
  /\ handler' = [handler EXCEPT ![g] = {Head(wire[g])}]
  /\ wire' = [wire EXCEPT ![g] = Tail(@)]
  /\ UNCHANGED <<adminSide, journal, merging, now, breaks>>

\* Fault: the journal keeps what it has.
Recorded_not(cur, e) == cur

\* put: a document that differs and is not older.
Recorded(cur, e) == IF cur.doc = e.doc \/ e.at < cur.at THEN cur ELSE e

\* then journalled with the present instant.
JournalMessage(g) ==
  /\ handler[g] # {}
  /\ now' = now + 1
  /\ journal' = [journal EXCEPT ![g] =
       Recorded(@, [doc |-> CHOOSE d \in handler[g] : TRUE, at |-> now + 1])]
  /\ handler' = [handler EXCEPT ![g] = {}]
  /\ UNCHANGED <<adminSide, wire, applied, merging, breaks>>

\* Fault: any other content.
Newer_any(e, cur) == e.doc # cur.doc

\* mergePushedReplica: an entry of a peer with another content and a later instant;
Newer(e, cur) == e.doc # cur.doc /\ e.at > cur.at

PullEntry(g, p) ==
  /\ g # p /\ merging[g] = {} /\ Newer(journal[p], journal[g])
  /\ PushOverlap \/ handler[g] = {}
  /\ merging' = [merging EXCEPT ![g] = {[entry |-> journal[p], done |-> FALSE]}]
  /\ UNCHANGED <<adminSide, wire, applied, journal, handler, now, breaks>>

\* it is applied, and journalled with the peer's instant.
ApplyEntry(g) ==
  /\ \E m \in merging[g] :
       /\ ~m.done
       /\ applied' = [applied EXCEPT ![g] = m.entry.doc]
       /\ merging' = [merging EXCEPT ![g] = {[m EXCEPT !.done = TRUE]}]
  /\ UNCHANGED <<adminSide, wire, journal, handler, now, breaks>>

PutEntry(g) ==
  /\ \E m \in merging[g] : m.done /\ journal' = [journal EXCEPT ![g] = Recorded(@, m.entry)]
  /\ merging' = [merging EXCEPT ![g] = {}]
  /\ UNCHANGED <<adminSide, wire, applied, handler, now, breaks>>

---------------------------------------------------------------------------
(* Faults *)

BreakLink(g) ==
  /\ breaks < MaxBreak /\ alive[g]
  /\ breaks' = breaks + 1
  /\ alive' = [alive EXCEPT ![g] = FALSE]
  /\ wire' = [wire EXCEPT ![g] = <<>>]
  /\ UNCHANGED <<document, edits, pushes, client, gen, edgeSide>>

\* A gateway restarts with the documents and the journal it saved.
RestartEdge(g) ==
  /\ breaks < MaxBreak
  /\ breaks' = breaks + 1
  /\ alive' = [alive EXCEPT ![g] = FALSE]
  /\ wire' = [wire EXCEPT ![g] = <<>>]
  /\ handler' = [handler EXCEPT ![g] = {}] /\ merging' = [merging EXCEPT ![g] = {}]
  /\ UNCHANGED <<document, edits, pushes, client, gen, applied, journal, now>>

ClientStep(g) == \/ Dial(g) \/ SyncLoad(g) \/ SyncSend(g) \/ TakePending(g) \/ SendPending(g)
                 \/ StartReading(g) \/ Disconnected(g)
EdgeStep(g) == \/ ApplyMessage(g) \/ JournalMessage(g) \/ ApplyEntry(g) \/ PutEntry(g)
               \/ \E p \in Edge : PullEntry(g, p)

PushNext ==
  \/ \E d \in Document : Edit(d)
  \/ \E p \in pushes : Enqueue(p) \/ TakeConn(p) \/ WriteDoc(p)
  \/ \E g \in Edge : \/ Dial(g) \/ SyncLoad(g) \/ SyncSend(g) \/ TakePending(g)
                     \/ SendPending(g) \/ StartReading(g) \/ Disconnected(g)
                     \/ ApplyMessage(g) \/ JournalMessage(g) \/ ApplyEntry(g) \/ PutEntry(g)
                     \/ BreakLink(g) \/ RestartEdge(g)
  \/ \E g, p \in Edge : PullEntry(g, p)

\* Goroutines go on, a lost connection is dialled again, a peer is asked every fifteen
\* seconds.
PushFairness ==
  /\ WF_pushVars(\E p \in pushes : Enqueue(p) \/ TakeConn(p) \/ WriteDoc(p))
  /\ \A g \in Edge : WF_pushVars(ClientStep(g)) /\ WF_pushVars(EdgeStep(g))

PushSpec == PushInit /\ [][PushNext]_pushVars /\ PushFairness

---------------------------------------------------------------------------
(* Properties *)

PushTypeOK ==
  /\ document \in Document /\ edits \in 0..MaxEdit /\ breaks \in 0..MaxBreak
  /\ pushes \subseteq [to : Edge, doc : Document, n : 0..MaxEdit, conn : Nat]
  /\ client \in [Edge -> Client]
  /\ alive \in [Edge -> BOOLEAN] /\ gen \in [Edge -> Nat] /\ now \in Nat
  /\ wire \in [Edge -> Seq(Document)]
  /\ applied \in [Edge -> Document] /\ journal \in [Edge -> Entries]
  /\ handler \in [Edge -> SUBSET Document] /\ merging \in [Edge -> SUBSET Merging]

Quiet(g) == /\ client[g].phase = "read" /\ alive[g] /\ wire[g] = <<>>
            /\ handler[g] = {} /\ merging[g] = {} /\ \A p \in pushes : p.to # g

\* What a gateway tells its peers it uses is what it uses, but for the moment between the
\* two, and for a restart in that moment until the Administration is back.
JournalIsApplied == \A g \in Edge : Quiet(g) => journal[g].doc = applied[g]

\* Gateways none of which has anything newer to ask of another have journalled one document:
\* an instant stands for one document, so that no two entries are left side by side.
JournalsAgree ==
  (\A g, p \in Edge : ~Newer(journal[p], journal[g]))
    => \A g, p \in Edge : journal[g].doc = journal[p].doc

\* Of such gateways, those with nothing under way use one document.
QuietAgree ==
  (\A g, p \in Edge : ~Newer(journal[p], journal[g]))
    => \A g, p \in Edge : Quiet(g) /\ Quiet(p) => applied[g] = applied[p]

\* A document used and not yet journalled is about to be: by the handler of the message, by
\* the merge, or, after a restart between the two, by the synchronisation that follows the
\* next connection, whose messages no other goroutine takes to a lost connection.
PushInv ==
  /\ PushTypeOK
  /\ \A g \in Edge :
       /\ journal[g].at <= now
       /\ handler[g] \subseteq {applied[g]}
       /\ handler[g] = {} \/ merging[g] = {}
       /\ \A m \in merging[g] : /\ m.entry.at > journal[g].at /\ m.entry.at <= now
                                /\ m.done => m.entry.doc = applied[g]
       /\ client[g].phase \in {"sync", "send", "flush"} =>
            \A p \in pushes : p.to = g => p.conn = 0
       /\ client[g].phase \in {"sync", "send"} /\ alive[g] => client[g].conn # 0
       /\ journal[g].doc # applied[g] =>
            \/ handler[g] # {} \/ \E m \in merging[g] : m.done
            \/ ~alive[g] \/ client[g].phase \in {"sync", "send"} \/ wire[g] # <<>>

\* A document changed while a gateway is away, restarts or loses messages reaches it.
DocumentReaches == <>[](\A g \in Edge : applied[g] = document)

\* A gateway that the Administration is connected to, with nothing under way, uses the
\* document of the Administration, not an older one of a peer.
ConnectedIsCurrent == \A g \in Edge : Quiet(g) => applied[g] = document

=================================================================================
