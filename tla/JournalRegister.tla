----------------------------- MODULE JournalRegister -----------------------------
(***************************************************************************)
(* The journals of AdminPush (internal/edge/pushed_replica.go) beside the    *)
(* entries ever put in them: what the gateways of a group tell each other of *)
(* a document is a register whose last writing wins.                        *)
(***************************************************************************)
EXTENDS AdminPush

VARIABLE entered  \* history: the entries put in a journal since the beginning

journalVars == <<pushVars, entered>>

JournalInit == PushInit /\ entered = {}

\* put, by the handler of a message or at the end of a merge.
JournalNext ==
  /\ PushNext
  /\ entered' = entered \cup {journal'[g] : g \in {h \in Edge : journal'[h] # journal[h]}}

JournalSpec == JournalInit /\ [][JournalNext]_journalVars

\* The document the gateways begin with bears the first instant: it is no writing.
Writing(e) == [at |-> e.at - 1, value |-> IF e.at = 1 THEN {} ELSE {e.doc}]

\* The journals implement the register of LastWriter: each arrival of a changed document is
\* a writing later than all others, a gateway only ever moves to a later writing, whichever
\* messages, peers and merges overlap, and a restart does not take it back.
Journal == INSTANCE LastWriter WITH
  Member <- Edge, Value <- {{d} : d \in Document},
  writings <- {Writing(e) : e \in entered}, held <- [g \in Edge |-> Writing(journal[g])],
  recalls <- 0
JournalKeepsNewest == Journal!LastSpec

=================================================================================
