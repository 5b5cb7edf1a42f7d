------------------------------- MODULE MCRaftLate -------------------------------
(***************************************************************************)
(* Raft along a schedule.  On three members, LateSpec: n1 proposes two       *)
(* entries in term 1, and n3, which has neither, one in term 2.  n1 leads   *)
(* term 3 and brings its entries to n2, whose answer is delayed.  n3 leads  *)
(* term 4 and replaces them at n1 by its own; n1 leads term 5 with that     *)
(* log, proposes, and then reads the answer of term 3.  On five members,    *)
(* SharedSpec: n1 leads term 1, and its second request to n3 is built but   *)
(* not marshalled when n2, elected in term 2 by n4 and n5, replaces the log *)
(* of n1.  n3, whose first entry is of term 1 and second of term 2, leads   *)
(* term 3 when n2 has committed and applied the entries of term 2.          *)
(***************************************************************************)
EXTENDS Raft

CONSTANTS n1, n2, n3, n4, n5

VARIABLE done  \* how many steps of the agenda have been taken

\* Any member may run for any term.
Anyone == [t \in 1..MaxTerm |-> Node]

\* Steps of the agenda: node a does what with node b, in the broadcast s.
Do(what, a, b, s) == <<[what |-> what, a |-> a, b |-> b, s |-> s]>>

Polls(a, b) ==
  Do("StartElection", a, b, 0) \o Do("HandlePreVote", a, b, 0) \o Do("ReceivePreVote", a, b, 0)
Wins(a, b) == Polls(a, b) \o Do("HandleRequestVote", a, b, 0) \o Do("ReceiveVote", a, b, 0)
Starts(a, b, s) == Do("Broadcast", a, b, s) \o Do("BuildAppend", a, b, s)
Delivers(a, b, s) == Starts(a, b, s) \o Do("HandleAppendEntries", a, b, s)
Sends(a, b, s) == Delivers(a, b, s) \o Do("ReceiveAppend", a, b, s)

Agenda ==
     Wins(n1, n2) \o Do("Propose", n1, n1, 0) \o Do("Propose", n1, n1, 0)
  \o Polls(n3, n2) \o Wins(n3, n2) \o Do("Propose", n3, n3, 0) \o Starts(n3, n1, 1)
  \o Sends(n1, n2, 1) \o Wins(n1, n2) \o Sends(n1, n2, 2) \o Sends(n1, n2, 3)
  \o Delivers(n1, n2, 4) \o Do("HandleAppendEntries", n3, n1, 1)
  \o Do("BuildAppend", n1, n3, 2) \o Do("HandleAppendEntries", n1, n3, 2)
  \o Do("ContactAges", n2, n2, 0) \o Wins(n3, n2) \o Do("ReceiveAppend", n3, n1, 1)
  \o Delivers(n3, n1, 2) \o Wins(n1, n2) \o Do("Propose", n1, n1, 0)
  \o Do("ReceiveAppend", n1, n2, 4)

Asks(a, b) == Do("HandlePreVote", a, b, 0) \o Do("ReceivePreVote", a, b, 0)
Votes(a, b) == Do("HandleRequestVote", a, b, 0) \o Do("ReceiveVote", a, b, 0)
WinsTwo(a, b, c) ==
  Do("StartElection", a, a, 0) \o Asks(a, b) \o Asks(a, c) \o Votes(a, b) \o Votes(a, c)

SharedAgenda ==
     WinsTwo(n1, n4, n5) \o Do("Propose", n1, n1, 0) \o Sends(n1, n3, 1)
  \o Do("Propose", n1, n1, 0) \o Starts(n1, n3, 2)
  \o Polls(n2, n4) \o WinsTwo(n2, n4, n5)
  \o Do("Propose", n2, n2, 0) \o Do("Propose", n2, n2, 0) \o Delivers(n2, n1, 1)
  \o Do("HandleAppendEntries", n1, n3, 2)
  \o Do("BuildAppend", n2, n4, 1) \o Do("HandleAppendEntries", n2, n4, 1)
  \o Do("ReceiveAppend", n2, n1, 1) \o Do("ReceiveAppend", n2, n4, 1) \o Do("Apply", n2, n2, 0)
  \o Do("ContactAges", n1, n1, 0) \o Polls(n3, n5) \o WinsTwo(n3, n1, n5)
  \o Do("Propose", n3, n3, 0) \o Delivers(n3, n1, 1)
  \o Do("BuildAppend", n3, n4, 1) \o Do("HandleAppendEntries", n3, n4, 1)
  \o Do("ReceiveAppend", n3, n1, 1) \o Do("ReceiveAppend", n3, n4, 1) \o Do("Apply", n3, n3, 0)

VoteCallsOf(d) == {c \in voteCalls : c.from = d.a /\ c.to = d.b /\ c.term = currentTerm[d.a]}
AppendCallsOf(d) == {c \in appendCalls : c.from = d.a /\ c.to = d.b /\ c.slot = d.s}

Perform(d) ==
  \/ d.what = "StartElection" /\ StartElection(d.a)
  \/ d.what = "HandlePreVote" /\ HandlePreVote(d.b, d.a)
  \/ d.what = "ReceivePreVote" /\ \E r \in preVote[d.a].replies : ReceivePreVote(d.a, r)
  \/ \E c \in VoteCallsOf(d) : \/ d.what = "HandleRequestVote" /\ HandleRequestVote(c)
                               \/ d.what = "ReceiveVote" /\ ReceiveVote(c)
  \/ d.what = "Propose" /\ Propose(d.a)
  \/ d.what = "Apply" /\ Apply(d.a)
  \/ d.what = "ContactAges" /\ ContactAges(d.a)
  \/ d.what = "Broadcast" /\ Broadcast(d.a, d.s)
  \/ \E c \in AppendCallsOf(d) : \/ d.what = "BuildAppend" /\ BuildAppend(c)
                                 \/ d.what = "HandleAppendEntries" /\ HandleAppendEntries(c)
                                 \/ d.what = "ReceiveAppend" /\ ReceiveAppend(c)

Start == Init /\ done = 0
Follow(agenda) == done < Len(agenda) /\ Perform(agenda[done + 1]) /\ done' = done + 1

LateSpec == Start /\ [][Follow(Agenda)]_<<vars, done>>
SharedSpec == Start /\ [][Follow(SharedAgenda)]_<<vars, done>>

=================================================================================
