--------------------------------- MODULE MCRaft ---------------------------------
(***************************************************************************)
(* Raft on clusters of three members.                                      *)
(***************************************************************************)
EXTENDS Raft

CONSTANTS n1, n2, n3

\* Any member may run for any term.
Anyone == [t \in 1..MaxTerm |-> Node]

\* Members run in turn, one per term.
InTurn == [t \in 1..MaxTerm |-> {IF t % 2 = 1 THEN n1 ELSE n2}]

\* A different member in each term.
EachOnce == [t \in 1..MaxTerm |-> {<<n1, n2, n3>>[t]}]

\* A schedule: n1 leads term 1 and, cut off before its first broadcast, proposes
\* twice; n2 leads term 2 and brings one entry to n3 but not to n1; n3 leads
\* term 3.
Runs(n, t) == state'[n] = "Candidate" /\ currentTerm'[n] = t /\ currentTerm[n] # t
Divergence ==
  /\ \A c \in appendCalls' : c.stage = "spawned" => c.term > 1
  /\ \A c \in appendCalls' \ appendCalls : c.term = 2 /\ c.stage = "sent" => c.entries # <<>>
  /\ Runs(n2, 2) => Len(logEntries[n1]) = 2
  /\ currentTerm[n3] < 3 /\ Len(logEntries[n1]) = 2 => logEntries'[n1] = logEntries[n1]
  /\ Len(logEntries'[n2]) = 2 => currentTerm[n2] = 3
  /\ Runs(n3, 3) => Len(logEntries[n3]) = 1

DivergenceSpec == Init /\ [][Next /\ Divergence]_vars /\ Fairness

=================================================================================
