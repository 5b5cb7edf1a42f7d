------------------------------ MODULE RuleExecutor ------------------------------
(***************************************************************************)
(* Who tells the Administration that an automatic rule has fired            *)
(* (internal/edge/executor.go).  Every member of a group that sees the      *)
(* incident hands it to the executor, the first member of the card it has   *)
(* seen alive, or reports it itself.  One rule and one window of ninety     *)
(* seconds; members are numbers, in the order of the card.                  *)
(***************************************************************************)
EXTENDS Naturals, FiniteSets

CONSTANTS
  Node,       \* members
  MaxUpset    \* bound: time-outs, lost answers, crashes, peers no longer seen

ASSUME ExecutorAssumption == Node \subseteq Nat \ {0} /\ MaxUpset \in Nat

VARIABLES
  up,        \* members that run
  seen,      \* peerLiveness: the peers each member has seen in the last 45 s
  hub,       \* members with a connection of the Administration
  firing,    \* where onRuleFired is, for each member; to: the executor it chose
  handled,   \* handleGroupRuleFired: members whose call has been handled, not yet answered
  requests,  \* calls on their way: from, 0 if that member stopped, and to
  recent,    \* ruleReports.last: members that have reported the rule in the window
  reports,   \* how often it was reported
  told,      \* the Administration has heard of it
  upsets

execVars == <<up, seen, hub, firing, handled, requests, recent, reports, told, upsets>>

---------------------------------------------------------------------------

NoFiring == [pc |-> "idle", to |-> 0]

\* The group is up and everybody has seen everybody; the Administration may be
\* connected to some of it only.
ExecInit ==
  /\ up = Node /\ seen = [n \in Node |-> Node \ {n}]
  /\ hub \in SUBSET Node
  /\ firing = [n \in Node |-> NoFiring]
  /\ handled = {} /\ requests = {} /\ recent = {}
  /\ reports = 0 /\ told = FALSE /\ upsets = 0

\* Fault: every member takes itself for the executor.
GroupExecutor_self(n) == n

\* groupExecutor: the first of the card that is the member itself or one it has seen.
GroupExecutor(n) == CHOOSE m \in seen[n] \cup {n} : \A k \in seen[n] \cup {n} : m <= k

\* reportRuleFired: the first report of the window goes to the Administrations connected.
ReportRuleFired(n) ==
  /\ recent' = recent \cup {n}
  /\ reports' = IF n \in recent THEN reports ELSE reports + 1
  /\ told' = (told \/ (n \notin recent /\ n \in hub))

\* The incident is seen: forwarded to another member, or reported here.
OnRuleFired(n) ==
  LET e == GroupExecutor(n) IN
  /\ n \in up /\ firing[n].pc = "idle"
  /\ firing' = [firing EXCEPT ![n] = [pc |-> IF e = n THEN "report" ELSE "forward", to |-> e]]
  /\ requests' = IF e = n THEN requests ELSE requests \cup {[from |-> n, to |-> e]}
  /\ UNCHANGED <<up, seen, hub, handled, recent, reports, told, upsets>>

\* handleGroupRuleFired of the executor, whether or not the caller still waits.
HandleForwarded(q) ==
  /\ q.to \in up
  /\ ReportRuleFired(q.to)
  /\ requests' = requests \ {q}
  /\ handled' = IF q.from # 0 /\ firing[q.from].pc = "forward"
                THEN handled \cup {q.from} ELSE handled
  /\ UNCHANGED <<up, seen, hub, firing, upsets>>

\* The answer is there: nothing more to do.
ForwardAnswered(n) ==
  /\ n \in handled /\ firing[n].pc = "forward"
  /\ firing' = [firing EXCEPT ![n].pc = "done"]
  /\ handled' = handled \ {n}
  /\ UNCHANGED <<up, seen, hub, requests, recent, reports, told, upsets>>

\* Fault: it leaves it at that.
ForwardFails_drop(n) ==
  /\ firing[n].pc = "forward" /\ upsets < MaxUpset
  /\ upsets' = upsets + 1
  /\ firing' = [firing EXCEPT ![n].pc = "done"]
  /\ handled' = handled \ {n}
  /\ UNCHANGED <<up, seen, hub, requests, recent, reports, told>>

\* No answer within five seconds, or none at all: the member reports.
ForwardFails(n) ==
  /\ firing[n].pc = "forward" /\ upsets < MaxUpset
  /\ upsets' = upsets + 1
  /\ firing' = [firing EXCEPT ![n].pc = "report"]
  /\ handled' = handled \ {n}
  /\ UNCHANGED <<up, seen, hub, requests, recent, reports, told>>

ReportSelf(n) ==
  /\ firing[n].pc = "report"
  /\ ReportRuleFired(n)
  /\ firing' = [firing EXCEPT ![n].pc = "done"]
  /\ UNCHANGED <<up, seen, hub, handled, requests, upsets>>

\* mark: a peer has answered an exchange.
MarkSeen(n, p) ==
  /\ n \in up /\ p \in up \ (seen[n] \cup {n})
  /\ seen' = [seen EXCEPT ![n] = @ \cup {p}]
  /\ UNCHANGED <<up, hub, firing, handled, requests, recent, reports, told, upsets>>

\* Forty-five seconds without an exchange.
NotSeen(n, p) ==
  /\ p \in seen[n] /\ upsets < MaxUpset
  /\ upsets' = upsets + 1
  /\ seen' = [seen EXCEPT ![n] = @ \ {p}]
  /\ UNCHANGED <<up, hub, firing, handled, requests, recent, reports, told>>

\* A member stops: its memory and its calls are gone.
CrashMember(n) ==
  /\ n \in up /\ upsets < MaxUpset
  /\ upsets' = upsets + 1
  /\ up' = up \ {n} /\ hub' = hub \ {n}
  /\ seen' = [seen EXCEPT ![n] = {}]
  /\ firing' = [firing EXCEPT ![n] = NoFiring]
  /\ requests' = {[q EXCEPT !.from = IF @ = n THEN 0 ELSE @] : q \in {r \in requests : r.to # n}}
  /\ handled' = handled \ {n}
  /\ recent' = recent \ {n}
  /\ UNCHANGED <<reports, told>>

\* It is back, not yet connected.
StartMember(n) ==
  /\ n \notin up
  /\ up' = up \cup {n}
  /\ UNCHANGED <<seen, hub, firing, handled, requests, recent, reports, told, upsets>>

ExecNext ==
  \/ \E n \in Node : \/ OnRuleFired(n) \/ ForwardAnswered(n) \/ ForwardFails(n)
                     \/ ReportSelf(n) \/ CrashMember(n) \/ StartMember(n)
  \/ \E q \in requests : HandleForwarded(q)
  \/ \E n, p \in Node : MarkSeen(n, p) \/ NotSeen(n, p)

ExecSpec == ExecInit /\ [][ExecNext]_execVars

---------------------------------------------------------------------------
(* Properties *)

ExecTypeOK ==
  /\ up \subseteq Node /\ hub \subseteq up /\ recent \subseteq up
  /\ handled \subseteq {n \in Node : firing[n].pc = "forward"}
  /\ seen \in [Node -> SUBSET Node]
  /\ firing \in [Node -> [pc : {"idle", "forward", "report", "done"}, to : Node \cup {0}]]
  /\ requests \subseteq [from : Node \cup {0}, to : Node]
  /\ reports \in Nat /\ told \in BOOLEAN /\ upsets \in 0..MaxUpset

\* An incident that a member is done with was reported by somebody, and it was reported
\* once unless a call failed, a member stopped or members saw each other differently.
ReportedOnce ==
  /\ (\E n \in Node : firing[n].pc = "done") => reports >= 1
  /\ upsets = 0 => reports <= 1

\* A member that stopped is in no incident, and what is handled or done has been reported.
ReportsCount ==
  /\ \A n \in Node : firing[n].pc # "idle" => n \in up
  /\ recent # {} \/ handled # {} \/ (\E n \in Node : firing[n].pc = "done") => reports >= 1

\* As long as nothing has gone wrong all members choose the same one, and it alone reports.
First == CHOOSE m \in Node : \A k \in Node : m <= k
OneReporter ==
  upsets = 0 =>
    /\ up = Node /\ \A n \in Node : seen[n] = Node \ {n}
    /\ recent \subseteq {First} /\ reports = (IF First \in recent THEN 1 ELSE 0)
    /\ \A q \in requests : q.to = First
    /\ \A n \in Node : firing[n].pc = "report" => n = First

\* ReportedOnce, made inductive.
ExecInv == ExecTypeOK /\ ReportsCount /\ OneReporter

\* An alert is never lost to avoid a duplicate: when a member that has a connection of
\* the Administration is done with an incident, the Administration has heard of it.
FiringNotLost == \A n \in hub : firing[n].pc = "done" => told

=================================================================================
