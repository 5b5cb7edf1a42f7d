---------------------------------- MODULE Raft ----------------------------------
(***************************************************************************)
(* The consensus of the Administration's high-availability mode            *)
(* (internal/edge/raft, started by internal/admin/ha): pre-vote, election, *)
(* log replication, commitment and application.                            *)
(*                                                                         *)
(* One action per critical section of n.mu or per RPC handler.  An RPC is a *)
(* goroutine of the caller: its request, its handling by the peer and the   *)
(* processing of its reply are separate steps, any of which may be delayed; *)
(* a lost request, a lost reply and a timeout all end the call with an      *)
(* error the caller ignores.  Calls are never duplicated (an HTTP POST is   *)
(* not retried), but calls of one node overtake each other freely.          *)
(*                                                                         *)
(* Time is abstracted: any timer may fire at any moment.  The instant       *)
(* lastLeaderContact is kept as what the code asks of it: never set, older  *)
(* than ElectionTimeoutMin ("stale") or not ("fresh"), and whether it moved *)
(* since the running pre-vote round began.                                  *)
(***************************************************************************)
EXTENDS Naturals, FiniteSets, Sequences

CONSTANTS
  Node,      \* the members of the cluster
  None,      \* the empty identifier: no vote, no known leader
  MaxTerm,   \* bound: no pre-vote round is started at this term
  MaxLog,    \* bound: a leader stops proposing at this log length
  Slot,      \* bound: identities of the broadcasts one leader has in flight
  MaxRounds, \* bound: pre-vote rounds open at the same time in the cluster
  Electable, \* bound: for each term, the nodes that may run for it
  LateVotes, \* bound: FALSE where no node runs while a vote call is pending
  Lossy,     \* bound: FALSE where no call is made to fail (a call that is only
             \* never answered does as much harm to safety)
  LateMarshal \* bound: FALSE where a request is marshalled as soon as it is built

ASSUME NodeAssumption == IsFiniteSet(Node) /\ None \notin Node
ASSUME BoundAssumption == MaxTerm \in Nat /\ MaxLog \in Nat /\ MaxRounds \in Nat
                          /\ Electable \in [1..MaxTerm -> SUBSET Node]
                          /\ {Lossy, LateVotes, LateMarshal} \subseteq BOOLEAN

VARIABLES
  state, currentTerm, votedFor,      \* Node.state, currentTerm, votedFor
  peers,                             \* Node.cfg.Peers, without the node itself
  logEntries,                        \* Node.logEntries after the sentinel
  commitIndex, applied,              \* applied: what applyLoop handed over so far
  nextIndex, matchIndex,             \* the leader's view of its peers
  leaderID, contact,                 \* whom the node follows, and lastLeaderContact
  preVote,                           \* the running pre-vote round of each node
  voteCalls, appendCalls,            \* the RequestVote and AppendEntries goroutines
  down,                              \* nodes whose process died of a panic
  elected                            \* history: every <<node, term>> that won

nodeVars == <<state, currentTerm, votedFor>>
logVars  == <<logEntries, commitIndex, applied>>
leadVars == <<nextIndex, matchIndex>>
viewVars == <<leaderID, contact>>
vars == <<nodeVars, peers, logVars, leadVars, viewVars, preVote, voteCalls,
          appendCalls, down, elected>>

---------------------------------------------------------------------------
(* Data *)

\* An entry carries the term and, for its opaque command, the leader that
\* proposed it: enough to tell two different entries of one position apart.
Entry == [term : Nat, by : Node]

\* The term at an index; index 0 is the sentinel entry of term 0.
TermAt(log, i) == IF i = 0 THEN 0 ELSE log[i].term

LastTerm(log) == TermAt(log, Len(log))

\* logOK of HandleRequestVote: the candidate's log is at least as recent.
LogOK(lastIndex, lastTerm, log) ==
  \/ lastTerm > LastTerm(log)
  \/ lastTerm = LastTerm(log) /\ lastIndex >= Len(log)

\* total/2 + 1 with total the peers and the node itself.
Quorum(others) == (Cardinality(others) + 1) \div 2 + 1

\* withoutSelf: a node never counts itself among its peers.
WithoutSelf_kept(self, topology) == topology  \* fault: the topology as received
WithoutSelf(self, topology) == topology \ {self}

Idle == [running |-> FALSE, term |-> 0, lastIndex |-> 0, lastTerm |-> 0,
         polled |-> {}, heard |-> FALSE, sent |-> {}, replies |-> {}, granted |-> 0]

---------------------------------------------------------------------------
Init ==
  /\ state = [n \in Node |-> "Follower"]
  /\ currentTerm = [n \in Node |-> 0]
  /\ votedFor = [n \in Node |-> None]
  /\ peers = [n \in Node |-> WithoutSelf(n, Node)]
  /\ logEntries = [n \in Node |-> <<>>]
  /\ commitIndex = [n \in Node |-> 0]
  /\ applied = [n \in Node |-> <<>>]
  /\ nextIndex = [n \in Node |-> [p \in Node |-> 0]]
  /\ matchIndex = [n \in Node |-> [p \in Node |-> 0]]
  /\ leaderID = [n \in Node |-> None]
  /\ contact = [n \in Node |-> "never"]
  /\ preVote = [n \in Node |-> Idle]
  /\ voteCalls = {}
  /\ appendCalls = {}
  /\ down = {}
  /\ elected = {}

\* stepDown: follower of the given term, vote forgotten even if the term stays.
StepDown(n, term) ==
  /\ state' = [state EXCEPT ![n] = "Follower"]
  /\ currentTerm' = [currentTerm EXCEPT ![n] = term]
  /\ votedFor' = [votedFor EXCEPT ![n] = None]

\* A reply that carries a newer term deposes its reader.
StepDownIfNewer(n, term) ==
  IF term > currentTerm[n] THEN StepDown(n, term) ELSE UNCHANGED nodeVars

---------------------------------------------------------------------------
(* Election *)

\* The leader state becomeLeader installs; the caller sets nodeVars.
LeaderState(n, term) ==
  /\ leaderID' = [leaderID EXCEPT ![n] = n]
  /\ nextIndex' = [nextIndex EXCEPT ![n] =
       [p \in Node |-> IF p \in peers[n] THEN Len(logEntries[n]) + 1 ELSE @[p]]]
  /\ matchIndex' = [matchIndex EXCEPT ![n] =
       [p \in Node |-> IF p \in peers[n] THEN 0 ELSE @[p]]]
  /\ elected' = elected \cup {<<n, term>>}

VoteCall(n, p, term) ==
  [from |-> n, to |-> p, term |-> term, lastIndex |-> Len(logEntries[n]),
   lastTerm |-> LastTerm(logEntries[n]), stage |-> "sent", replyTerm |-> 0]

\* The goroutine of c still waits for its answer.
Pending(c) == c.stage \in {"sent", "granted", "denied"}

\* campaign: given up when the pre-vote is out of date; otherwise a new term,
\* the vote for oneself, and one RequestVote goroutine per peer.  The tally of an
\* earlier campaign is dropped: becomeLeader would refuse its term.
Campaign(n, expectedTerm, heard) ==
  IF currentTerm[n] # expectedTerm \/ state[n] = "Leader" \/ heard
  THEN UNCHANGED <<nodeVars, leadVars, leaderID, voteCalls, elected>>
  ELSE LET term == currentTerm[n] + 1 IN
       /\ currentTerm' = [currentTerm EXCEPT ![n] = term]
       /\ votedFor' = [votedFor EXCEPT ![n] = n]
       /\ voteCalls' = {c \in voteCalls : c.from # n \/ Pending(c)}
                         \cup {VoteCall(n, p, term) : p \in peers[n]}
       /\ IF peers[n] = {}
          THEN /\ state' = [state EXCEPT ![n] = "Leader"]
               /\ LeaderState(n, term)
          ELSE /\ state' = [state EXCEPT ![n] = "Candidate"]
               /\ UNCHANGED <<leadVars, leaderID, elected>>

\* The bounds on elections.
MayRun(n) ==
  /\ currentTerm[n] < MaxTerm /\ n \in Electable[currentTerm[n] + 1]
  /\ LateVotes \/ ~\E c \in voteCalls : Pending(c)

\* startElection with peers opens a pre-vote round, one at a time.
StartElection(n) ==
  /\ n \notin down /\ peers[n] # {} /\ ~preVote[n].running
  /\ MayRun(n)
  /\ Cardinality({m \in Node : preVote[m].running}) < MaxRounds
  /\ preVote' = [preVote EXCEPT ![n] =
       [running |-> TRUE, term |-> currentTerm[n],
        lastIndex |-> Len(logEntries[n]), lastTerm |-> LastTerm(logEntries[n]),
        polled |-> peers[n], heard |-> FALSE, sent |-> peers[n], replies |-> {},
        granted |-> 1]]
  /\ UNCHANGED <<nodeVars, peers, logVars, leadVars, viewVars, voteCalls,
                 appendCalls, down, elected>>

\* HandleRequestVote with PreVote: an answer, and no state changed at the voter.
HandlePreVote(v, n) ==
  LET round == preVote[n]
      leaderAlive == state[v] = "Leader" \/ contact[v] = "fresh"
      grant == /\ round.term + 1 > currentTerm[v]
               /\ LogOK(round.lastIndex, round.lastTerm, logEntries[v])
               /\ ~leaderAlive
  IN /\ v \notin down /\ v \in round.sent
     /\ preVote' = [preVote EXCEPT
          ![n].sent = @ \ {v},
          ![n].replies = @ \cup {[from |-> v, term |-> currentTerm[v], granted |-> grant]}]
     /\ UNCHANGED <<nodeVars, peers, logVars, leadVars, viewVars, voteCalls,
                    appendCalls, down, elected>>

AwaitOthers_stuck(round) ==  \* fault: a round nobody granted is not closed
  IF round.sent = {} /\ round.replies = {} /\ round.granted > 1 THEN Idle ELSE round

\* The round after one result that neither wins nor loses it: over when no
\* other result is awaited.
AwaitOthers(round) ==
  IF round.sent = {} /\ round.replies = {} THEN Idle ELSE round

\* preVote reads one reply: a newer term ends the round (and deposes the node),
\* the grant that makes the quorum ends it with a campaign.
ReceivePreVote(n, r) ==
  LET round == preVote[n]
      rest == [round EXCEPT !.replies = @ \ {r}]
      wins == r.granted /\ round.granted + 1 >= Quorum(round.polled)
  IN /\ n \notin down /\ r \in round.replies
     /\ IF r.term > round.term
        THEN /\ StepDownIfNewer(n, r.term)
             /\ preVote' = [preVote EXCEPT ![n] = Idle]
             /\ UNCHANGED <<leadVars, leaderID, voteCalls, elected>>
        ELSE IF wins
        THEN /\ preVote' = [preVote EXCEPT ![n] = Idle]
             /\ Campaign(n, round.term, round.heard)
        ELSE /\ preVote' = [preVote EXCEPT ![n] = AwaitOthers(
                  [rest EXCEPT !.granted = @ + IF r.granted THEN 1 ELSE 0])]
             /\ UNCHANGED <<nodeVars, leadVars, leaderID, voteCalls, elected>>
     /\ UNCHANGED <<peers, logVars, contact, appendCalls, down>>

\* The call to p fails: the round goes on without it.  (The voter's handling has
\* no effect, so a lost reply is a lost request.)
FailPreVote(n, p) ==
  LET round == preVote[n]
  IN /\ Lossy /\ p \in round.sent
     /\ preVote' = [preVote EXCEPT ![n] = AwaitOthers([round EXCEPT !.sent = @ \ {p}])]
     /\ UNCHANGED <<nodeVars, peers, logVars, leadVars, viewVars, voteCalls,
                    appendCalls, down, elected>>

VoteFree_always(voted, candidate) == TRUE  \* fault: the vote given is forgotten

\* The voter has not voted in this term, or voted for this very candidate.
VoteFree(voted, candidate) == voted \in {None, candidate}

\* HandleRequestVote for a real vote.
HandleRequestVote(c) ==
  LET v == c.to
      newer == c.term > currentTerm[v]
      voted == IF newer THEN None ELSE votedFor[v]
      grant == VoteFree(voted, c.from) /\ LogOK(c.lastIndex, c.lastTerm, logEntries[v])
  IN /\ c \in voteCalls /\ c.stage = "sent" /\ v \notin down
     /\ IF c.term < currentTerm[v]
        THEN /\ voteCalls' = (voteCalls \ {c}) \cup
                  {[c EXCEPT !.stage = "denied", !.replyTerm = currentTerm[v]]}
             /\ UNCHANGED nodeVars
        ELSE /\ state' = [state EXCEPT ![v] = IF newer THEN "Follower" ELSE @]
             /\ currentTerm' = [currentTerm EXCEPT ![v] = c.term]
             /\ votedFor' = [votedFor EXCEPT ![v] = IF grant THEN c.from ELSE voted]
             /\ voteCalls' = (voteCalls \ {c}) \cup
                  {[c EXCEPT !.stage = IF grant THEN "granted" ELSE "denied",
                             !.replyTerm = c.term]}
     /\ UNCHANGED <<peers, logVars, leadVars, viewVars, preVote, appendCalls, down, elected>>

\* The goroutines of the campaign that made call c; they stay in voteCalls when
\* they end, so that they also record the campaign's tally.
CampaignOf(c) == {d \in voteCalls : d.from = c.from /\ d.term = c.term}

\* votes >= quorum once the reply of c is counted.
WinsWith(c) ==
  LET polled == {d.to : d \in CampaignOf(c)}
      tally == {d.to : d \in {e \in CampaignOf(c) : e.stage = "counted"}}
  IN 1 + Cardinality(tally \cup {c.to}) >= Quorum(polled)

StillCandidate_state(n, term) == state[n] = "Candidate"  \* fault: of any term

\* becomeLeader promotes the node only if it still is the candidate of that term.
StillCandidate(n, term) == state[n] = "Candidate" /\ currentTerm[n] = term

\* A campaign goroutine reads its reply.
ReceiveVote(c) ==
  LET n == c.from
      granted == c.stage = "granted"
      deposed == c.replyTerm > currentTerm[n]
      ended == [c EXCEPT !.stage = IF granted /\ ~deposed THEN "counted" ELSE "over",
                         !.replyTerm = 0]
  IN /\ c \in voteCalls /\ c.stage \in {"granted", "denied"} /\ n \notin down
     /\ voteCalls' = (voteCalls \ {c}) \cup {ended}
     /\ IF granted /\ ~deposed /\ WinsWith(c) /\ StillCandidate(n, c.term)
        THEN /\ state' = [state EXCEPT ![n] = "Leader"]
             /\ LeaderState(n, currentTerm[n])
             /\ UNCHANGED <<currentTerm, votedFor>>
        ELSE /\ StepDownIfNewer(n, c.replyTerm)
             /\ UNCHANGED <<leadVars, leaderID, elected>>
     /\ UNCHANGED <<peers, logVars, contact, preVote, appendCalls, down>>

\* The RequestVote of c fails (request or reply lost, or timeout).
FailVote(c) ==
  /\ Lossy /\ c \in voteCalls /\ Pending(c)
  /\ voteCalls' = (voteCalls \ {c}) \cup {[c EXCEPT !.stage = "over", !.replyTerm = 0]}
  /\ UNCHANGED <<nodeVars, peers, logVars, leadVars, viewVars, preVote,
                 appendCalls, down, elected>>

---------------------------------------------------------------------------
(* Requests share the log: entries = n.logEntries[ni:] is a slice of the log's array, and  *)
(* the goroutine marshals it after the unlock, while n.mu lets others write that array.    *)

\* What the slice of d shows once its caller's log has become this one: the array keeps
\* what was in it beyond the log's end.
Shown(d, log) ==
  [i \in 1..Len(d.entries) |->
     IF d.prevIndex + i <= Len(log) THEN log[d.prevIndex + i] ELSE d.entries[i]]

\* d is yet to be marshalled, and the write changes what its slice shows.
Exposed(d, n, log) ==
  /\ LateMarshal /\ d.from = n /\ d.stage = "sent"
  /\ \E i \in d.read + 1 .. Len(d.entries) : Shown(d, log)[i] # d.entries[i]

\* An entry read while it is written: each field may be the old or the new one.
Torn(old, new) == [term : {old.term, new.term}, by : {old.by, new.by}]

\* The first k entries were read before the write or raced with it (all of them, if the log
\* outgrew its array and was moved); the others show what was written.
Rewritten(d, log) ==
  LET new == Shown(d, log)
      mixed == UNION {Torn(d.entries[i], new[i]) : i \in 1..Len(d.entries)}
  IN UNION {{[d EXCEPT !.entries = e, !.read = k] :
               e \in {f \in [1..Len(d.entries) -> mixed] :
                       \A i \in 1..Len(d.entries) :
                         IF i <= d.read THEN f[i] = d.entries[i]
                         ELSE IF i <= k THEN f[i] \in Torn(d.entries[i], new[i])
                         ELSE f[i] = new[i]}} : k \in d.read..Len(d.entries)}

\* The log of n has been written, and the calls are these.
LogWritten(n, calls) ==
  LET log == logEntries'[n]
      exposed == {d \in calls : Exposed(d, n, log)}
  IN \E later \in [exposed -> UNION {Rewritten(d, log) : d \in exposed}] :
       /\ \A d \in exposed : later[d] \in Rewritten(d, log)
       /\ appendCalls' = (calls \ exposed) \cup {later[d] : d \in exposed}

---------------------------------------------------------------------------
(* Replication *)

\* Propose: the leader appends; the broadcast it spawns is Broadcast below.
Propose(n) ==
  /\ n \notin down /\ state[n] = "Leader" /\ Len(logEntries[n]) < MaxLog
  /\ logEntries' = [logEntries EXCEPT ![n] =
       Append(@, [term |-> currentTerm[n], by |-> n])]
  /\ LogWritten(n, appendCalls)
  /\ UNCHANGED <<nodeVars, peers, commitIndex, applied, leadVars, viewVars,
                 preVote, voteCalls, down, elected>>

\* A broadcast goroutine for one peer, before it has read anything of its own.
AppendCall(n, p, s) ==
  [from |-> n, to |-> p, slot |-> s, stage |-> "spawned",
   term |-> currentTerm[n], commit |-> commitIndex[n], logLen |-> Len(logEntries[n]),
   prevIndex |-> 0, prevTerm |-> 0, entries |-> <<>>, read |-> 0,
   replyTerm |-> 0, success |-> FALSE, match |-> 0, conflict |-> 0]

\* What is left of a goroutine: its request is out of use from the reply on, and
\* its reply once it has been read.
WithoutRequest(c) ==
  [c EXCEPT !.term = 0, !.commit = 0, !.logLen = 0, !.prevIndex = 0, !.prevTerm = 0,
            !.entries = <<>>, !.read = 0]

EndedAs(c, stage) ==
  [WithoutRequest(c) EXCEPT !.stage = stage, !.replyTerm = 0, !.success = FALSE,
                            !.match = 0, !.conflict = 0]

\* The goroutines of the broadcast c belongs to.
BroadcastOf(c) == {d \in appendCalls : d.from = c.from /\ d.slot = c.slot}

Ended(c) == c.stage \in {"acked", "over"}

\* The calls with c at its next stage; a broadcast whose goroutines have all
\* ended is forgotten and frees its slot.
CallsWith(c, d) ==
  LET others == BroadcastOf(c) \ {c}
  IN IF Ended(d) /\ (\A o \in others : Ended(o))
     THEN appendCalls \ BroadcastOf(c)
     ELSE (appendCalls \ {c}) \cup {d}

ReplaceCall(c, d) == appendCalls' = CallsWith(c, d)

\* broadcastAppendEntries, up to its first unlock (a heartbeat or a proposal).
Broadcast(n, s) ==
  /\ n \notin down /\ state[n] = "Leader" /\ peers[n] # {}
  /\ ~\E c \in appendCalls : c.from = n /\ c.slot = s
  /\ appendCalls' = appendCalls \cup {AppendCall(n, p, s) : p \in peers[n]}
  /\ UNCHANGED <<nodeVars, peers, logVars, leadVars, viewVars, preVote, voteCalls,
                 down, elected>>

\* The goroutine reads nextIndex and slices the log in a second critical section, with
\* the term, commit index and length of the first: the node may have been
\* deposed and its log cut since.  A slice that starts beyond the log panics.
BuildAppend(c) ==
  LET n == c.from
      log == logEntries[n]
      ni == IF nextIndex[n][c.to] = 0 THEN 1 ELSE nextIndex[n][c.to]
      entries == IF ni <= c.logLen THEN SubSeq(log, ni, Len(log)) ELSE <<>>
      panics == ni <= c.logLen /\ ni > Len(log) + 1
      sent == [c EXCEPT !.stage = "sent", !.prevIndex = ni - 1,
                 !.prevTerm = IF ni - 1 <= Len(log) THEN TermAt(log, ni - 1) ELSE 0,
                 !.entries = entries, !.logLen = 0]
  IN /\ c \in appendCalls /\ c.stage = "spawned" /\ n \notin down
     /\ IF panics
        THEN /\ down' = down \cup {n}
             /\ ReplaceCall(c, EndedAs(c, "over"))
        ELSE /\ ReplaceCall(c, sent)
             /\ UNCHANGED down
     /\ UNCHANGED <<nodeVars, peers, logVars, leadVars, viewVars, preVote, voteCalls, elected>>

\* The previous entry the leader names is the one the follower holds.
PrevMatches(log, prevIndex, prevTerm) ==
  prevIndex <= Len(log) /\ TermAt(log, prevIndex) = prevTerm

AppendFrom_tail(log, prevIndex, entries) ==  \* fault: conflicts are not looked for
  LET known == Len(log) - prevIndex
  IN IF known >= Len(entries) THEN log
     ELSE log \o SubSeq(entries, known + 1, Len(entries))

\* The follower's log after the new entries: kept where the terms agree, cut and
\* replaced from the first position that is missing or differs.
AppendFrom(log, prevIndex, entries) ==
  LET differs == {i \in 1..Len(entries) :
                    \/ prevIndex + i > Len(log)
                    \/ log[prevIndex + i].term # entries[i].term}
      first == CHOOSE i \in differs : \A j \in differs : i <= j
  IN IF differs = {} THEN log
     ELSE SubSeq(log, 1, prevIndex + first - 1) \o SubSeq(entries, first, Len(entries))

FollowerCommit_back(own, leaders, lastNew) ==  \* fault: the guard is dropped
  IF leaders < lastNew THEN leaders ELSE lastNew

\* commitIndex of a follower: the leader's, up to the last new entry.
FollowerCommit(own, leaders, lastNew) ==
  IF leaders <= own THEN own ELSE IF leaders < lastNew THEN leaders ELSE lastNew

\* The request comes from a leader of the past.
Outdated(c) == c.term < currentTerm[c.to]

\* HandleAppendEntries.  A refusal reports the last index of the follower's log.
HandleAppendEntries(c) ==
  LET v == c.to
      log == logEntries[v]
      matches == PrevMatches(log, c.prevIndex, c.prevTerm)
      lastNew == c.prevIndex + Len(c.entries)
      reply == [WithoutRequest(c) EXCEPT !.stage = "replied",
                  !.replyTerm = IF matches THEN c.term ELSE currentTerm[v],
                  !.success = matches,
                  !.match = IF matches THEN lastNew ELSE 0,
                  !.conflict = IF matches THEN 0 ELSE Len(log)]
  IN /\ c \in appendCalls /\ c.stage = "sent" /\ v \notin down
     /\ IF Outdated(c)
        THEN /\ ReplaceCall(c, [reply EXCEPT !.replyTerm = currentTerm[v],
                                !.success = FALSE, !.match = 0, !.conflict = 0])
             /\ UNCHANGED <<nodeVars, logEntries, commitIndex, viewVars, preVote>>
        ELSE /\ IF c.term > currentTerm[v] \/ state[v] = "Candidate"
                THEN StepDown(v, c.term) ELSE UNCHANGED nodeVars
             /\ leaderID' = [leaderID EXCEPT ![v] = c.from]
             /\ contact' = [contact EXCEPT ![v] = "fresh"]
             /\ preVote' = [preVote EXCEPT ![v].heard = preVote[v].running]
             /\ logEntries' = [logEntries EXCEPT ![v] =
                  IF matches THEN AppendFrom(@, c.prevIndex, c.entries) ELSE @]
             /\ LogWritten(v, CallsWith(c, reply))
             /\ commitIndex' = [commitIndex EXCEPT ![v] =
                  IF matches THEN FollowerCommit(@, c.commit, lastNew) ELSE @]
     /\ UNCHANGED <<peers, applied, leadVars, voteCalls, down, elected>>

Held_half(n, i, match) ==  \* fault: half of the cluster is enough
  1 + Cardinality({p \in Node : match[p] >= i}) >= (Cardinality(peers[n]) + 1) \div 2

\* A majority of the configured cluster holds index i, by the match table.
Held(n, i, match) ==
  1 + Cardinality({p \in Node : match[p] >= i}) > (Cardinality(peers[n]) + 1) \div 2

\* maybeCommit: the greatest index of the current term that a majority holds.
MaybeCommit(n, match) ==
  LET ready == {i \in commitIndex[n] + 1 .. Len(logEntries[n]) :
                  logEntries[n][i].term = currentTerm[n] /\ Held(n, i, match)}
  IN IF ready = {} THEN commitIndex[n]
     ELSE CHOOSE i \in ready : \A j \in ready : j <= i

\* replicated >= quorum once the reply of c is counted.
ReplicatedWith(c) ==
  LET polled == {d.to : d \in BroadcastOf(c)}
      acked == {d.to : d \in {e \in BroadcastOf(c) : e.stage = "acked"}}
  IN 1 + Cardinality(acked \cup {c.to}) >= Quorum(polled)

\* The goroutine reads the reply.  Only the node's present state is looked at,
\* not the term the request was sent in.
ReceiveAppend(c) ==
  LET n == c.from
      further == c.match > matchIndex[n][c.to]
      match == IF further THEN [matchIndex[n] EXCEPT ![c.to] = c.match] ELSE matchIndex[n]
      counted == state[n] = "Leader" /\ c.replyTerm <= currentTerm[n]
  IN /\ c \in appendCalls /\ c.stage = "replied" /\ n \notin down
     /\ StepDownIfNewer(n, c.replyTerm)
     /\ ReplaceCall(c, EndedAs(c, IF counted /\ c.success THEN "acked" ELSE "over"))
     /\ IF counted /\ c.success
        THEN /\ matchIndex' = [matchIndex EXCEPT ![n] = match]
             /\ nextIndex' = [nextIndex EXCEPT ![n][c.to] =
                  IF further THEN c.match + 1 ELSE @]
             /\ commitIndex' = [commitIndex EXCEPT ![n] =
                  IF ReplicatedWith(c) THEN MaybeCommit(n, match) ELSE @]
        ELSE /\ nextIndex' = [nextIndex EXCEPT ![n][c.to] =
                  IF ~counted THEN @
                  ELSE IF c.conflict > 0 THEN c.conflict
                  ELSE IF @ > 1 THEN @ - 1 ELSE @]
             /\ UNCHANGED <<matchIndex, commitIndex>>
     /\ UNCHANGED <<peers, logEntries, applied, viewVars, preVote, voteCalls, down, elected>>

\* The AppendEntries of c fails (request or reply lost, or timeout).
FailAppend(c) ==
  /\ Lossy /\ c \in appendCalls /\ c.stage \in {"sent", "replied"}
  /\ ReplaceCall(c, EndedAs(c, "over"))
  /\ UNCHANGED <<nodeVars, peers, logVars, leadVars, viewVars, preVote, voteCalls,
                 down, elected>>

\* applyLoop hands the next committed entry to ApplyFunc; a commitIndex beyond
\* the log would panic.
Apply(n) ==
  LET next == Len(applied[n]) + 1
  IN /\ n \notin down /\ next <= commitIndex[n]
     /\ IF next <= Len(logEntries[n])
        THEN /\ applied' = [applied EXCEPT ![n] = Append(@, logEntries[n][next])]
             /\ UNCHANGED down
        ELSE down' = down \cup {n} /\ UNCHANGED applied
     /\ UNCHANGED <<nodeVars, peers, logEntries, commitIndex, leadVars, viewVars,
                    preVote, voteCalls, appendCalls, elected>>

\* ElectionTimeoutMin passes without a word from the leader.  (At MaxTerm nobody
\* asks the node for a pre-vote it could grant.)
ContactAges(n) ==
  /\ contact[n] = "fresh" /\ currentTerm[n] < MaxTerm
  /\ contact' = [contact EXCEPT ![n] = "stale"]
  /\ UNCHANGED <<nodeVars, peers, logVars, leadVars, leaderID, preVote, voteCalls,
                 appendCalls, down, elected>>

---------------------------------------------------------------------------
(* Restart: not a step of Next, see RestartSpec. *)

\* The process is started again: NewNode builds every field anew, the term and
\* the vote included, and the goroutines of the old process are gone.
Restart(n) ==
  /\ state' = [state EXCEPT ![n] = "Follower"]
  /\ currentTerm' = [currentTerm EXCEPT ![n] = 0]
  /\ votedFor' = [votedFor EXCEPT ![n] = None]
  /\ peers' = [peers EXCEPT ![n] = WithoutSelf(n, Node)]
  /\ logEntries' = [logEntries EXCEPT ![n] = <<>>]
  /\ commitIndex' = [commitIndex EXCEPT ![n] = 0]
  /\ applied' = [applied EXCEPT ![n] = <<>>]
  /\ nextIndex' = [nextIndex EXCEPT ![n] = [p \in Node |-> 0]]
  /\ matchIndex' = [matchIndex EXCEPT ![n] = [p \in Node |-> 0]]
  /\ leaderID' = [leaderID EXCEPT ![n] = None]
  /\ contact' = [contact EXCEPT ![n] = "never"]
  /\ preVote' = [preVote EXCEPT ![n] = Idle]
  /\ voteCalls' = {c \in voteCalls : c.from # n}
  /\ appendCalls' = {c \in appendCalls : c.from # n}
  /\ down' = down \ {n}
  /\ UNCHANGED elected

---------------------------------------------------------------------------
Election ==
  \/ \E n \in Node : StartElection(n)
  \/ \E v, n \in Node : HandlePreVote(v, n) \/ FailPreVote(n, v)
  \/ \E n \in Node : \E r \in preVote[n].replies : ReceivePreVote(n, r)
  \/ \E c \in voteCalls : HandleRequestVote(c) \/ ReceiveVote(c) \/ FailVote(c)

Replication ==
  \/ \E n \in Node : Propose(n) \/ Apply(n) \/ ContactAges(n)
  \/ \E n \in Node, s \in Slot : Broadcast(n, s)
  \/ \E c \in appendCalls : \/ BuildAppend(c) \/ HandleAppendEntries(c)
                            \/ ReceiveAppend(c) \/ FailAppend(c)

Next == Election \/ Replication

\* A cluster of two members or more that neither restart nor change topology.
Spec == Init /\ [][Next]_vars

\* Members restart; their state is in memory only.
RestartSpec == Init /\ [][Next \/ \E n \in Node : Restart(n)]_vars

\* The goroutines of every process keep running and every call is answered or,
\* at the latest when its timeout expires, fails: a round of pre-votes goes on,
\* and so does a broadcast, each of whose calls takes finitely many steps.
PreVoteStep(n) ==
  \/ \E p \in Node : FailPreVote(n, p)
  \/ \E r \in preVote[n].replies : ReceivePreVote(n, r)

BroadcastStep(n, s) ==
  \E c \in {d \in appendCalls : d.from = n /\ d.slot = s} :
    BuildAppend(c) \/ HandleAppendEntries(c) \/ ReceiveAppend(c)

PreVoteFairness == \A n \in Node : WF_vars(PreVoteStep(n))

Fairness ==
  /\ PreVoteFairness
  /\ \A n \in Node : WF_vars(Apply(n))
  /\ \A n \in Node, s \in Slot : WF_vars(Broadcast(n, s)) /\ WF_vars(BroadcastStep(n, s))

ElectionSpec == Spec /\ PreVoteFairness

---------------------------------------------------------------------------
(* Types *)

Round ==
  [running : BOOLEAN, term : Nat, lastIndex : Nat, lastTerm : Nat,
   polled : SUBSET Node, heard : BOOLEAN, sent : SUBSET Node,
   replies : SUBSET [from : Node, term : Nat, granted : BOOLEAN], granted : Nat]

VoteCalls ==
  [from : Node, to : Node, term : Nat, lastIndex : Nat, lastTerm : Nat,
   stage : {"sent", "granted", "denied", "counted", "over"}, replyTerm : Nat]

AppendCalls ==
  [from : Node, to : Node, slot : Slot,
   stage : {"spawned", "sent", "replied", "acked", "over"},
   term : Nat, commit : Nat, logLen : Nat, prevIndex : Nat, prevTerm : Nat,
   entries : Seq(Entry), read : Nat, replyTerm : Nat, success : BOOLEAN, match : Nat,
   conflict : Nat]

\* Every field keeps its type; a node is never its own peer (withoutSelf), so
\* that it is never counted twice in a quorum.
TypeOK ==
  /\ state \in [Node -> {"Follower", "Candidate", "Leader"}]
  /\ currentTerm \in [Node -> Nat]
  /\ votedFor \in [Node -> Node \cup {None}]
  /\ peers \in [Node -> SUBSET Node] /\ \A n \in Node : n \notin peers[n]
  /\ logEntries \in [Node -> Seq(Entry)]
  /\ commitIndex \in [Node -> Nat]
  /\ applied \in [Node -> Seq(Entry)]
  /\ nextIndex \in [Node -> [Node -> Nat]]
  /\ matchIndex \in [Node -> [Node -> Nat]]
  /\ leaderID \in [Node -> Node \cup {None}]
  /\ contact \in [Node -> {"never", "stale", "fresh"}]
  /\ preVote \in [Node -> Round]
  /\ voteCalls \subseteq VoteCalls
  /\ appendCalls \subseteq AppendCalls
  /\ down \subseteq Node
  /\ elected \subseteq Node \X Nat

---------------------------------------------------------------------------
(* Election: at most one leader per term *)

\* At most one node ever wins a given term, although stepDown forgets the vote of
\* a candidate that meets the winner of its own term (HandleAppendEntries), which
\* leaves it free to vote again in that term, and although votes are counted by
\* goroutines that may answer after the term is over (campaign, becomeLeader).
OneLeaderPerTerm ==
  \A a, b \in elected : a[2] = b[2] => a[1] = b[1]

\* The voter gave its vote to the caller, whether or not the caller knows.
Granted(c) == c.stage \in {"granted", "counted"}

\* A candidate or leader holds its own vote.
SelfVote == \A n \in Node : state[n] # "Follower" => votedFor[n] = n

\* Nobody asks itself for a vote, or in a term it has not reached.
CallsAreOld ==
  \A c \in voteCalls : c.from # c.to /\ c.term <= currentTerm[c.from]

\* A node that granted a vote still follows the term with that vote, or has
\* moved on: so it is neither candidate nor leader of a term it granted.
GrantKept ==
  \A c \in voteCalls : Granted(c) =>
    \/ currentTerm[c.to] > c.term
    \/ currentTerm[c.to] = c.term /\ state[c.to] = "Follower" /\ votedFor[c.to] = c.from

\* No node granted two candidates of one term.
GrantOnce ==
  \A c, d \in voteCalls :
    Granted(c) /\ Granted(d) /\ c.to = d.to /\ c.term = d.term => c.from = d.from

\* A candidate asked every other member of the cluster.
CampaignComplete ==
  \A n \in Node : state[n] = "Candidate" =>
    {c.to : c \in {d \in voteCalls : d.from = n /\ d.term = currentTerm[n]}} = Node \ {n}

\* The majority that elected n in term t cannot elect another node in it.
Closed(n, t, Q) ==
  /\ n \in Q /\ 2 * Cardinality(Q) > Cardinality(Node)
  /\ \A v \in Q :
       /\ currentTerm[v] >= t
       /\ currentTerm[v] = t => /\ votedFor[v] = n
                                /\ state[v] = IF v = n THEN "Leader" ELSE "Follower"
       /\ \A c \in voteCalls : Granted(c) /\ c.to = v /\ c.term = t => c.from = n

ElectedClosed == \A e \in elected : \E Q \in SUBSET Node : Closed(e[1], e[2], Q)

\* The topology is the one every node was started with.
PeersFixed == \A n \in Node : peers[n] = Node \ {n}

\* OneLeaderPerTerm, made inductive.
ElectionInv ==
  /\ OneLeaderPerTerm /\ SelfVote /\ CallsAreOld /\ GrantKept /\ GrantOnce
  /\ CampaignComplete /\ ElectedClosed /\ PeersFixed

---------------------------------------------------------------------------
(* Logs *)

\* ApplyFunc sees the same entries in the same order on every node, as far as
\* each has gone, through elections, cut logs and late replies.  With LateMarshal it holds
\* for logs of one entry, not for longer ones.
StateMachineSafety ==
  \A m, n \in Node :
    \A i \in 1..Len(applied[m]) : i <= Len(applied[n]) => applied[m][i] = applied[n][i]

\* What a node takes for committed is in the logs of a majority: maybeCommit
\* "avance commitIndex au plus grand index replique sur la majorite".
CommittedOnMajority ==
  \A n \in Node : \A i \in 1..commitIndex[n] :
    /\ i <= Len(logEntries[n])
    /\ 2 * Cardinality({m \in Node : /\ i <= Len(logEntries[m])
                                     /\ logEntries[m][i] = logEntries[n][i]})
         > Cardinality(Node)

\* A node that stays leader of its term has only added to its log.
OnlyAppended(n) ==
  state[n] = "Leader" /\ state'[n] = "Leader" /\ currentTerm'[n] = currentTerm[n]
    => SubSeq(logEntries'[n], 1, Len(logEntries[n])) = logEntries[n]

\* HandleAppendEntries would cut the log of a leader for any leader of the same term, and
\* it does not look at the state of the node: no such request ever arrives.
LeaderAppendOnly == [][\A n \in Node : OnlyAppended(n)]_vars

\* commitIndex never goes back, whatever the order in which the heartbeats of a leader
\* and of its successor are handled, and a leader only adds to its log.
NothingTakenBack ==
  [][\A n \in Node : commitIndex'[n] >= commitIndex[n] /\ OnlyAppended(n)]_vars

\* Two logs with an entry of one term at one position are the same up to it: the previous
\* entry named by HandleAppendEntries's caller is enough, although what a broadcast
\* goroutine sends was read after its term, maybe from a log another leader has cut.
\* False with LateMarshal: a request may come to carry entries of a later term.
LogMatching ==
  \A m, n \in Node : \A i \in 1..Len(logEntries[m]) :
    /\ i <= Len(logEntries[n])
    /\ logEntries[m][i].term = logEntries[n][i].term
    => \A j \in 1..i : logEntries[m][j] = logEntries[n][j]

\* An entry at its position, with the term of the entry before it: in a log, or on its
\* way to one.
Link(i, entry, before) ==
  [index |-> i, term |-> entry.term, by |-> entry.by, before |-> before]
LogLinks(log) == {Link(i, log[i], TermAt(log, i - 1)) : i \in 1..Len(log)}
SentLinks(c) ==
  {Link(c.prevIndex + i, c.entries[i], IF i = 1 THEN c.prevTerm ELSE c.entries[i - 1].term) :
     i \in 1..Len(c.entries)}
Links ==
  (UNION {LogLinks(logEntries[n]) : n \in Node}) \cup (UNION {SentLinks(c) : c \in appendCalls})

\* Leaders, and those on whose behalf a request is under way, won the term.
LeadersElected ==
  /\ \A n \in Node : state[n] = "Leader" => <<n, currentTerm[n]>> \in elected
  /\ \A c \in appendCalls :
       /\ c.from # c.to
       /\ c.stage \in {"spawned", "sent"} => <<c.from, c.term>> \in elected

\* Entries come from winners, and a leader has all the entries of its term.
EntriesProposed ==
  /\ \A l \in Links : <<l.by, l.term>> \in elected
  /\ \A n \in Node : state[n] = "Leader" =>
       \A l \in Links : l.term = currentTerm[n] => l.index <= Len(logEntries[n])

\* Position and term determine an entry and the term before it.
LinksAgree == \A k, l \in Links : k.index = l.index /\ k.term = l.term => k = l

\* LogMatching, made inductive beside ElectionInv.
LogInv == LeadersElected /\ EntriesProposed /\ LinksAgree

---------------------------------------------------------------------------
(* Progress *)

\* A pre-vote round always ends, whoever answers: preVoteRunning is released and
\* the node can try again.  A round that stuck would bar the node from elections.
PreVoteEnds ==
  \A n \in Node : preVote[n].running ~> ~preVote[n].running

\* "Propose() sur le leader finit par etre applique (via ApplyFunc) sur tous les
\* noeuds du cluster" (internal/edge/raft/cluster_test.go): what a leader that is
\* there to stay proposes reaches every node.
ProposalsReachAll ==
  \A i \in 1..MaxLog :
    LET Proposed(log) == i <= Len(log) /\ log[i].term = MaxTerm
    IN (\E n \in Node : Proposed(logEntries[n])) ~> \A p \in Node : Proposed(applied[p])

=================================================================================
