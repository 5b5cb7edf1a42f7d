------------------------------ MODULE Raft_proofs ------------------------------
(***************************************************************************)
(* Proofs about Raft, for any finite cluster and any bounds: types, at     *)
(* most one leader per term, logs that match, leaders that only append;    *)
(* and, in a cluster in which no leader counts a reply to an earlier       *)
(* leadership of its own, what is committed is held by a majority, is      *)
(* applied alike everywhere, and stays committed.                          *)
(***************************************************************************)
EXTENDS Raft, TLAPS, FiniteSetTheorems, WellFoundedInduction

---------------------------------------------------------------------------
(* Data *)

\* A non-empty set of natural numbers has a least element.
LEMMA Least ==
  ASSUME NEW T \in SUBSET Nat, T # {}
  PROVE  \E m \in T : \A k \in T : m <= k
<1> DEFINE R == OpToRel(<, Nat)
<1>1. PICK m \in T : \A k \in T : ~(<<k, m>> \in R)
  <2> HIDE DEF R
  <2>1. IsWellFoundedOn(R, Nat)
    BY NatLessThanWellFounded DEF R
  <2>2. T \subseteq Nat /\ T # {}
    OBVIOUS
  <2> QED BY <2>1, <2>2, WFMin, Zenon
<1>2. \A k \in T : k < m => <<k, m>> \in R
  BY DEF OpToRel
<1>3. \A k \in T : k \in Nat /\ m \in Nat /\ ~(k < m)
  BY <1>1, <1>2
<1> QED BY <1>3

\* A non-empty set of natural numbers below a bound has a greatest element, so
\* that the choice of MaybeCommit is an index of the set.
LEMMA Greatest ==
  ASSUME NEW S \in SUBSET Nat, NEW b \in Nat, \A i \in S : i <= b, S # {}
  PROVE  \E i \in S : \A j \in S : j <= i
<1> DEFINE T == {k \in Nat : \E i \in S : k = b - i}
<1>1. PICK e \in S : TRUE
  OBVIOUS
<1>2. \A i \in S : i \in Nat /\ b - i \in T
  OBVIOUS
<1>3. T \in SUBSET Nat /\ b - e \in T
  BY <1>1, <1>2
<1> HIDE DEF T
<1>4. PICK m \in T : \A k \in T : m <= k
  BY <1>3, Least
<1>5. PICK i \in S : m = b - i
  BY <1>4 DEF T
<1>6. \A j \in S : b - i <= b - j
  BY <1>2, <1>4, <1>5
<1>7. \A j \in S : j <= i
  BY <1>2, <1>6
<1> QED BY <1>7

\* The choice of AppendFrom is a position of the new entries.
LEMMA AppendFromType ==
  ASSUME NEW log \in Seq(Entry), NEW prev \in Nat, prev <= Len(log),
         NEW entries \in Seq(Entry)
  PROVE  AppendFrom(log, prev, entries) \in Seq(Entry)
<1> DEFINE differs == {i \in 1..Len(entries) :
                         \/ prev + i > Len(log)
                         \/ log[prev + i].term # entries[i].term}
<1> DEFINE first == CHOOSE i \in differs : \A j \in differs : i <= j
<1>1. CASE differs = {}
  BY <1>1 DEF AppendFrom
<1>2. CASE differs # {}
  <2>1. differs \in SUBSET Nat
    OBVIOUS
  <2>2. \E i \in differs : \A j \in differs : i <= j
    BY <1>2, <2>1, Least
  <2>3. first \in differs /\ \A j \in differs : first <= j
    BY <2>2
  <2>4. first \in 1..Len(entries)
    BY <2>3
  <2> HIDE DEF first
  <2>5. prev + first - 1 <= Len(log)
    <3>1. SUFFICES ASSUME prev + first - 1 > Len(log) PROVE FALSE
      BY <2>4
    <3>2. first - 1 \in 1..Len(entries)
      BY <2>4, <3>1
    <3>3. first - 1 \in differs
      BY <3>1, <3>2, <2>4
    <3>4. first <= first - 1
      BY <2>3, <3>3
    <3> QED BY <3>4, <2>4
  <2> HIDE DEF differs
  <2>6. SubSeq(log, 1, prev + first - 1) \in Seq(Entry)
    BY <2>4, <2>5
  <2>7. SubSeq(entries, first, Len(entries)) \in Seq(Entry)
    BY <2>4
  <2>8. AppendFrom(log, prev, entries)
          = SubSeq(log, 1, prev + first - 1) \o SubSeq(entries, first, Len(entries))
    BY <1>2 DEF AppendFrom, differs, first
  <2> QED BY <2>6, <2>7, <2>8
<1> QED BY <1>1, <1>2

\* The choice of MaybeCommit is an index.
LEMMA MaybeCommitType ==
  ASSUME TypeOK, NEW n \in Node, NEW match \in [Node -> Nat]
  PROVE  MaybeCommit(n, match) \in Nat
<1> DEFINE ready == {i \in commitIndex[n] + 1 .. Len(logEntries[n]) :
                       logEntries[n][i].term = currentTerm[n] /\ Held(n, i, match)}
<1>1. commitIndex[n] \in Nat /\ Len(logEntries[n]) \in Nat
  BY DEF TypeOK
<1>2. CASE ready = {}
  BY <1>1, <1>2 DEF MaybeCommit
<1>3. CASE ready # {}
  <2>1. ready \in SUBSET Nat /\ \A i \in ready : i <= Len(logEntries[n])
    BY <1>1
  <2> HIDE DEF ready
  <2>2. \E i \in ready : \A j \in ready : j <= i
    BY <1>1, <1>3, <2>1, Greatest
  <2>3. (CHOOSE i \in ready : \A j \in ready : j <= i) \in Nat
    BY <2>1, <2>2
  <2> QED BY <1>3, <2>3 DEF MaybeCommit, ready
<1> QED BY <1>2, <1>3

\* The terms of a log are numbers.
LEMMA LastTermType ==
  ASSUME NEW log \in Seq(Entry)
  PROVE  LastTerm(log) \in Nat /\ \A i \in 0..Len(log) : TermAt(log, i) \in Nat
<1>1. \A i \in 1..Len(log) : log[i] \in Entry
  OBVIOUS
<1>2. \A i \in 0..Len(log) : TermAt(log, i) \in Nat
  BY <1>1 DEF TermAt, Entry
<1> QED BY <1>2 DEF LastTerm

---------------------------------------------------------------------------
(* Types *)

\* The types, at first.
LEMMA TypeInit == Init => TypeOK
BY DEF Init, TypeOK, Idle, Round, WithoutSelf

\* No round.
LEMMA IdleType == Idle \in Round
BY DEF Idle, Round

\* A round goes on with fewer calls, or with another reply, or is over.
LEMMA RoundType ==
  ASSUME NEW round \in Round, NEW p \in Node, NEW r, NEW k \in Nat
  PROVE  /\ [round EXCEPT !.sent = @ \ {p}] \in Round
         /\ [[round EXCEPT !.replies = @ \ {r}] EXCEPT !.granted = k] \in Round
         /\ AwaitOthers(round) \in Round
<1>1. [round EXCEPT !.sent = @ \ {p}] \in Round
  BY DEF Round
<1>2. [[round EXCEPT !.replies = @ \ {r}] EXCEPT !.granted = k] \in Round
  BY DEF Round
<1>3. AwaitOthers(round) \in Round
  BY IdleType DEF AwaitOthers
<1> QED BY <1>1, <1>2, <1>3

\* A vote call goes on with another stage and another reply.
LEMMA VoteCallType ==
  ASSUME NEW c \in VoteCalls, NEW t \in Nat,
         NEW s \in {"sent", "granted", "denied", "counted", "over"}
  PROVE  [c EXCEPT !.stage = s, !.replyTerm = t] \in VoteCalls
BY DEF VoteCalls

\* StepDownIfNewer keeps the types.
LEMMA StepDownType ==
  ASSUME TypeOK, NEW n \in Node, NEW t \in Nat, StepDownIfNewer(n, t) \/ StepDown(n, t)
  PROVE  /\ state' \in [Node -> {"Follower", "Candidate", "Leader"}]
         /\ currentTerm' \in [Node -> Nat]
         /\ votedFor' \in [Node -> Node \cup {None}]
<1>1. CASE StepDown(n, t)
  BY <1>1 DEF StepDown, TypeOK
<1>2. CASE UNCHANGED nodeVars
  BY <1>2 DEF TypeOK, nodeVars
<1> QED BY <1>1, <1>2 DEF StepDownIfNewer

\* The leader state keeps the types.
LEMMA LeaderStateType ==
  ASSUME TypeOK, NEW n \in Node, NEW t \in Nat, LeaderState(n, t)
  PROVE  /\ leaderID' \in [Node -> Node \cup {None}]
         /\ nextIndex' \in [Node -> [Node -> Nat]]
         /\ matchIndex' \in [Node -> [Node -> Nat]]
         /\ elected' \subseteq Node \X Nat
<1>1. Len(logEntries[n]) + 1 \in Nat
  BY DEF TypeOK
<1>2. leaderID' \in [Node -> Node \cup {None}]
  BY DEF LeaderState, TypeOK
<1>3. nextIndex' \in [Node -> [Node -> Nat]]
  BY <1>1 DEF LeaderState, TypeOK
<1>4. matchIndex' \in [Node -> [Node -> Nat]]
  BY DEF LeaderState, TypeOK
<1>5. elected' \subseteq Node \X Nat
  BY DEF LeaderState, TypeOK
<1> QED BY <1>2, <1>3, <1>4, <1>5

\* campaign keeps the types.
LEMMA CampaignType ==
  ASSUME TypeOK, NEW n \in Node, NEW term \in Nat, NEW heard,
         Campaign(n, term, heard),
         UNCHANGED <<peers, logVars, contact, appendCalls, down>>,
         preVote' \in [Node -> Round]
  PROVE  TypeOK'
<1>1. CASE UNCHANGED <<nodeVars, leadVars, leaderID, voteCalls, elected>>
  BY <1>1 DEF TypeOK, nodeVars, logVars, leadVars
<1>2. CASE ~UNCHANGED <<nodeVars, leadVars, leaderID, voteCalls, elected>>
  <2> DEFINE t == currentTerm[n] + 1
  <2>1. LastTerm(logEntries[n]) \in Nat /\ Len(logEntries[n]) \in Nat /\ t \in Nat
    BY LastTermType DEF TypeOK
  <2>2. \A p \in Node : VoteCall(n, p, t) \in VoteCalls
    BY <2>1 DEF VoteCall, VoteCalls
  <2>3. /\ currentTerm' = [currentTerm EXCEPT ![n] = t]
        /\ votedFor' = [votedFor EXCEPT ![n] = n]
        /\ voteCalls' = {c \in voteCalls : c.from # n \/ Pending(c)}
                          \cup {VoteCall(n, p, t) : p \in peers[n]}
        /\ \/ state' = [state EXCEPT ![n] = "Leader"] /\ LeaderState(n, t)
           \/ /\ state' = [state EXCEPT ![n] = "Candidate"]
              /\ UNCHANGED <<leadVars, leaderID, elected>>
    BY <1>2 DEF Campaign
  <2> HIDE DEF t
  <2>4. voteCalls' \subseteq VoteCalls
    <3>1. peers[n] \subseteq Node /\ voteCalls \subseteq VoteCalls
      BY DEF TypeOK
    <3> QED BY <2>2, <2>3, <3>1
  <2>5. /\ currentTerm' \in [Node -> Nat]
        /\ votedFor' \in [Node -> Node \cup {None}]
        /\ state' \in [Node -> {"Follower", "Candidate", "Leader"}]
    BY <2>1, <2>3 DEF TypeOK
  <2>6. /\ leaderID' \in [Node -> Node \cup {None}]
        /\ nextIndex' \in [Node -> [Node -> Nat]]
        /\ matchIndex' \in [Node -> [Node -> Nat]]
        /\ elected' \subseteq Node \X Nat
    BY <2>1, <2>3, LeaderStateType DEF TypeOK, leadVars
  <2> QED BY <2>4, <2>5, <2>6 DEF TypeOK, logVars
<1> QED BY <1>1, <1>2

\* The steps of the election keep the types.
LEMMA TypeElection ==
  ASSUME TypeOK, Election
  PROVE  TypeOK'
<1> USE DEF nodeVars, logVars, leadVars, viewVars
<1>1. ASSUME NEW n \in Node, StartElection(n) PROVE TypeOK'
  <2>1. /\ LastTerm(logEntries[n]) \in Nat /\ Len(logEntries[n]) \in Nat
        /\ currentTerm[n] \in Nat /\ peers[n] \in SUBSET Node
    BY LastTermType DEF TypeOK
  <2>2. [running |-> TRUE, term |-> currentTerm[n],
         lastIndex |-> Len(logEntries[n]), lastTerm |-> LastTerm(logEntries[n]),
         polled |-> peers[n], heard |-> FALSE, sent |-> peers[n], replies |-> {},
         granted |-> 1] \in Round
    BY <2>1 DEF Round
  <2>3. preVote' \in [Node -> Round]
    BY <1>1, <2>2 DEF StartElection, TypeOK
  <2> QED BY <1>1, <2>3 DEF StartElection, TypeOK
<1>2. ASSUME NEW v \in Node, NEW n \in Node, HandlePreVote(v, n) PROVE TypeOK'
  <2>1. preVote[n] \in Round /\ currentTerm[v] \in Nat
    BY DEF TypeOK
  <2>2. ASSUME NEW g \in BOOLEAN
        PROVE  [preVote[n] EXCEPT !.sent = @ \ {v},
                  !.replies = @ \cup {[from |-> v, term |-> currentTerm[v], granted |-> g]}]
                 \in Round
    <3> DEFINE reply == [from |-> v, term |-> currentTerm[v], granted |-> g]
               Replies == [from : Node, term : Nat, granted : BOOLEAN]
    <3>1. reply \in Replies
      BY <2>1
    <3>2. preVote[n].sent \in SUBSET Node /\ preVote[n].replies \in SUBSET Replies
      BY <2>1 DEF Round
    <3>3. preVote[n].replies \cup {reply} \in SUBSET Replies
      BY <3>1, <3>2
    <3>4. preVote[n].sent \ {v} \in SUBSET Node
      BY <3>2
    <3>5. ASSUME NEW a \in SUBSET Node, NEW b \in SUBSET Replies
          PROVE  [preVote[n] EXCEPT !.sent = a, !.replies = b] \in Round
      BY <2>1 DEF Round
    <3> HIDE DEF reply, Replies
    <3> QED BY <3>3, <3>4, <3>5 DEF reply
  <2>3. PICK g \in BOOLEAN :
          preVote' = [preVote EXCEPT
            ![n].sent = @ \ {v},
            ![n].replies = @ \cup {[from |-> v, term |-> currentTerm[v], granted |-> g]}]
    BY <1>2 DEF HandlePreVote
  <2>4. preVote' = [preVote EXCEPT ![n] = [preVote[n] EXCEPT !.sent = @ \ {v},
            !.replies = @ \cup {[from |-> v, term |-> currentTerm[v], granted |-> g]}]]
    BY <2>1, <2>3 DEF TypeOK, Round
  <2>5. preVote' \in [Node -> Round]
    BY <2>2, <2>4 DEF TypeOK
  <2> QED BY <1>2, <2>5 DEF HandlePreVote, TypeOK
<1>3. ASSUME NEW v \in Node, NEW n \in Node, FailPreVote(n, v) PROVE TypeOK'
  <2>1. preVote[n] \in Round
    BY DEF TypeOK
  <2>2. AwaitOthers([preVote[n] EXCEPT !.sent = @ \ {v}]) \in Round
    BY <2>1, RoundType
  <2>3. preVote' \in [Node -> Round]
    BY <1>3, <2>2 DEF FailPreVote, TypeOK
  <2> QED BY <1>3, <2>3 DEF FailPreVote, TypeOK
<1>4. ASSUME NEW n \in Node, NEW r \in preVote[n].replies, ReceivePreVote(n, r)
      PROVE  TypeOK'
  <2> DEFINE round == preVote[n]
             wins == r.granted /\ round.granted + 1 >= Quorum(round.polled)
             k == round.granted + IF r.granted THEN 1 ELSE 0
             next == AwaitOthers([[round EXCEPT !.replies = @ \ {r}] EXCEPT !.granted = k])
  <2>1. /\ preVote[n] \in Round /\ r.term \in Nat /\ round.term \in Nat
        /\ round.granted \in Nat /\ k \in Nat
    <3>1. preVote[n] \in Round
      BY DEF TypeOK
    <3>2. /\ round.term \in Nat /\ round.granted \in Nat
          /\ round.replies \subseteq [from : Node, term : Nat, granted : BOOLEAN]
      BY <3>1 DEF Round
    <3>3. r.term \in Nat /\ k \in Nat
      BY <3>2
    <3> QED BY <3>1, <3>2, <3>3
  <2>2. next \in Round
    BY <2>1, RoundType
  <2>3. CASE r.term > preVote[n].term
    <3>1. StepDownIfNewer(n, r.term) /\ preVote' = [preVote EXCEPT ![n] = Idle]
      BY <1>4, <2>3 DEF ReceivePreVote
    <3>2. preVote' \in [Node -> Round]
      BY <3>1, IdleType DEF TypeOK
    <3> QED BY <1>4, <2>1, <2>3, <3>1, <3>2, StepDownType DEF ReceivePreVote, TypeOK
  <2>4. CASE ~(r.term > preVote[n].term) /\ wins
    <3>1. Campaign(n, round.term, round.heard) /\ preVote' = [preVote EXCEPT ![n] = Idle]
      BY <1>4, <2>4 DEF ReceivePreVote
    <3>2. UNCHANGED <<peers, logVars, contact, appendCalls, down>>
      BY <1>4 DEF ReceivePreVote
    <3>3. preVote' \in [Node -> Round]
      BY <3>1, IdleType DEF TypeOK
    <3> QED BY <2>1, <3>1, <3>2, <3>3, CampaignType
  <2>5. CASE ~(r.term > preVote[n].term) /\ ~wins
    <3>1. /\ UNCHANGED <<nodeVars, leadVars, leaderID, voteCalls, elected>>
          /\ UNCHANGED <<peers, logVars, contact, appendCalls, down>>
      BY <1>4, <2>5 DEF ReceivePreVote
    <3>2. preVote' = [preVote EXCEPT ![n] = next]
      <4>1. preVote' = [preVote EXCEPT ![n] = AwaitOthers(
               [[round EXCEPT !.replies = @ \ {r}]
                  EXCEPT !.granted = @ + IF r.granted THEN 1 ELSE 0])]
        BY <1>4, <2>5 DEF ReceivePreVote
      <4>2. [[round EXCEPT !.replies = @ \ {r}]
                  EXCEPT !.granted = @ + IF r.granted THEN 1 ELSE 0]
             = [[round EXCEPT !.replies = @ \ {r}] EXCEPT !.granted = k]
        BY <2>1 DEF Round
      <4> QED BY <4>1, <4>2
    <3>3. preVote' \in [Node -> Round]
      <4> HIDE DEF next
      <4> QED BY <2>2, <3>2 DEF TypeOK
    <3> QED BY <3>1, <3>3 DEF TypeOK
  <2> QED BY <2>3, <2>4, <2>5
<1>5. ASSUME NEW c \in voteCalls, HandleRequestVote(c) PROVE TypeOK'
  <2>1. c \in VoteCalls
    BY DEF TypeOK
  <2>2. c.to \in Node /\ c.from \in Node /\ c.term \in Nat /\ currentTerm[c.to] \in Nat
    BY <2>1 DEF VoteCalls, TypeOK
  <2>3. PICK s \in {"granted", "denied"}, t \in Nat :
          voteCalls' = (voteCalls \ {c}) \cup {[c EXCEPT !.stage = s, !.replyTerm = t]}
    BY <1>5, <2>2 DEF HandleRequestVote
  <2>4. voteCalls' \subseteq VoteCalls
    <3>1. [c EXCEPT !.stage = s, !.replyTerm = t] \in VoteCalls
      BY <2>1, VoteCallType
    <3> QED BY <2>3, <3>1 DEF TypeOK
  <2>5. /\ currentTerm' \in [Node -> Nat] /\ votedFor' \in [Node -> Node \cup {None}]
        /\ state' \in [Node -> {"Follower", "Candidate", "Leader"}]
    <3>1. CASE UNCHANGED nodeVars
      BY <3>1 DEF TypeOK
    <3>2. CASE ~UNCHANGED nodeVars
      <4>1. PICK s2 \in {"Follower", state[c.to]}, w \in {c.from, None, votedFor[c.to]} :
              /\ state' = [state EXCEPT ![c.to] = s2]
              /\ currentTerm' = [currentTerm EXCEPT ![c.to] = c.term]
              /\ votedFor' = [votedFor EXCEPT ![c.to] = w]
        BY <1>5, <3>2 DEF HandleRequestVote
      <4> QED BY <2>2, <4>1 DEF TypeOK
    <3> QED BY <3>1, <3>2
  <2> QED BY <1>5, <2>4, <2>5 DEF HandleRequestVote, TypeOK
<1>6. ASSUME NEW c \in voteCalls, ReceiveVote(c) PROVE TypeOK'
  <2>1. c \in VoteCalls
    BY DEF TypeOK
  <2>2. c.from \in Node /\ currentTerm[c.from] \in Nat /\ c.replyTerm \in Nat
    BY <2>1 DEF VoteCalls, TypeOK
  <2>3. PICK s \in {"counted", "over"} :
          voteCalls' = (voteCalls \ {c}) \cup {[c EXCEPT !.stage = s, !.replyTerm = 0]}
    BY <1>6 DEF ReceiveVote
  <2>4. voteCalls' \subseteq VoteCalls
    <3>1. [c EXCEPT !.stage = s, !.replyTerm = 0] \in VoteCalls
      BY <2>1, VoteCallType
    <3> QED BY <2>3, <3>1 DEF TypeOK
  <2>5. \/ /\ state' = [state EXCEPT ![c.from] = "Leader"]
           /\ LeaderState(c.from, currentTerm[c.from])
           /\ UNCHANGED <<currentTerm, votedFor>>
        \/ /\ StepDownIfNewer(c.from, c.replyTerm)
           /\ UNCHANGED <<leadVars, leaderID, elected>>
    BY <1>6 DEF ReceiveVote
  <2>6. /\ currentTerm' \in [Node -> Nat] /\ votedFor' \in [Node -> Node \cup {None}]
        /\ state' \in [Node -> {"Follower", "Candidate", "Leader"}]
    BY <2>2, <2>5, StepDownType DEF TypeOK
  <2>7. /\ leaderID' \in [Node -> Node \cup {None}]
        /\ nextIndex' \in [Node -> [Node -> Nat]]
        /\ matchIndex' \in [Node -> [Node -> Nat]]
        /\ elected' \subseteq Node \X Nat
    BY <2>2, <2>5, LeaderStateType DEF TypeOK
  <2> QED BY <1>6, <2>4, <2>6, <2>7 DEF ReceiveVote, TypeOK
<1>7. ASSUME NEW c \in voteCalls, FailVote(c) PROVE TypeOK'
  <2>1. c \in VoteCalls
    BY DEF TypeOK
  <2>2. voteCalls' \subseteq VoteCalls
    <3>1. [c EXCEPT !.stage = "over", !.replyTerm = 0] \in VoteCalls
      BY <2>1, VoteCallType
    <3> QED BY <1>7, <3>1 DEF FailVote, TypeOK
  <2> QED BY <1>7, <2>2 DEF FailVote, TypeOK
<1> QED BY <1>1, <1>2, <1>3, <1>4, <1>5, <1>6, <1>7 DEF Election

\* What a goroutine of broadcastAppendEntries becomes is a goroutine.
LEMMA AppendCallType ==
  ASSUME NEW c \in AppendCalls, NEW t \in Nat, NEW b \in BOOLEAN, NEW m \in Nat,
         NEW k \in Nat, NEW s \in {"acked", "over"}
  PROVE  /\ EndedAs(c, s) \in AppendCalls
         /\ [WithoutRequest(c) EXCEPT !.stage = "replied", !.replyTerm = t,
               !.success = b, !.match = m, !.conflict = k] \in AppendCalls
<1>1. <<>> \in Seq(Entry)
  OBVIOUS
<1>2. WithoutRequest(c) \in AppendCalls
  BY <1>1 DEF WithoutRequest, AppendCalls
<1>3. ASSUME NEW d \in AppendCalls
      PROVE  /\ [d EXCEPT !.stage = s, !.replyTerm = 0, !.success = FALSE,
                          !.match = 0, !.conflict = 0] \in AppendCalls
             /\ [d EXCEPT !.stage = "replied", !.replyTerm = t,
                          !.success = b, !.match = m, !.conflict = k] \in AppendCalls
  BY DEF AppendCalls
<1> QED BY <1>2, <1>3 DEF EndedAs

\* A goroutine that moves on is still a goroutine.
LEMMA ReplaceCallType ==
  ASSUME TypeOK, NEW c, NEW d \in AppendCalls
  PROVE  /\ CallsWith(c, d) \subseteq AppendCalls
         /\ ReplaceCall(c, d) => appendCalls' \subseteq AppendCalls
BY DEF ReplaceCall, CallsWith, TypeOK

\* A request marshalled after a write is the same request with other entries.
LEMMA RewrittenCall ==
  ASSUME NEW e \in AppendCalls, NEW log \in Seq(Entry), NEW d \in Rewritten(e, log)
  PROVE  /\ d \in AppendCalls
         /\ d.from = e.from /\ d.to = e.to /\ d.stage = e.stage /\ d.term = e.term
<1> DEFINE new == Shown(e, log)
           mixed == UNION {Torn(e.entries[i], new[i]) : i \in 1..Len(e.entries)}
<1>1. /\ e.entries \in Seq(Entry) /\ Len(e.entries) \in Nat /\ Len(log) \in Nat
      /\ e.prevIndex \in Nat /\ e.read \in Nat
  <2>1. e.entries \in Seq(Entry)
    BY DEF AppendCalls
  <2> QED BY <2>1 DEF AppendCalls
<1>2. ASSUME NEW i \in 1..Len(e.entries)
      PROVE  e.entries[i] \in Entry /\ new[i] \in Entry
  <2>1. e.entries[i] \in Entry
    BY <1>1
  <2>2. CASE e.prevIndex + i <= Len(log)
    <3>1. e.prevIndex + i \in 1..Len(log)
      BY <1>1, <2>2
    <3>2. log[e.prevIndex + i] \in Entry
      BY <3>1
    <3> QED BY <2>1, <2>2, <3>2 DEF Shown
  <2>3. CASE ~(e.prevIndex + i <= Len(log))
    BY <2>1, <2>3 DEF Shown
  <2> QED BY <2>2, <2>3
<1>3. mixed \subseteq Entry
  <2> SUFFICES ASSUME NEW i \in 1..Len(e.entries)
               PROVE  Torn(e.entries[i], new[i]) \subseteq Entry
    OBVIOUS
  <2> HIDE DEF new
  <2> QED BY <1>2 DEF Torn, Entry
<1> DEFINE Reads(j) ==
             {f \in [1..Len(e.entries) -> mixed] :
                \A i \in 1..Len(e.entries) :
                  IF i <= e.read THEN f[i] = e.entries[i]
                  ELSE IF i <= j THEN f[i] \in Torn(e.entries[i], new[i])
                  ELSE f[i] = new[i]}
<1>0. Rewritten(e, log) = UNION {{[e EXCEPT !.entries = f, !.read = j] : f \in Reads(j)} :
                                   j \in e.read..Len(e.entries)}
  BY DEF Rewritten
<1>4. PICK k \in e.read..Len(e.entries) :
        \E f \in [1..Len(e.entries) -> mixed] : d = [e EXCEPT !.entries = f, !.read = k]
  <2> HIDE DEF mixed, new
  <2>1. PICK k \in e.read..Len(e.entries) :
          d \in {[e EXCEPT !.entries = f, !.read = k] : f \in Reads(k)}
    <3> HIDE DEF Reads
    <3> QED BY <1>0
  <2>2. PICK f \in Reads(k) : d = [e EXCEPT !.entries = f, !.read = k]
    <3> HIDE DEF Reads
    <3> QED BY <2>1
  <2> QED BY <2>2
<1> HIDE DEF Reads
<1>5. PICK f \in [1..Len(e.entries) -> mixed] : d = [e EXCEPT !.entries = f, !.read = k]
  BY <1>4
<1>6. f \in [1..Len(e.entries) -> Entry]
  <2> HIDE DEF mixed
  <2> QED BY <1>3, <1>5
<1>7. f \in Seq(Entry)
  BY <1>1, <1>6
<1>8. k \in Nat
  BY <1>1
<1> HIDE DEF mixed, new
<1> QED BY <1>5, <1>7, <1>8 DEF AppendCalls

\* After a write of the log of n every goroutine is one of these, or one of them that shows
\* what was written.
LEMMA WrittenCalls ==
  ASSUME NEW n, NEW calls, LogWritten(n, calls)
  PROVE  \A d \in appendCalls' :
           d \in calls \/ \E e \in calls : d \in Rewritten(e, logEntries'[n])
<1> DEFINE log == logEntries'[n]
           exposed == {e \in calls : Exposed(e, n, log)}
<1>1. PICK later : /\ \A e \in exposed : later[e] \in Rewritten(e, log)
                   /\ appendCalls' = (calls \ exposed) \cup {later[e] : e \in exposed}
  BY DEF LogWritten
<1>2. exposed \subseteq calls
  OBVIOUS
<1> HIDE DEF exposed
<1> QED BY <1>1, <1>2

\* Where requests are marshalled at once, a write leaves them alone.
LEMMA WrittenAlone ==
  ASSUME ~LateMarshal, NEW n, NEW calls, LogWritten(n, calls)
  PROVE  appendCalls' = calls
<1> DEFINE log == logEntries'[n]
           exposed == {e \in calls : Exposed(e, n, log)}
<1>1. PICK later : appendCalls' = (calls \ exposed) \cup {later[e] : e \in exposed}
  BY DEF LogWritten
<1>2. exposed = {}
  BY DEF Exposed
<1> HIDE DEF exposed
<1> QED BY <1>1, <1>2

\* A write keeps the goroutines what they are.
LEMMA WrittenType ==
  ASSUME NEW n, NEW calls \in SUBSET AppendCalls, LogWritten(n, calls),
         logEntries'[n] \in Seq(Entry)
  PROVE  /\ appendCalls' \subseteq AppendCalls
         /\ \A d \in appendCalls' : \E e \in calls :
              d.from = e.from /\ d.to = e.to /\ d.stage = e.stage /\ d.term = e.term
<1> DEFINE log == logEntries'[n]
<1>1. log \in Seq(Entry) /\ \A d \in appendCalls' : d \in calls \/ \E e \in calls : d \in Rewritten(e, log)
  BY WrittenCalls
<1> HIDE DEF log
<1> QED BY <1>1, RewrittenCall

\* The steps of the replication keep the types.
LEMMA TypeReplication ==
  ASSUME TypeOK, Replication
  PROVE  TypeOK'
<1> USE DEF nodeVars, logVars, leadVars, viewVars
<1>1. ASSUME NEW n \in Node, Propose(n) PROVE TypeOK'
  <2>1. [term |-> currentTerm[n], by |-> n] \in Entry
    BY DEF TypeOK, Entry
  <2>2. logEntries' \in [Node -> Seq(Entry)]
    BY <1>1, <2>1 DEF Propose, TypeOK
  <2>3. appendCalls' \subseteq AppendCalls
    <3>1. LogWritten(n, appendCalls) /\ appendCalls \in SUBSET AppendCalls
      BY <1>1 DEF Propose, TypeOK
    <3> QED BY <2>2, <3>1, WrittenType
  <2> QED BY <1>1, <2>2, <2>3 DEF Propose, TypeOK
<1>2. ASSUME NEW n \in Node, Apply(n) PROVE TypeOK'
  <2>1. applied[n] \in Seq(Entry) /\ logEntries[n] \in Seq(Entry)
    BY DEF TypeOK
  <2>2. CASE Len(applied[n]) + 1 <= Len(logEntries[n])
    <3>1. logEntries[n][Len(applied[n]) + 1] \in Entry
      BY <2>1, <2>2
    <3>2. Append(applied[n], logEntries[n][Len(applied[n]) + 1]) \in Seq(Entry)
      BY <2>1, <3>1
    <3>3. applied' = [applied EXCEPT ![n] =
                        Append(applied[n], logEntries[n][Len(applied[n]) + 1])]
      BY <1>2, <2>2 DEF Apply
    <3>4. applied' \in [Node -> Seq(Entry)]
      BY <3>2, <3>3 DEF TypeOK
    <3> QED BY <1>2, <2>2, <3>4 DEF Apply, TypeOK
  <2>3. CASE ~(Len(applied[n]) + 1 <= Len(logEntries[n]))
    BY <1>2, <2>3 DEF Apply, TypeOK
  <2> QED BY <2>2, <2>3
<1>3. ASSUME NEW n \in Node, ContactAges(n) PROVE TypeOK'
  BY <1>3 DEF ContactAges, TypeOK
<1>4. ASSUME NEW n \in Node, NEW s \in Slot, Broadcast(n, s) PROVE TypeOK'
  <2>1. \A p \in Node : AppendCall(n, p, s) \in AppendCalls
    <3>1. Len(logEntries[n]) \in Nat /\ currentTerm[n] \in Nat /\ commitIndex[n] \in Nat
      BY DEF TypeOK
    <3>2. <<>> \in Seq(Entry)
      OBVIOUS
    <3> QED BY <3>1, <3>2 DEF AppendCall, AppendCalls
  <2>2. appendCalls' \subseteq AppendCalls
    <3>1. peers[n] \subseteq Node /\ appendCalls \subseteq AppendCalls
      BY DEF TypeOK
    <3> QED BY <1>4, <2>1, <3>1 DEF Broadcast
  <2> QED BY <1>4, <2>2 DEF Broadcast, TypeOK
<1>5. ASSUME NEW c \in appendCalls, BuildAppend(c) PROVE TypeOK'
  <2> DEFINE log == logEntries[c.from]
             next == nextIndex[c.from][c.to]
             ni == IF next = 0 THEN 1 ELSE next
             entries == IF ni <= c.logLen THEN SubSeq(log, ni, Len(log)) ELSE <<>>
             prevTerm == IF ni - 1 <= Len(log) THEN TermAt(log, ni - 1) ELSE 0
             panics == ni <= c.logLen /\ ni > Len(log) + 1
  <2>1. c \in AppendCalls
    BY DEF TypeOK
  <2>2. c.from \in Node /\ c.to \in Node /\ c.logLen \in Nat
    BY <2>1 DEF AppendCalls
  <2>3. log \in Seq(Entry) /\ ni \in Nat \ {0} /\ Len(log) \in Nat
    <3>1. logEntries[c.from] \in Seq(Entry)
      BY <2>2 DEF TypeOK
    <3>2. nextIndex[c.from][c.to] \in Nat
      BY <2>2 DEF TypeOK
    <3>3. ni \in Nat \ {0}
      BY <3>2
    <3> QED BY <3>1, <3>3
  <2>4. UNCHANGED <<nodeVars, peers, logVars, leadVars, viewVars, preVote, voteCalls, elected>>
    BY <1>5 DEF BuildAppend
  <2>5. CASE panics
    <3>1. ReplaceCall(c, EndedAs(c, "over")) /\ down' = down \cup {c.from}
      BY <1>5, <2>5 DEF BuildAppend
    <3>2. appendCalls' \subseteq AppendCalls
      BY <2>1, <3>1, AppendCallType, ReplaceCallType
    <3> QED BY <2>2, <2>4, <3>1, <3>2 DEF TypeOK
  <2>6. CASE ~panics
    <3>1. ReplaceCall(c, [c EXCEPT !.stage = "sent", !.prevIndex = ni - 1,
                            !.prevTerm = prevTerm, !.entries = entries, !.logLen = 0])
          /\ UNCHANGED down
      BY <1>5, <2>6 DEF BuildAppend
    <3>2. prevTerm \in Nat /\ ni - 1 \in Nat
      BY <2>3, LastTermType
    <3>3. entries \in Seq(Entry)
      <4>1. CASE ni <= c.logLen
        <5>1. ni \in 1..Len(log) + 1
          BY <2>2, <2>3, <2>6, <4>1
        <5>2. SubSeq(log, ni, Len(log)) \in Seq(Entry)
          <6> HIDE DEF log, ni
          <6> QED BY <2>3, <5>1
        <5> QED BY <4>1, <5>2
      <4>2. CASE ~(ni <= c.logLen)
        BY <4>2
      <4> QED BY <4>1, <4>2
    <3> HIDE DEF ni, prevTerm, entries
    <3>4. [c EXCEPT !.stage = "sent", !.prevIndex = ni - 1,
             !.prevTerm = prevTerm, !.entries = entries, !.logLen = 0] \in AppendCalls
      BY <2>1, <3>2, <3>3 DEF AppendCalls
    <3>5. appendCalls' \subseteq AppendCalls
      BY <3>1, <3>4, ReplaceCallType
    <3> QED BY <2>4, <3>1, <3>5 DEF TypeOK
  <2> QED BY <2>5, <2>6
<1>6. ASSUME NEW c \in appendCalls, HandleAppendEntries(c) PROVE TypeOK'
  <2> DEFINE v == c.to
             log == logEntries[v]
             matches == PrevMatches(log, c.prevIndex, c.prevTerm)
             lastNew == c.prevIndex + Len(c.entries)
             rt == IF matches THEN c.term ELSE currentTerm[v]
             m == IF matches THEN lastNew ELSE 0
             k == IF matches THEN 0 ELSE Len(log)
             reply == [WithoutRequest(c) EXCEPT !.stage = "replied", !.replyTerm = rt,
                         !.success = matches, !.match = m, !.conflict = k]
  <2>1. c \in AppendCalls
    BY DEF TypeOK
  <2>2. /\ v \in Node /\ c.from \in Node /\ c.term \in Nat /\ c.prevIndex \in Nat
        /\ c.commit \in Nat /\ c.entries \in Seq(Entry)
    BY <2>1 DEF AppendCalls
  <2>3. /\ currentTerm[v] \in Nat /\ commitIndex[v] \in Nat /\ log \in Seq(Entry)
        /\ Len(log) \in Nat /\ lastNew \in Nat /\ matches \in BOOLEAN
    <3>1. currentTerm[v] \in Nat /\ commitIndex[v] \in Nat /\ log \in Seq(Entry)
      BY <2>2 DEF TypeOK
    <3>2. Len(log) \in Nat /\ Len(c.entries) \in Nat
      BY <2>2, <3>1
    <3>3. matches \in BOOLEAN
      BY DEF PrevMatches
    <3> QED BY <2>2, <3>1, <3>2, <3>3
  <2>4. UNCHANGED <<peers, applied, leadVars, voteCalls, down, elected>>
    BY <1>6 DEF HandleAppendEntries
  <2>5. CASE Outdated(c)
    <3>1. /\ ReplaceCall(c, [reply EXCEPT !.replyTerm = currentTerm[v],
                               !.success = FALSE, !.match = 0, !.conflict = 0])
          /\ UNCHANGED <<nodeVars, logEntries, commitIndex, viewVars, preVote>>
      BY <1>6, <2>5 DEF HandleAppendEntries
    <3>2. reply \in AppendCalls
      <4>1. rt \in Nat /\ m \in Nat /\ k \in Nat
        BY <2>2, <2>3
      <4> HIDE DEF rt, m, k, matches
      <4> QED BY <2>1, <2>3, <4>1, AppendCallType
    <3> HIDE DEF reply
    <3>3. [reply EXCEPT !.replyTerm = currentTerm[v],
                        !.success = FALSE, !.match = 0, !.conflict = 0] \in AppendCalls
      BY <2>3, <3>2 DEF AppendCalls
    <3>4. appendCalls' \subseteq AppendCalls
      BY <3>1, <3>3, ReplaceCallType
    <3> QED BY <2>4, <3>1, <3>4 DEF TypeOK
  <2>6. CASE ~Outdated(c)
    <3> DEFINE newLog == IF matches THEN AppendFrom(log, c.prevIndex, c.entries) ELSE log
               newCommit == IF matches THEN FollowerCommit(commitIndex[v], c.commit, lastNew)
                            ELSE commitIndex[v]
    <3>1. /\ (StepDown(v, c.term) \/ UNCHANGED nodeVars)
          /\ leaderID' = [leaderID EXCEPT ![v] = c.from]
          /\ contact' = [contact EXCEPT ![v] = "fresh"]
          /\ preVote' = [preVote EXCEPT ![v].heard = preVote[v].running]
          /\ LogWritten(v, CallsWith(c, reply))
          /\ logEntries' = [logEntries EXCEPT ![v] = newLog]
          /\ commitIndex' = [commitIndex EXCEPT ![v] = newCommit]
      BY <1>6, <2>6 DEF HandleAppendEntries
    <3>2. newLog \in Seq(Entry)
      BY <2>2, <2>3, AppendFromType DEF PrevMatches
    <3>3. appendCalls' \subseteq AppendCalls
      <4>1. rt \in Nat /\ m \in Nat /\ k \in Nat
        BY <2>2, <2>3
      <4>2. reply \in AppendCalls
        <5> HIDE DEF rt, m, k, matches
        <5> QED BY <2>1, <2>3, <4>1, AppendCallType
      <4> HIDE DEF reply, newLog
      <4>3. CallsWith(c, reply) \in SUBSET AppendCalls
        BY <4>2, ReplaceCallType
      <4>4. logEntries'[v] \in Seq(Entry)
        BY <2>2, <3>1, <3>2 DEF TypeOK
      <4> QED BY <3>1, <4>3, <4>4, WrittenType
    <3>4. newCommit \in Nat
      BY <2>2, <2>3 DEF FollowerCommit
    <3>5. preVote' \in [Node -> Round]
      <4>1. preVote[v] \in Round
        BY <2>2 DEF TypeOK
      <4>2. [preVote[v] EXCEPT !.heard = preVote[v].running] \in Round
        BY <4>1 DEF Round
      <4>3. preVote' = [preVote EXCEPT ![v] = [preVote[v] EXCEPT !.heard = preVote[v].running]]
        BY <2>2, <3>1 DEF TypeOK
      <4> QED BY <4>2, <4>3 DEF TypeOK
    <3>6. /\ state' \in [Node -> {"Follower", "Candidate", "Leader"}]
          /\ currentTerm' \in [Node -> Nat]
          /\ votedFor' \in [Node -> Node \cup {None}]
      <4>1. CASE StepDown(v, c.term)
        BY <2>2, <4>1, StepDownType
      <4>2. CASE UNCHANGED nodeVars
        BY <4>2 DEF TypeOK
      <4> QED BY <3>1, <4>1, <4>2
    <3> HIDE DEF newLog, newCommit
    <3>7. /\ logEntries' \in [Node -> Seq(Entry)]
          /\ commitIndex' \in [Node -> Nat]
          /\ leaderID' \in [Node -> Node \cup {None}]
          /\ contact' \in [Node -> {"never", "stale", "fresh"}]
      BY <2>2, <3>1, <3>2, <3>4 DEF TypeOK
    <3> QED BY <2>4, <3>3, <3>5, <3>6, <3>7 DEF TypeOK
  <2> QED BY <2>5, <2>6
<1>7. ASSUME NEW c \in appendCalls, ReceiveAppend(c) PROVE TypeOK'
  <2> DEFINE n == c.from
             further == c.match > matchIndex[n][c.to]
             match == IF further THEN [matchIndex[n] EXCEPT ![c.to] = c.match]
                      ELSE matchIndex[n]
             counted == state[n] = "Leader" /\ c.replyTerm <= currentTerm[n]
  <2>1. c \in AppendCalls
    BY DEF TypeOK
  <2>2. /\ n \in Node /\ c.to \in Node /\ c.replyTerm \in Nat
        /\ c.match \in Nat /\ c.conflict \in Nat
    BY <2>1 DEF AppendCalls
  <2>3. /\ matchIndex[n] \in [Node -> Nat] /\ nextIndex[n] \in [Node -> Nat]
        /\ nextIndex[n][c.to] \in Nat
    BY <2>2 DEF TypeOK
  <2>4. match \in [Node -> Nat]
    BY <2>2, <2>3
  <2>5. /\ StepDownIfNewer(n, c.replyTerm)
        /\ ReplaceCall(c, EndedAs(c, IF counted /\ c.success THEN "acked" ELSE "over"))
        /\ UNCHANGED <<peers, logEntries, applied, viewVars, preVote, voteCalls, down, elected>>
    BY <1>7 DEF ReceiveAppend
  <2>6. appendCalls' \subseteq AppendCalls
    BY <2>1, <2>5, AppendCallType, ReplaceCallType
  <2>7. \E k \in Nat : nextIndex' = [nextIndex EXCEPT ![n] = [nextIndex[n] EXCEPT ![c.to] = k]]
    <3> DEFINE old == nextIndex[n][c.to]
    <3>1. CASE counted /\ c.success
      <4> DEFINE k == IF further THEN c.match + 1 ELSE old
      <4>1. nextIndex' = [nextIndex EXCEPT ![n] = [nextIndex[n] EXCEPT ![c.to] = k]]
        BY <1>7, <3>1 DEF ReceiveAppend
      <4>2. k \in Nat
        BY <2>2, <2>3
      <4> QED BY <4>1, <4>2
    <3>2. CASE ~(counted /\ c.success)
      <4> DEFINE k == IF ~counted THEN old
                      ELSE IF c.conflict > 0 THEN c.conflict
                      ELSE IF old > 1 THEN old - 1 ELSE old
      <4>1. nextIndex' = [nextIndex EXCEPT ![n] = [nextIndex[n] EXCEPT ![c.to] = k]]
        BY <1>7, <3>2 DEF ReceiveAppend
      <4>2. k \in Nat
        BY <2>2, <2>3
      <4> QED BY <4>1, <4>2
    <3> QED BY <3>1, <3>2
  <2>8. nextIndex' \in [Node -> [Node -> Nat]]
    <3>1. PICK k \in Nat :
            nextIndex' = [nextIndex EXCEPT ![n] = [nextIndex[n] EXCEPT ![c.to] = k]]
      BY <2>7
    <3>2. [nextIndex[n] EXCEPT ![c.to] = k] \in [Node -> Nat]
      BY <2>3
    <3> QED BY <3>1, <3>2 DEF TypeOK
  <2>9. /\ matchIndex' \in [Node -> [Node -> Nat]]
        /\ commitIndex' \in [Node -> Nat]
    <3>1. CASE counted /\ c.success
      <4> DEFINE ci == IF ReplicatedWith(c) THEN MaybeCommit(n, match) ELSE commitIndex[n]
      <4>1. /\ matchIndex' = [matchIndex EXCEPT ![n] = match]
            /\ commitIndex' = [commitIndex EXCEPT ![n] = ci]
        BY <1>7, <3>1 DEF ReceiveAppend
      <4>2. ci \in Nat
        <5>1. commitIndex[n] \in Nat
          BY <2>2 DEF TypeOK
        <5> HIDE DEF match
        <5> QED BY <2>2, <2>4, <5>1, MaybeCommitType
      <4> HIDE DEF ci, match
      <4> QED BY <2>4, <4>1, <4>2 DEF TypeOK
    <3>2. CASE ~(counted /\ c.success)
      <4>1. UNCHANGED <<matchIndex, commitIndex>>
        BY <1>7, <3>2 DEF ReceiveAppend
      <4> QED BY <4>1 DEF TypeOK
    <3> QED BY <3>1, <3>2
  <2>10. /\ state' \in [Node -> {"Follower", "Candidate", "Leader"}]
         /\ currentTerm' \in [Node -> Nat]
         /\ votedFor' \in [Node -> Node \cup {None}]
    BY <2>2, <2>5, StepDownType
  <2> QED BY <2>5, <2>6, <2>8, <2>9, <2>10 DEF TypeOK
<1>8. ASSUME NEW c \in appendCalls, FailAppend(c) PROVE TypeOK'
  <2>1. c \in AppendCalls
    BY DEF TypeOK
  <2>2. appendCalls' \subseteq AppendCalls
    BY <1>8, <2>1, AppendCallType, ReplaceCallType DEF FailAppend
  <2> QED BY <1>8, <2>2 DEF FailAppend, TypeOK
<1> QED BY <1>1, <1>2, <1>3, <1>4, <1>5, <1>6, <1>7, <1>8 DEF Replication

\* Every reachable state has its types, for any cluster and any bounds.
THEOREM TypeCorrect == Spec => []TypeOK
<1>1. Init => TypeOK
  BY TypeInit
<1>2. TypeOK /\ [Next]_vars => TypeOK'
  <2>1. CASE UNCHANGED vars
    BY <2>1 DEF vars, nodeVars, logVars, leadVars, viewVars, TypeOK
  <2> QED BY <2>1, TypeElection, TypeReplication DEF Next
<1> QED BY <1>1, <1>2, PTL DEF Spec

---------------------------------------------------------------------------
(* At most one leader per term *)

\* Nobody has voted yet.
LEMMA ElectionInvInit == Init => ElectionInv
BY DEF Init, ElectionInv, OneLeaderPerTerm, SelfVote, CallsAreOld, GrantKept, GrantOnce,
       CampaignComplete, ElectedClosed, PeersFixed, WithoutSelf

\* The fields of the vote calls.
LEMMA CallFields ==
  ASSUME TypeOK
  PROVE  \A c \in voteCalls : c.from \in Node /\ c.to \in Node /\ c.term \in Nat
BY DEF TypeOK, VoteCalls

\* Every node stays as it is, or becomes a follower: in a newer term or, if it was
\* a candidate, in its own.
NodesKept ==
  \A m \in Node :
    \/ /\ currentTerm'[m] = currentTerm[m]
       /\ state'[m] = state[m]
       /\ votedFor'[m] = votedFor[m]
    \/ /\ state'[m] = "Follower"
       /\ \/ currentTerm'[m] > currentTerm[m]
          \/ currentTerm'[m] = currentTerm[m] /\ state[m] = "Candidate"

\* One call, at two moments.
SameCall(c, d) == c.from = d.from /\ c.to = d.to /\ c.term = d.term

\* The calls stay, and none of them becomes a granted one.
CallsKept ==
  /\ \A d \in voteCalls' : \E c \in voteCalls : SameCall(c, d) /\ (Granted(d) => Granted(c))
  /\ \A c \in voteCalls : \E d \in voteCalls' : SameCall(c, d)

\* Stepping down and losing calls keep the invariant.
LEMMA KeptInv ==
  ASSUME TypeOK, TypeOK', ElectionInv, NodesKept, CallsKept, UNCHANGED <<peers, elected>>
  PROVE  ElectionInv'
<1> USE DEF ElectionInv
<1>1. /\ \A c \in voteCalls : c.from \in Node /\ c.to \in Node /\ c.term \in Nat
      /\ \A c \in voteCalls' : c.from \in Node /\ c.to \in Node /\ c.term \in Nat
  BY DEF TypeOK, VoteCalls
<1>2. \A m \in Node : currentTerm[m] \in Nat /\ currentTerm'[m] \in Nat
  BY DEF TypeOK
<1>3. \A m \in Node : currentTerm'[m] >= currentTerm[m]
  BY <1>2 DEF NodesKept
<1>4. OneLeaderPerTerm'
  BY DEF OneLeaderPerTerm
<1>5. SelfVote'
  BY DEF SelfVote, NodesKept
<1>6. CallsAreOld'
  BY <1>1, <1>2, <1>3 DEF CallsAreOld, CallsKept, SameCall
<1>7. GrantKept'
  <2> SUFFICES ASSUME NEW d \in voteCalls', Granted(d)
               PROVE  \/ currentTerm'[d.to] > d.term
                      \/ /\ currentTerm'[d.to] = d.term /\ state'[d.to] = "Follower"
                         /\ votedFor'[d.to] = d.from
    BY DEF GrantKept, Granted
  <2>1. PICK c \in voteCalls : SameCall(c, d) /\ Granted(c)
    BY DEF CallsKept
  <2>2. \/ currentTerm[c.to] > c.term
        \/ currentTerm[c.to] = c.term /\ state[c.to] = "Follower" /\ votedFor[c.to] = c.from
    BY <2>1 DEF GrantKept
  <2> QED BY <1>1, <1>2, <2>1, <2>2 DEF SameCall, NodesKept
<1>8. GrantOnce'
  <2> SUFFICES ASSUME NEW c \in voteCalls', NEW d \in voteCalls', Granted(c), Granted(d),
                      c.to = d.to, c.term = d.term
               PROVE  c.from = d.from
    BY DEF GrantOnce, Granted
  <2>1. PICK c0 \in voteCalls : SameCall(c0, c) /\ Granted(c0)
    BY DEF CallsKept
  <2>2. PICK d0 \in voteCalls : SameCall(d0, d) /\ Granted(d0)
    BY DEF CallsKept
  <2> QED BY <2>1, <2>2 DEF SameCall, GrantOnce
<1>9. CampaignComplete'
  <2> SUFFICES ASSUME NEW n \in Node, state'[n] = "Candidate"
               PROVE  {c.to : c \in {d \in voteCalls' :
                                       d.from = n /\ d.term = currentTerm'[n]}} = Node \ {n}
    BY DEF CampaignComplete
  <2>1. state[n] = "Candidate" /\ currentTerm'[n] = currentTerm[n]
    BY DEF NodesKept
  <2>2. {c.to : c \in {d \in voteCalls : d.from = n /\ d.term = currentTerm[n]}} = Node \ {n}
    BY <2>1 DEF CampaignComplete
  <2>3. ASSUME NEW p
        PROVE  (\E c \in voteCalls : c.from = n /\ c.term = currentTerm[n] /\ c.to = p)
                 <=> (\E d \in voteCalls' : d.from = n /\ d.term = currentTerm'[n] /\ d.to = p)
    BY <2>1 DEF CallsKept, SameCall
  <2> QED BY <2>2, <2>3
<1>10. ElectedClosed'
  <2> SUFFICES ASSUME NEW e \in elected PROVE \E Q \in SUBSET Node : Closed(e[1], e[2], Q)'
    BY DEF ElectedClosed
  <2>1. PICK Q \in SUBSET Node : Closed(e[1], e[2], Q)
    BY DEF ElectedClosed
  <2>2. e[1] \in Node /\ e[2] \in Nat
    BY DEF TypeOK
  <2>3. ASSUME NEW v \in Q
        PROVE  /\ currentTerm'[v] >= e[2]
               /\ currentTerm'[v] = e[2] =>
                    /\ votedFor'[v] = e[1]
                    /\ state'[v] = IF v = e[1] THEN "Leader" ELSE "Follower"
    <3>1. /\ v \in Node /\ currentTerm[v] >= e[2]
          /\ currentTerm[v] = e[2] =>
               votedFor[v] = e[1] /\ state[v] = IF v = e[1] THEN "Leader" ELSE "Follower"
      BY <2>1 DEF Closed
    <3>2. CASE currentTerm[v] = e[2]
      BY <1>2, <2>2, <3>1, <3>2 DEF NodesKept
    <3>3. CASE currentTerm[v] > e[2]
      BY <1>2, <1>3, <2>2, <3>1, <3>3
    <3> QED BY <1>2, <2>2, <3>1, <3>2, <3>3
  <2>4. ASSUME NEW v \in Q, NEW d \in voteCalls', Granted(d), d.to = v, d.term = e[2]
        PROVE  d.from = e[1]
    <3>1. PICK c \in voteCalls : SameCall(c, d) /\ Granted(c)
      BY <2>4 DEF CallsKept
    <3> QED BY <2>1, <2>4, <3>1 DEF SameCall, Closed
  <2>5. Closed(e[1], e[2], Q)'
    BY <2>1, <2>3, <2>4 DEF Closed, Granted
  <2> QED BY <2>5
<1>11. PeersFixed'
  BY DEF PeersFixed
<1> QED BY <1>4, <1>5, <1>6, <1>7, <1>8, <1>9, <1>10, <1>11

\* Two majorities of the cluster have a member in common.
LEMMA MajoritiesMeet ==
  ASSUME NEW P \in SUBSET Node, NEW Q \in SUBSET Node,
         2 * Cardinality(P) > Cardinality(Node), 2 * Cardinality(Q) > Cardinality(Node)
  PROVE  \E v \in Node : v \in P /\ v \in Q
<1>1. IsFiniteSet(Node)
  BY NodeAssumption
<1>2. /\ Cardinality(Node) \in Nat /\ Cardinality(P) \in Nat /\ Cardinality(Q) \in Nat
      /\ IsFiniteSet(P) /\ IsFiniteSet(Q)
  BY <1>1, FS_Subset, FS_CardinalityType
<1>3. P \cap Q # {}
  BY <1>1, <1>2, FS_MajoritiesIntersect
<1> QED BY <1>3

\* campaign keeps the invariant.
LEMMA CampaignInv ==
  ASSUME TypeOK, TypeOK', ElectionInv, NEW n \in Node, NEW expected, NEW heard,
         Campaign(n, expected, heard), UNCHANGED peers
  PROVE  ElectionInv'
<1> USE DEF ElectionInv
<1>0. PICK t \in Nat : t = currentTerm[n] + 1
  BY DEF TypeOK
<1>1. CASE UNCHANGED <<nodeVars, voteCalls, elected>>
  <2>1. NodesKept /\ CallsKept
    BY <1>1 DEF NodesKept, CallsKept, SameCall, nodeVars
  <2> QED BY <1>1, <2>1, KeptInv
<1>2. CASE ~UNCHANGED <<nodeVars, voteCalls, elected>>
  <2>1. /\ currentTerm' = [currentTerm EXCEPT ![n] = t]
        /\ votedFor' = [votedFor EXCEPT ![n] = n]
        /\ voteCalls' = {c \in voteCalls : c.from # n \/ Pending(c)}
                          \cup {VoteCall(n, p, t) : p \in peers[n]}
        /\ \/ /\ state' = [state EXCEPT ![n] = "Leader"] /\ peers[n] = {}
              /\ elected' = elected \cup {<<n, t>>}
           \/ state' = [state EXCEPT ![n] = "Candidate"] /\ elected' = elected
    BY <1>0, <1>2 DEF Campaign, LeaderState, nodeVars
  <2>2. /\ \A c \in voteCalls : c.from \in Node /\ c.to \in Node /\ c.term \in Nat
        /\ \A c \in voteCalls' : c.from \in Node /\ c.to \in Node /\ c.term \in Nat
    BY DEF TypeOK, VoteCalls
  <2>3. \A m \in Node : currentTerm[m] \in Nat /\ currentTerm'[m] \in Nat
    BY DEF TypeOK
  <2>4. /\ t \in Nat /\ currentTerm'[n] = t /\ t > currentTerm[n]
        /\ votedFor'[n] = n /\ state'[n] \in {"Leader", "Candidate"}
        /\ \A m \in Node \ {n} : /\ currentTerm'[m] = currentTerm[m]
                                 /\ votedFor'[m] = votedFor[m]
                                 /\ state'[m] = state[m]
    BY <1>0, <2>1, <2>3 DEF TypeOK
  <2>5. peers[n] = Node \ {n}
    BY DEF PeersFixed
  <2>6. \A p \in Node : /\ VoteCall(n, p, t).from = n /\ VoteCall(n, p, t).to = p
                        /\ VoteCall(n, p, t).term = t /\ ~Granted(VoteCall(n, p, t))
    BY DEF VoteCall, Granted
  <2>7. \A d \in voteCalls' : \/ d \in voteCalls
                              \/ /\ d.from = n /\ d.to \in Node \ {n} /\ d.term = t
                                 /\ ~Granted(d)
    BY <2>1, <2>5, <2>6
  <2>8. SelfVote'
    BY <2>4 DEF SelfVote
  <2>9. CallsAreOld'
    <3> SUFFICES ASSUME NEW d \in voteCalls'
                 PROVE  d.from # d.to /\ d.term <= currentTerm'[d.from]
      BY DEF CallsAreOld
    <3>1. CASE d \in voteCalls
      BY <2>2, <2>3, <2>4, <3>1 DEF CallsAreOld
    <3>2. CASE d.from = n /\ d.to \in Node \ {n} /\ d.term = t
      BY <2>3, <2>4, <3>2
    <3> QED BY <2>7, <3>1, <3>2
  <2>10. GrantKept'
    <3> SUFFICES ASSUME NEW d \in voteCalls', Granted(d)
                 PROVE  \/ currentTerm'[d.to] > d.term
                        \/ /\ currentTerm'[d.to] = d.term /\ state'[d.to] = "Follower"
                           /\ votedFor'[d.to] = d.from
      BY DEF GrantKept, Granted
    <3>1. d \in voteCalls
      BY <2>7
    <3>2. \/ currentTerm[d.to] > d.term
          \/ /\ currentTerm[d.to] = d.term /\ state[d.to] = "Follower"
             /\ votedFor[d.to] = d.from
      BY <3>1 DEF GrantKept
    <3> QED BY <2>2, <2>3, <2>4, <3>2
  <2>11. GrantOnce'
    BY <2>7 DEF GrantOnce, Granted
  <2>12. CampaignComplete'
    <3> SUFFICES ASSUME NEW m \in Node, state'[m] = "Candidate"
                 PROVE  {c.to : c \in {d \in voteCalls' :
                                        d.from = m /\ d.term = currentTerm'[m]}} = Node \ {m}
      BY DEF CampaignComplete
    <3>1. CASE m = n
      <4>1. \A c \in voteCalls : c.from = n => c.term # t
        BY <2>2, <2>3, <2>4 DEF CallsAreOld
      <4>2. \A d \in voteCalls' : d.from = n /\ d.term = t => d.to \in Node \ {n}
        BY <2>7, <4>1
      <4>3. \A p \in Node \ {n} : \E d \in voteCalls' : d.from = n /\ d.term = t /\ d.to = p
        BY <2>1, <2>5, <2>6
      <4> QED BY <2>4, <3>1, <4>2, <4>3
    <3>2. CASE m # n
      <4>1. state[m] = "Candidate" /\ currentTerm'[m] = currentTerm[m]
        BY <2>4, <3>2
      <4>2. {c.to : c \in {d \in voteCalls : d.from = m /\ d.term = currentTerm[m]}}
              = Node \ {m}
        BY <4>1 DEF CampaignComplete
      <4>3. {d \in voteCalls' : d.from = m /\ d.term = currentTerm[m]}
              = {d \in voteCalls : d.from = m /\ d.term = currentTerm[m]}
        BY <2>1, <2>7, <3>2
      <4> QED BY <4>1, <4>2, <4>3
    <3> QED BY <3>1, <3>2
  <2>13. ASSUME NEW e \in elected PROVE \E Q \in SUBSET Node : Closed(e[1], e[2], Q)'
    <3>1. PICK Q \in SUBSET Node : Closed(e[1], e[2], Q)
      BY <2>13 DEF ElectedClosed
    <3>2. e[1] \in Node /\ e[2] \in Nat
      BY <2>13 DEF TypeOK
    <3>3. \A v \in Q : /\ v \in Node /\ currentTerm[v] >= e[2]
                       /\ currentTerm[v] = e[2] =>
                            /\ votedFor[v] = e[1]
                            /\ state[v] = IF v = e[1] THEN "Leader" ELSE "Follower"
      BY <3>1 DEF Closed
    <3>4. \A v \in Q : /\ currentTerm'[v] >= e[2]
                       /\ currentTerm'[v] = e[2] =>
                            /\ votedFor'[v] = e[1]
                            /\ state'[v] = IF v = e[1] THEN "Leader" ELSE "Follower"
      BY <2>3, <2>4, <3>2, <3>3
    <3>5. \A v \in Q : \A d \in voteCalls' :
            Granted(d) /\ d.to = v /\ d.term = e[2] => d.from = e[1]
      BY <2>7, <3>1 DEF Closed
    <3>6. Closed(e[1], e[2], Q)'
      BY <3>1, <3>4, <3>5 DEF Closed, Granted
    <3> QED BY <3>6
  <2>14. CASE elected' = elected
    BY <2>8, <2>9, <2>10, <2>11, <2>12, <2>13, <2>14
       DEF OneLeaderPerTerm, ElectedClosed, PeersFixed
  <2>15. CASE state' = [state EXCEPT ![n] = "Leader"] /\ peers[n] = {}
              /\ elected' = elected \cup {<<n, t>>}
    <3>1. Node = {n}
      BY <2>5, <2>15
    <3>2. Cardinality({n}) = 1
      BY FS_Singleton
    <3>3. \A d \in voteCalls' : FALSE
      BY <2>2, <2>9, <3>1 DEF CallsAreOld
    <3>4. state'[n] = "Leader"
      BY <2>15 DEF TypeOK
    <3>5. \E Q \in SUBSET Node : Closed(n, t, Q)'
      <4>1. Closed(n, t, {n})'
        BY <2>4, <3>1, <3>2, <3>3, <3>4 DEF Closed
      <4> QED BY <3>1, <4>1
    <3>6. ElectedClosed'
      <4> SUFFICES ASSUME NEW e \in elected' PROVE \E Q \in SUBSET Node : Closed(e[1], e[2], Q)'
        BY DEF ElectedClosed
      <4>1. CASE e \in elected
        BY <2>13, <4>1
      <4>2. CASE e = <<n, t>>
        BY <3>5, <4>2
      <4> QED BY <2>15, <4>1, <4>2
    <3>7. OneLeaderPerTerm'
      <4>1. \A e \in elected' : e[1] = n
        BY <3>1 DEF TypeOK
      <4> QED BY <4>1 DEF OneLeaderPerTerm
    <3> QED BY <2>8, <2>9, <2>10, <2>11, <2>12, <3>6, <3>7 DEF PeersFixed
  <2> QED BY <2>1, <2>14, <2>15
<1> QED BY <1>1, <1>2

\* HandleRequestVote keeps the invariant.
LEMMA HandleVoteInv ==
  ASSUME TypeOK, TypeOK', ElectionInv, NEW c \in voteCalls, HandleRequestVote(c)
  PROVE  ElectionInv'
<1> USE DEF ElectionInv
<1> DEFINE v == c.to
<1>1. /\ \A d \in voteCalls : d.from \in Node /\ d.to \in Node /\ d.term \in Nat
      /\ \A d \in voteCalls' : d.from \in Node /\ d.to \in Node /\ d.term \in Nat
  BY DEF TypeOK, VoteCalls
<1>2. \A m \in Node : /\ currentTerm[m] \in Nat /\ currentTerm'[m] \in Nat
                      /\ votedFor[m] \in Node \cup {None}
  BY DEF TypeOK
<1>3. UNCHANGED <<peers, elected>>
  BY <1>1 DEF HandleRequestVote
<1>4. PICK d : /\ voteCalls' = (voteCalls \ {c}) \cup {d} /\ SameCall(c, d)
               /\ \/ /\ ~Granted(d) /\ c.term < currentTerm[v] /\ UNCHANGED nodeVars
                  \/ /\ ~Granted(d) /\ c.term >= currentTerm[v]
                     /\ state' = [state EXCEPT ![v] =
                          IF c.term > currentTerm[v] THEN "Follower" ELSE @]
                     /\ currentTerm' = [currentTerm EXCEPT ![v] = c.term]
                     /\ votedFor' = [votedFor EXCEPT ![v] =
                          IF c.term > currentTerm[v] THEN None ELSE @]
                  \/ /\ Granted(d) /\ c.term >= currentTerm[v]
                     /\ c.term > currentTerm[v] \/ votedFor[v] \in {None, c.from}
                     /\ state' = [state EXCEPT ![v] =
                          IF c.term > currentTerm[v] THEN "Follower" ELSE @]
                     /\ currentTerm' = [currentTerm EXCEPT ![v] = c.term]
                     /\ votedFor' = [votedFor EXCEPT ![v] = c.from]
  <2>1. ASSUME NEW s \in {"granted", "denied"}, NEW k \in Nat
        PROVE  /\ SameCall(c, [c EXCEPT !.stage = s, !.replyTerm = k])
               /\ Granted([c EXCEPT !.stage = s, !.replyTerm = k]) <=> s = "granted"
    <3>1. c \in VoteCalls
      BY DEF TypeOK
    <3> QED BY <3>1 DEF SameCall, Granted, VoteCalls
  <2> DEFINE newer == c.term > currentTerm[v]
             voted == IF newer THEN None ELSE votedFor[v]
             grant == VoteFree(voted, c.from) /\ LogOK(c.lastIndex, c.lastTerm, logEntries[v])
  <2>2. CASE c.term < currentTerm[v]
    <3>1. /\ voteCalls' = (voteCalls \ {c}) \cup
               {[c EXCEPT !.stage = "denied", !.replyTerm = currentTerm[v]]}
          /\ UNCHANGED nodeVars
      BY <2>2 DEF HandleRequestVote
    <3> QED BY <1>1, <1>2, <2>1, <2>2, <3>1
  <2>3. CASE ~(c.term < currentTerm[v]) /\ grant
    <3>1. /\ voteCalls' = (voteCalls \ {c}) \cup
               {[c EXCEPT !.stage = "granted", !.replyTerm = c.term]}
          /\ state' = [state EXCEPT ![v] = IF newer THEN "Follower" ELSE @]
          /\ currentTerm' = [currentTerm EXCEPT ![v] = c.term]
          /\ votedFor' = [votedFor EXCEPT ![v] = c.from]
      BY <2>3 DEF HandleRequestVote
    <3>2. c.term > currentTerm[v] \/ votedFor[v] \in {None, c.from}
      BY <2>3 DEF VoteFree
    <3>3. c.term >= currentTerm[v] /\ c.term \in Nat
      BY <1>1, <1>2, <2>3
    <3> QED BY <2>1, <3>1, <3>2, <3>3
  <2>4. CASE ~(c.term < currentTerm[v]) /\ ~grant
    <3>1. /\ voteCalls' = (voteCalls \ {c}) \cup
               {[c EXCEPT !.stage = "denied", !.replyTerm = c.term]}
          /\ state' = [state EXCEPT ![v] = IF newer THEN "Follower" ELSE @]
          /\ currentTerm' = [currentTerm EXCEPT ![v] = c.term]
          /\ votedFor' = [votedFor EXCEPT ![v] = voted]
      BY <2>4 DEF HandleRequestVote
    <3>3. c.term >= currentTerm[v] /\ c.term \in Nat
      BY <1>1, <1>2, <2>4
    <3> QED BY <2>1, <3>1, <3>3
  <2> QED BY <2>2, <2>3, <2>4
<1>5. CASE ~Granted(d)
  <2>1. NodesKept
    <3>1. CASE UNCHANGED nodeVars
      BY <3>1 DEF NodesKept, nodeVars
    <3>2. CASE ~UNCHANGED nodeVars
      <4>1. /\ c.term >= currentTerm[v]
            /\ state' = [state EXCEPT ![v] =
                 IF c.term > currentTerm[v] THEN "Follower" ELSE state[v]]
            /\ currentTerm' = [currentTerm EXCEPT ![v] = c.term]
            /\ votedFor' = [votedFor EXCEPT ![v] =
                 IF c.term > currentTerm[v] THEN None ELSE votedFor[v]]
        BY <1>4, <1>5, <3>2
      <4>2. c.term > currentTerm[v] \/ c.term = currentTerm[v]
        BY <1>1, <1>2, <4>1
      <4>3. CASE c.term > currentTerm[v]
        <5>1. state'[v] = "Follower" /\ currentTerm'[v] = c.term
          BY <1>1, <4>1, <4>3 DEF TypeOK
        <5>2. \A m \in Node \ {v} : /\ currentTerm'[m] = currentTerm[m]
                                     /\ votedFor'[m] = votedFor[m]
                                     /\ state'[m] = state[m]
          BY <1>1, <4>1 DEF TypeOK
        <5> QED BY <4>3, <5>1, <5>2 DEF NodesKept
      <4>4. CASE c.term = currentTerm[v]
        <5>1. UNCHANGED <<state, currentTerm, votedFor>>
          BY <1>1, <1>2, <4>1, <4>4 DEF TypeOK
        <5> QED BY <5>1 DEF NodesKept
      <4> QED BY <4>2, <4>3, <4>4
    <3> QED BY <3>1, <3>2
  <2>2. CallsKept
    BY <1>4, <1>5 DEF CallsKept, SameCall
  <2> QED BY <1>3, <2>1, <2>2, KeptInv
<1>6. CASE Granted(d)
  <2>1. /\ currentTerm'[v] = c.term /\ votedFor'[v] = c.from
        /\ state'[v] = IF c.term > currentTerm[v] THEN "Follower" ELSE state[v]
        /\ \A m \in Node \ {v} : /\ currentTerm'[m] = currentTerm[m]
                                 /\ votedFor'[m] = votedFor[m]
                                 /\ state'[m] = state[m]
    BY <1>1, <1>4, <1>6 DEF TypeOK
  <2>2. c.term > currentTerm[v] \/ (c.term = currentTerm[v] /\ votedFor[v] \in {None, c.from})
    <3>1. c.term >= currentTerm[v]
      BY <1>4, <1>6
    <3>2. c.term > currentTerm[v] \/ votedFor[v] \in {None, c.from}
      BY <1>4, <1>6
    <3>3. c.term > currentTerm[v] \/ c.term = currentTerm[v]
      BY <1>1, <1>2, <3>1
    <3> QED BY <3>2, <3>3
  <2>3. state'[v] = "Follower"
    <3>1. c.from # v /\ c.from \in Node /\ v \in Node
      BY <1>1 DEF CallsAreOld
    <3>2. v # None
      BY <3>1, NodeAssumption
    <3> QED BY <2>1, <2>2, <3>1, <3>2 DEF SelfVote
  <2>4. \A e \in voteCalls : Granted(e) /\ e.to = v /\ e.term = c.term => e.from = c.from
    <3> SUFFICES ASSUME NEW e \in voteCalls, Granted(e), e.to = v, e.term = c.term
                 PROVE  e.from = c.from
      OBVIOUS
    <3>1. currentTerm[v] > c.term \/ (currentTerm[v] = c.term /\ votedFor[v] = e.from)
      <4>1. \/ currentTerm[e.to] > e.term
            \/ currentTerm[e.to] = e.term /\ votedFor[e.to] = e.from
        BY DEF GrantKept
      <4> QED BY <4>1
    <3>2. e.from # None
      BY <1>1, NodeAssumption
    <3> QED BY <1>1, <1>2, <2>2, <3>1, <3>2
  <2>5. \A e \in voteCalls' : e = d \/ e \in voteCalls
    BY <1>4
  <2>6. SelfVote'
    BY <2>1, <2>3 DEF SelfVote
  <2>7. CallsAreOld'
    <3>1. \A m \in Node : currentTerm'[m] >= currentTerm[m]
      BY <1>1, <1>2, <2>1, <2>2
    <3> QED BY <1>1, <1>2, <1>4, <2>5, <3>1 DEF CallsAreOld, SameCall
  <2>8. GrantKept'
    <3> SUFFICES ASSUME NEW e \in voteCalls', Granted(e)
                 PROVE  \/ currentTerm'[e.to] > e.term
                        \/ /\ currentTerm'[e.to] = e.term /\ state'[e.to] = "Follower"
                           /\ votedFor'[e.to] = e.from
      BY DEF GrantKept, Granted
    <3>1. CASE e = d
      BY <1>4, <2>1, <2>3, <3>1 DEF SameCall
    <3>2. CASE e \in voteCalls
      <4>1. \/ currentTerm[e.to] > e.term
            \/ /\ currentTerm[e.to] = e.term /\ state[e.to] = "Follower"
               /\ votedFor[e.to] = e.from
        BY <3>2 DEF GrantKept
      <4>2. CASE e.to # v
        BY <1>1, <2>1, <3>2, <4>1, <4>2
      <4>3. CASE e.to = v /\ e.term = c.term
        BY <2>1, <2>3, <2>4, <3>2, <4>3
      <4>4. CASE e.to = v /\ e.term # c.term
        BY <1>1, <1>2, <2>1, <2>2, <3>2, <4>1, <4>4
      <4> QED BY <4>2, <4>3, <4>4
    <3> QED BY <2>5, <3>1, <3>2
  <2>9. GrantOnce'
    <3> SUFFICES ASSUME NEW a \in voteCalls', NEW b \in voteCalls', Granted(a), Granted(b),
                        a.to = b.to, a.term = b.term
                 PROVE  a.from = b.from
      BY DEF GrantOnce, Granted
    <3> QED BY <1>4, <2>4, <2>5 DEF GrantOnce, SameCall
  <2>10. CampaignComplete'
    <3> SUFFICES ASSUME NEW n \in Node, state'[n] = "Candidate"
                 PROVE  {a.to : a \in {b \in voteCalls' :
                                        b.from = n /\ b.term = currentTerm'[n]}} = Node \ {n}
      BY DEF CampaignComplete
    <3>1. n # v /\ state[n] = "Candidate" /\ currentTerm'[n] = currentTerm[n]
      BY <2>1, <2>3
    <3>2. {a.to : a \in {b \in voteCalls : b.from = n /\ b.term = currentTerm[n]}} = Node \ {n}
      BY <3>1 DEF CampaignComplete
    <3>3. ASSUME NEW p
          PROVE  (\E a \in voteCalls : a.from = n /\ a.term = currentTerm[n] /\ a.to = p)
                  <=> (\E b \in voteCalls' : b.from = n /\ b.term = currentTerm'[n] /\ b.to = p)
      BY <1>4, <3>1 DEF SameCall
    <3> QED BY <3>2, <3>3
  <2>11. ElectedClosed'
    <3> SUFFICES ASSUME NEW e \in elected PROVE \E Q \in SUBSET Node : Closed(e[1], e[2], Q)'
      BY <1>3 DEF ElectedClosed
    <3>1. PICK Q \in SUBSET Node : Closed(e[1], e[2], Q)
      BY DEF ElectedClosed
    <3>2. e[1] \in Node /\ e[2] \in Nat
      BY DEF TypeOK
    <3>3. \A w \in Q : /\ w \in Node /\ currentTerm[w] >= e[2]
                       /\ currentTerm[w] = e[2] =>
                            /\ votedFor[w] = e[1]
                            /\ state[w] = IF w = e[1] THEN "Leader" ELSE "Follower"
      BY <3>1 DEF Closed
    <3>4. v \in Q /\ c.term = e[2] => c.from = e[1] /\ v # e[1]
      <4> SUFFICES ASSUME v \in Q, c.term = e[2] PROVE c.from = e[1] /\ v # e[1]
        OBVIOUS
      <4>1. currentTerm[v] = e[2] /\ votedFor[v] \in {None, c.from}
        BY <1>1, <1>2, <2>2, <3>3
      <4>2. votedFor[v] = e[1] /\ e[1] # None
        BY <3>2, <3>3, <4>1, NodeAssumption
      <4>3. c.from # v
        BY DEF CallsAreOld
      <4> QED BY <4>1, <4>2, <4>3
    <3>5. \A w \in Q : /\ currentTerm'[w] >= e[2]
                       /\ currentTerm'[w] = e[2] =>
                            /\ votedFor'[w] = e[1]
                            /\ state'[w] = IF w = e[1] THEN "Leader" ELSE "Follower"
      BY <1>1, <1>2, <2>1, <2>2, <2>3, <3>2, <3>3, <3>4
    <3>6. \A w \in Q : \A a \in voteCalls' :
            Granted(a) /\ a.to = w /\ a.term = e[2] => a.from = e[1]
      BY <1>4, <2>5, <3>1, <3>4 DEF Closed, SameCall
    <3>7. Closed(e[1], e[2], Q)'
      BY <3>1, <3>5, <3>6 DEF Closed, Granted
    <3> QED BY <3>7
  <2> QED BY <1>3, <2>6, <2>7, <2>8, <2>9, <2>10, <2>11 DEF OneLeaderPerTerm, PeersFixed
<1> QED BY <1>5, <1>6

\* Stepping down for a newer term keeps the nodes.
LEMMA StepDownKept ==
  ASSUME TypeOK, NEW n \in Node, NEW t \in Nat, StepDownIfNewer(n, t)
  PROVE  NodesKept
<1>1. CASE UNCHANGED nodeVars
  BY <1>1 DEF NodesKept, nodeVars
<1>2. CASE t > currentTerm[n] /\ StepDown(n, t)
  <2>1. state'[n] = "Follower" /\ currentTerm'[n] = t
    BY <1>2 DEF StepDown, TypeOK
  <2>2. \A m \in Node \ {n} : /\ currentTerm'[m] = currentTerm[m]
                              /\ votedFor'[m] = votedFor[m]
                              /\ state'[m] = state[m]
    BY <1>2 DEF StepDown, TypeOK
  <2> QED BY <1>2, <2>1, <2>2 DEF NodesKept
<1> QED BY <1>1, <1>2 DEF StepDownIfNewer

\* A call that is ended, granted only if it was granted, keeps the calls.
LEMMA EndedKept ==
  ASSUME TypeOK, NEW c \in voteCalls, NEW s \in {"counted", "over"},
         s = "counted" => Granted(c),
         voteCalls' = (voteCalls \ {c}) \cup {[c EXCEPT !.stage = s, !.replyTerm = 0]}
  PROVE  CallsKept
<1> DEFINE d == [c EXCEPT !.stage = s, !.replyTerm = 0]
<1>1. c \in VoteCalls
  BY DEF TypeOK
<1>2. SameCall(c, d) /\ (Granted(d) => s = "counted")
  BY <1>1 DEF SameCall, Granted, VoteCalls
<1> HIDE DEF d
<1>3. voteCalls' = (voteCalls \ {c}) \cup {d}
  BY DEF d
<1> QED BY <1>2, <1>3 DEF CallsKept, SameCall

\* Winning the vote keeps the invariant: the members that granted their vote,
\* with the winner, are a majority that no other candidate of the term can have.
LEMMA WinInv ==
  ASSUME TypeOK, TypeOK', ElectionInv, NEW c \in voteCalls, c.stage = "granted",
         WinsWith(c), StillCandidate(c.from, c.term), CallsKept,
         state' = [state EXCEPT ![c.from] = "Leader"],
         elected' = elected \cup {<<c.from, c.term>>},
         UNCHANGED <<currentTerm, votedFor, peers>>
  PROVE  ElectionInv'
<1> USE DEF ElectionInv
<1>0. PICK n \in Node, t \in Nat : n = c.from /\ t = c.term
  BY CallFields
<1>1. /\ \A d \in voteCalls : d.from \in Node /\ d.to \in Node /\ d.term \in Nat
      /\ \A d \in voteCalls' : d.from \in Node /\ d.to \in Node /\ d.term \in Nat
  BY DEF TypeOK, VoteCalls
<1>2. \A m \in Node : currentTerm[m] \in Nat
  BY DEF TypeOK
<1>3. /\ state[n] = "Candidate" /\ currentTerm[n] = t /\ votedFor[n] = n
      /\ state'[n] = "Leader" /\ \A m \in Node \ {n} : state'[m] = state[m]
  BY <1>0 DEF StillCandidate, SelfVote, TypeOK
<1> DEFINE G == {v \in Node : \E d \in voteCalls :
                   Granted(d) /\ d.from = n /\ d.to = v /\ d.term = t}
           tally == {d.to : d \in {e \in CampaignOf(c) : e.stage = "counted"}}
           polled == {d.to : d \in CampaignOf(c)}
           Q == G \cup {n}
<1>4. tally \cup {c.to} \subseteq G
  BY <1>0, <1>1 DEF CampaignOf, Granted
<1>5. n \notin G
  BY <1>0, <1>1 DEF CallsAreOld
<1>6. polled = Node \ {n}
  BY <1>0, <1>3 DEF CampaignOf, CampaignComplete
<1>7. 1 + Cardinality(tally \cup {c.to}) >= Quorum(Node \ {n})
  BY <1>6 DEF WinsWith
<1>8. 2 * Cardinality(Q) > Cardinality(Node)
  <2>1. IsFiniteSet(Node) /\ Cardinality(Node) \in Nat
    BY NodeAssumption, FS_CardinalityType
  <2>2. Cardinality(Node \ {n}) = Cardinality(Node) - 1 /\ Cardinality(Node) >= 1
    <3>1. Cardinality(Node \ {n}) = Cardinality(Node) - 1 /\ IsFiniteSet(Node \ {n})
      BY <2>1, FS_RemoveElement
    <3>2. Cardinality(Node \ {n}) \in Nat
      BY <3>1, FS_CardinalityType
    <3> QED BY <2>1, <3>1, <3>2
  <2>3. IsFiniteSet(G) /\ Cardinality(G) \in Nat
    BY <2>1, FS_Subset, FS_CardinalityType
  <2> HIDE DEF G, tally
  <2>4. /\ Cardinality(tally \cup {c.to}) <= Cardinality(G)
        /\ Cardinality(tally \cup {c.to}) \in Nat
    BY <1>4, <2>3, FS_Subset, FS_CardinalityType
  <2>5. Cardinality(Q) = Cardinality(G) + 1
    BY <1>5, <2>3, FS_AddElement
  <2>6. 1 + Cardinality(G) >= Cardinality(Node) \div 2 + 1
    BY <1>7, <2>1, <2>2, <2>3, <2>4 DEF Quorum
  <2> HIDE DEF Q
  <2> QED BY <2>1, <2>3, <2>5, <2>6
<1>9. ASSUME NEW v \in G
      PROVE  /\ v \in Node /\ v # n
             /\ \/ currentTerm[v] > t
                \/ currentTerm[v] = t /\ state[v] = "Follower" /\ votedFor[v] = n
             /\ \A d \in voteCalls : Granted(d) /\ d.to = v /\ d.term = t => d.from = n
  <2>1. PICK d \in voteCalls : Granted(d) /\ d.from = n /\ d.to = v /\ d.term = t
    OBVIOUS
  <2>2. \/ currentTerm[d.to] > d.term
        \/ currentTerm[d.to] = d.term /\ state[d.to] = "Follower" /\ votedFor[d.to] = d.from
    BY <2>1 DEF GrantKept
  <2>3. \A e \in voteCalls : Granted(e) /\ e.to = v /\ e.term = t => e.from = n
    BY <2>1 DEF GrantOnce
  <2> QED BY <1>5, <2>1, <2>2, <2>3
<1>10. \A d \in voteCalls : ~(Granted(d) /\ d.to = n /\ d.term = t)
  BY <1>2, <1>3 DEF GrantKept
<1>11. G \subseteq Node
  OBVIOUS
<1> HIDE DEF G
<1>12. \A v \in Q : /\ v \in Node /\ currentTerm[v] >= t
                    /\ currentTerm[v] = t =>
                         /\ votedFor[v] = n
                         /\ state'[v] = IF v = n THEN "Leader" ELSE "Follower"
                    /\ \A d \in voteCalls : Granted(d) /\ d.to = v /\ d.term = t => d.from = n
  <2> SUFFICES ASSUME NEW v \in Q
               PROVE  /\ v \in Node /\ currentTerm[v] >= t
                      /\ currentTerm[v] = t =>
                           /\ votedFor[v] = n
                           /\ state'[v] = IF v = n THEN "Leader" ELSE "Follower"
                      /\ \A d \in voteCalls :
                           Granted(d) /\ d.to = v /\ d.term = t => d.from = n
    OBVIOUS
  <2>1. CASE v = n
    BY <1>2, <1>3, <1>10, <2>1
  <2>2. CASE v \in G
    BY <1>2, <1>3, <1>9, <2>2
  <2> QED BY <2>1, <2>2
<1>13. PICK Q1 \in SUBSET Node : Q1 = Q
  BY <1>11
<1>14. Closed(n, t, Q1)'
  <2>1. n \in Q1 /\ 2 * Cardinality(Q1) > Cardinality(Node)
    BY <1>8, <1>13
  <2>2. \A v \in Q1 : \A d \in voteCalls' :
          Granted(d) /\ d.to = v /\ d.term = t => d.from = n
    BY <1>12, <1>13 DEF CallsKept, SameCall
  <2>3. \A v \in Q1 : /\ currentTerm[v] >= t
                      /\ currentTerm[v] = t =>
                           /\ votedFor[v] = n
                           /\ state'[v] = IF v = n THEN "Leader" ELSE "Follower"
    BY <1>12, <1>13
  <2> QED BY <2>1, <2>2, <2>3 DEF Closed, Granted
<1>15. ASSUME NEW e \in elected PROVE e[2] = t => e[1] = n
  <2> SUFFICES ASSUME e[2] = t PROVE e[1] = n
    OBVIOUS
  <2>1. PICK P \in SUBSET Node : Closed(e[1], t, P)
    BY <1>15 DEF ElectedClosed
  <2>2. PICK v \in Node : v \in P /\ v \in Q1
    <3>1. 2 * Cardinality(P) > Cardinality(Node) /\ 2 * Cardinality(Q1) > Cardinality(Node)
      BY <1>8, <1>13, <2>1 DEF Closed
    <3> QED BY <3>1, MajoritiesMeet
  <2>3. CASE v = n
    BY <1>3, <2>1, <2>2, <2>3 DEF Closed
  <2>4. CASE v # n
    <3>1. PICK d \in voteCalls : Granted(d) /\ d.from = n /\ d.to = v /\ d.term = t
      BY <1>13, <2>2, <2>4 DEF G
    <3> QED BY <2>1, <2>2, <3>1 DEF Closed
  <2> QED BY <2>3, <2>4
<1>16. OneLeaderPerTerm'
  <2>1. \A a \in elected' : a \in elected \/ a = <<n, t>>
    BY <1>0
  <2> QED BY <1>15, <2>1 DEF OneLeaderPerTerm
<1>17. SelfVote'
  BY <1>3 DEF SelfVote
<1>18. CallsAreOld'
  BY <1>1, <1>2 DEF CallsAreOld, CallsKept, SameCall
<1>19. GrantKept'
  <2> SUFFICES ASSUME NEW d \in voteCalls', Granted(d)
               PROVE  \/ currentTerm[d.to] > d.term
                      \/ /\ currentTerm[d.to] = d.term /\ state'[d.to] = "Follower"
                         /\ votedFor[d.to] = d.from
    BY DEF GrantKept, Granted
  <2>1. PICK b \in voteCalls : SameCall(b, d) /\ Granted(b)
    BY DEF CallsKept
  <2>2. \/ currentTerm[b.to] > b.term
        \/ currentTerm[b.to] = b.term /\ state[b.to] = "Follower" /\ votedFor[b.to] = b.from
    BY <2>1 DEF GrantKept
  <2> QED BY <1>1, <1>3, <2>1, <2>2 DEF SameCall
<1>20. GrantOnce'
  <2> SUFFICES ASSUME NEW a \in voteCalls', NEW b \in voteCalls', Granted(a), Granted(b),
                      a.to = b.to, a.term = b.term
               PROVE  a.from = b.from
    BY DEF GrantOnce, Granted
  <2>1. PICK a0 \in voteCalls : SameCall(a0, a) /\ Granted(a0)
    BY DEF CallsKept
  <2>2. PICK b0 \in voteCalls : SameCall(b0, b) /\ Granted(b0)
    BY DEF CallsKept
  <2> QED BY <2>1, <2>2 DEF SameCall, GrantOnce
<1>21. CampaignComplete'
  <2> SUFFICES ASSUME NEW m \in Node, state'[m] = "Candidate"
               PROVE  {a.to : a \in {b \in voteCalls' :
                                       b.from = m /\ b.term = currentTerm[m]}} = Node \ {m}
    BY DEF CampaignComplete
  <2>1. state[m] = "Candidate"
    BY <1>3
  <2>2. {a.to : a \in {b \in voteCalls : b.from = m /\ b.term = currentTerm[m]}} = Node \ {m}
    BY <2>1 DEF CampaignComplete
  <2>3. ASSUME NEW p
        PROVE  (\E a \in voteCalls : a.from = m /\ a.term = currentTerm[m] /\ a.to = p)
                 <=> (\E b \in voteCalls' : b.from = m /\ b.term = currentTerm[m] /\ b.to = p)
    BY DEF CallsKept, SameCall
  <2> QED BY <2>2, <2>3
<1>22. ElectedClosed'
  <2> SUFFICES ASSUME NEW e \in elected' PROVE \E P \in SUBSET Node : Closed(e[1], e[2], P)'
    BY DEF ElectedClosed
  <2>1. CASE e = <<n, t>>
    BY <1>14, <2>1
  <2>2. CASE e \in elected
    <3>1. PICK P \in SUBSET Node : Closed(e[1], e[2], P)
      BY <2>2 DEF ElectedClosed
    <3>2. \A v \in P : /\ v \in Node /\ currentTerm[v] >= e[2]
                       /\ currentTerm[v] = e[2] =>
                            /\ votedFor[v] = e[1]
                            /\ state[v] = IF v = e[1] THEN "Leader" ELSE "Follower"
      BY <3>1 DEF Closed
    <3>3. \A v \in P : currentTerm[v] = e[2] =>
                         state'[v] = IF v = e[1] THEN "Leader" ELSE "Follower"
      BY <1>3, <3>2
    <3>4. \A v \in P : \A d \in voteCalls' :
            Granted(d) /\ d.to = v /\ d.term = e[2] => d.from = e[1]
      BY <3>1 DEF Closed, CallsKept, SameCall
    <3>5. Closed(e[1], e[2], P)'
      BY <3>1, <3>2, <3>3, <3>4 DEF Closed, Granted
    <3> QED BY <3>5
  <2> QED BY <1>0, <2>1, <2>2
<1>23. PeersFixed'
  BY DEF PeersFixed
<1> QED BY <1>16, <1>17, <1>18, <1>19, <1>20, <1>21, <1>22, <1>23

\* The steps of the election keep the invariant.
LEMMA ElectionSteps ==
  ASSUME TypeOK, TypeOK', ElectionInv, Election
  PROVE  ElectionInv'
<1>1. ASSUME UNCHANGED <<nodeVars, peers, voteCalls, elected>> PROVE ElectionInv'
  <2>1. NodesKept /\ CallsKept
    BY <1>1 DEF NodesKept, CallsKept, SameCall, nodeVars
  <2> QED BY <1>1, <2>1, KeptInv
<1>2. CASE \E n \in Node : StartElection(n)
  BY <1>1, <1>2 DEF StartElection
<1>3. CASE \E v, n \in Node : HandlePreVote(v, n) \/ FailPreVote(n, v)
  BY <1>1, <1>3 DEF HandlePreVote, FailPreVote
<1>4. ASSUME NEW n \in Node, NEW r \in preVote[n].replies, ReceivePreVote(n, r)
      PROVE  ElectionInv'
  <2>1. r.term \in Nat
    <3>1. preVote[n].replies \subseteq [from : Node, term : Nat, granted : BOOLEAN]
      BY DEF TypeOK, Round
    <3> QED BY <3>1
  <2>2. \/ StepDownIfNewer(n, r.term) /\ UNCHANGED <<peers, voteCalls, elected>>
        \/ UNCHANGED <<nodeVars, peers, voteCalls, elected>>
        \/ Campaign(n, preVote[n].term, preVote[n].heard) /\ UNCHANGED peers
    BY <1>4 DEF ReceivePreVote
  <2>3. CASE StepDownIfNewer(n, r.term) /\ UNCHANGED <<peers, voteCalls, elected>>
    <3>1. NodesKept /\ CallsKept
      BY <2>1, <2>3, StepDownKept DEF CallsKept, SameCall
    <3> QED BY <2>3, <3>1, KeptInv
  <2>4. CASE Campaign(n, preVote[n].term, preVote[n].heard) /\ UNCHANGED peers
    BY <2>4, CampaignInv
  <2> QED BY <1>1, <2>2, <2>3, <2>4
<1>5. ASSUME NEW c \in voteCalls, ReceiveVote(c) PROVE ElectionInv'
  <2>1. c.from \in Node /\ c.replyTerm \in Nat
    BY DEF TypeOK, VoteCalls
  <2>2. CallsKept /\ UNCHANGED peers
    <3>1. PICK s \in {"counted", "over"} :
            /\ s = "counted" => Granted(c)
            /\ voteCalls' = (voteCalls \ {c}) \cup {[c EXCEPT !.stage = s, !.replyTerm = 0]}
      BY <1>5 DEF ReceiveVote, Granted
    <3> QED BY <1>5, <3>1, EndedKept DEF ReceiveVote
  <2>3. CASE /\ c.stage = "granted" /\ WinsWith(c) /\ StillCandidate(c.from, c.term)
             /\ ~(c.replyTerm > currentTerm[c.from])
    <3>1. /\ state' = [state EXCEPT ![c.from] = "Leader"]
          /\ elected' = elected \cup {<<c.from, c.term>>}
          /\ UNCHANGED <<currentTerm, votedFor>>
      BY <1>5, <2>3 DEF ReceiveVote, LeaderState, StillCandidate
    <3> QED BY <2>2, <2>3, <3>1, WinInv
  <2>4. CASE ~(/\ c.stage = "granted" /\ WinsWith(c) /\ StillCandidate(c.from, c.term)
               /\ ~(c.replyTerm > currentTerm[c.from]))
    <3>1. StepDownIfNewer(c.from, c.replyTerm) /\ UNCHANGED elected
      BY <1>5, <2>4 DEF ReceiveVote
    <3>2. NodesKept
      BY <2>1, <3>1, StepDownKept
    <3> QED BY <2>2, <3>1, <3>2, KeptInv
  <2> QED BY <2>3, <2>4
<1>6. ASSUME NEW c \in voteCalls, FailVote(c) PROVE ElectionInv'
  <2>1. CallsKept
    BY <1>6, EndedKept DEF FailVote
  <2>2. NodesKept
    BY <1>6 DEF FailVote, NodesKept, nodeVars
  <2> QED BY <1>6, <2>1, <2>2, KeptInv DEF FailVote
<1> QED BY <1>2, <1>3, <1>4, <1>5, <1>6, HandleVoteInv DEF Election

\* The steps of the replication keep it: a candidate that steps down for the
\* winner of its own term had granted nobody, so it may vote again.
LEMMA ReplicationSteps ==
  ASSUME TypeOK, TypeOK', ElectionInv, Replication
  PROVE  ElectionInv'
<1>1. CallsKept /\ UNCHANGED <<peers, elected>>
  <2>1. UNCHANGED <<voteCalls, peers, elected>>
    BY DEF Replication, Propose, Apply, ContactAges, Broadcast, BuildAppend,
           HandleAppendEntries, ReceiveAppend, FailAppend
  <2> QED BY <2>1 DEF CallsKept, SameCall
<1>2. ASSUME UNCHANGED nodeVars PROVE NodesKept
  BY <1>2 DEF NodesKept, nodeVars
<1>3. ASSUME NEW c \in appendCalls, HandleAppendEntries(c) PROVE NodesKept
  <2>1. c.to \in Node /\ c.term \in Nat /\ currentTerm[c.to] \in Nat
    BY DEF TypeOK, AppendCalls
  <2>2. \/ UNCHANGED nodeVars
        \/ /\ c.term > currentTerm[c.to] \/ state[c.to] = "Candidate"
           /\ StepDown(c.to, c.term) /\ ~Outdated(c)
    BY <1>3 DEF HandleAppendEntries
  <2>3. CASE /\ c.term > currentTerm[c.to] \/ state[c.to] = "Candidate"
             /\ StepDown(c.to, c.term) /\ ~Outdated(c)
    <3>1. state'[c.to] = "Follower" /\ currentTerm'[c.to] = c.term
      BY <2>1, <2>3 DEF StepDown, TypeOK
    <3>2. \A m \in Node \ {c.to} : /\ currentTerm'[m] = currentTerm[m]
                                   /\ votedFor'[m] = votedFor[m]
                                   /\ state'[m] = state[m]
      BY <2>1, <2>3 DEF StepDown, TypeOK
    <3>3. c.term > currentTerm[c.to] \/ (c.term = currentTerm[c.to] /\ state[c.to] = "Candidate")
      BY <2>1, <2>3 DEF Outdated
    <3> QED BY <3>1, <3>2, <3>3 DEF NodesKept
  <2> QED BY <1>2, <2>2, <2>3
<1>4. ASSUME NEW c \in appendCalls, ReceiveAppend(c) PROVE NodesKept
  <2>1. c.from \in Node /\ c.replyTerm \in Nat
    BY DEF TypeOK, AppendCalls
  <2>2. StepDownIfNewer(c.from, c.replyTerm)
    BY <1>4 DEF ReceiveAppend
  <2> QED BY <2>1, <2>2, StepDownKept
<1>5. NodesKept
  <2>1. \/ UNCHANGED nodeVars
        \/ \E c \in appendCalls : HandleAppendEntries(c) \/ ReceiveAppend(c)
    BY DEF Replication, Propose, Apply, ContactAges, Broadcast, BuildAppend, FailAppend
  <2> QED BY <1>2, <1>3, <1>4, <2>1
<1> QED BY <1>1, <1>5, KeptInv

\* The inductive invariant holds in every reachable state.
THEOREM ElectionInvariant == Spec => []ElectionInv
<1>1. Init => TypeOK /\ ElectionInv
  BY TypeInit, ElectionInvInit
<1>2. TypeOK /\ ElectionInv /\ [Next]_vars => (TypeOK /\ ElectionInv)'
  <2> SUFFICES ASSUME TypeOK, ElectionInv, [Next]_vars PROVE (TypeOK /\ ElectionInv)'
    OBVIOUS
  <2>1. CASE UNCHANGED vars
    <3>1. TypeOK'
      BY <2>1 DEF vars, nodeVars, logVars, leadVars, viewVars, TypeOK
    <3>2. NodesKept /\ CallsKept /\ UNCHANGED <<peers, elected>>
      BY <2>1 DEF vars, nodeVars, NodesKept, CallsKept, SameCall
    <3> QED BY <3>1, <3>2, KeptInv
  <2>2. CASE Election
    BY <2>2, TypeElection, ElectionSteps
  <2>3. CASE Replication
    BY <2>3, TypeReplication, ReplicationSteps
  <2> QED BY <2>1, <2>2, <2>3 DEF Next
<1> QED BY <1>1, <1>2, PTL DEF Spec

\* No term ever has two winners, in a cluster of any size whose members neither
\* restart nor change topology.
THEOREM OneLeader == Spec => []OneLeaderPerTerm
<1>1. ElectionInv => OneLeaderPerTerm
  BY DEF ElectionInv
<1> QED BY <1>1, ElectionInvariant, PTL

---------------------------------------------------------------------------
(* Logs *)

\* The links of a log and of a request, one by one.
LEMMA LinkTypes ==
  ASSUME TypeOK
  PROVE  /\ \A n \in Node : \A i \in 1..Len(logEntries[n]) :
              /\ logEntries[n][i] \in Entry
              /\ Link(i, logEntries[n][i], TermAt(logEntries[n], i - 1)) \in Links
         /\ \A l \in Links : l.term \in Nat /\ l.index \in Nat
<1>1. \A n \in Node : logEntries[n] \in Seq(Entry)
  BY DEF TypeOK
<1>2. \A n \in Node : \A i \in 1..Len(logEntries[n]) : logEntries[n][i] \in Entry
  BY <1>1
<1>3. ASSUME NEW n \in Node, NEW i \in 1..Len(logEntries[n])
      PROVE  Link(i, logEntries[n][i], TermAt(logEntries[n], i - 1)) \in Links
  BY DEF Links, LogLinks
<1>4. ASSUME NEW n \in Node, NEW l \in LogLinks(logEntries[n])
      PROVE  l.term \in Nat /\ l.index \in Nat
  <2>1. PICK i \in 1..Len(logEntries[n]) :
          l = Link(i, logEntries[n][i], TermAt(logEntries[n], i - 1))
    BY <1>4 DEF LogLinks
  <2>2. l.term = logEntries[n][i].term /\ l.index = i
    BY <2>1 DEF Link
  <2> QED BY <1>1, <1>2, <2>2 DEF Entry
<1>5. ASSUME NEW c \in appendCalls, NEW l \in SentLinks(c)
      PROVE  l.term \in Nat /\ l.index \in Nat
  <2>1. c.entries \in Seq(Entry) /\ c.prevIndex \in Nat
    BY DEF TypeOK, AppendCalls
  <2>2. PICK i \in 1..Len(c.entries) : l.term = c.entries[i].term /\ l.index = c.prevIndex + i
    BY <1>5 DEF SentLinks, Link
  <2>3. c.entries[i] \in Entry /\ i \in Nat
    BY <2>1
  <2> QED BY <2>1, <2>2, <2>3 DEF Entry
<1> QED BY <1>2, <1>3, <1>4, <1>5 DEF Links

\* The follower's new log has no link that was not in its log or in the request.
LEMMA AppendFromLinks ==
  ASSUME NEW log \in Seq(Entry), NEW c, c.prevIndex \in Nat, c.entries \in Seq(Entry),
         PrevMatches(log, c.prevIndex, c.prevTerm)
  PROVE  LogLinks(AppendFrom(log, c.prevIndex, c.entries)) \subseteq LogLinks(log) \cup SentLinks(c)
<1> DEFINE prev == c.prevIndex
           entries == c.entries
           differs == {i \in 1..Len(entries) :
                         \/ prev + i > Len(log)
                         \/ log[prev + i].term # entries[i].term}
           first == CHOOSE i \in differs : \A j \in differs : i <= j
           new == AppendFrom(log, prev, entries)
<1>0. Len(log) \in Nat /\ Len(entries) \in Nat /\ prev <= Len(log) /\ prev \in Nat
  BY DEF PrevMatches
<1>1. CASE differs = {}
  BY <1>1 DEF AppendFrom
<1>2. CASE differs # {}
  <2>1. differs \in SUBSET Nat
    OBVIOUS
  <2>2. \E i \in differs : \A j \in differs : i <= j
    BY <1>2, <2>1, Least
  <2>3. first \in differs /\ \A j \in differs : first <= j
    BY <2>2
  <2>4. first \in 1..Len(entries)
    BY <2>3
  <2> HIDE DEF first
  <2>5. \A i \in 1..(first - 1) : prev + i <= Len(log) /\ log[prev + i].term = entries[i].term
    <3> SUFFICES ASSUME NEW i \in 1..(first - 1)
                 PROVE  prev + i <= Len(log) /\ log[prev + i].term = entries[i].term
      OBVIOUS
    <3>1. i \in 1..Len(entries) /\ i < first
      BY <2>4
    <3>2. i \notin differs
      BY <2>3, <3>1
    <3> QED BY <1>0, <3>1, <3>2
  <2>6. prev + first - 1 <= Len(log)
    <3>1. CASE first = 1
      BY <1>0, <3>1
    <3>2. CASE first # 1
      <4>1. first - 1 \in 1..(first - 1)
        BY <2>4, <3>2
      <4> QED BY <1>0, <2>4, <2>5, <4>1
    <3> QED BY <3>1, <3>2
  <2> DEFINE keep == prev + first - 1
  <2>7. new = SubSeq(log, 1, keep) \o SubSeq(entries, first, Len(entries))
    BY <1>2 DEF AppendFrom, first
  <2> HIDE DEF differs, new
  <2>8. keep \in Nat /\ keep <= Len(log)
    BY <1>0, <2>4, <2>6
  <2>9. /\ Len(new) = keep + (Len(entries) - first + 1)
        /\ \A i \in 1..keep : new[i] = log[i]
        /\ \A i \in (keep + 1)..Len(new) : new[i] = entries[i - prev]
    <3>1. /\ SubSeq(log, 1, keep) \in Seq(Entry) /\ Len(SubSeq(log, 1, keep)) = keep
          /\ \A i \in 1..keep : SubSeq(log, 1, keep)[i] = log[i]
      <4> HIDE DEF keep
      <4> QED BY <2>8
    <3>2. /\ SubSeq(entries, first, Len(entries)) \in Seq(Entry)
          /\ Len(SubSeq(entries, first, Len(entries))) = Len(entries) - first + 1
          /\ \A i \in 1..(Len(entries) - first + 1) :
               SubSeq(entries, first, Len(entries))[i] = entries[first + i - 1]
      BY <1>0, <2>4
    <3> DEFINE a == SubSeq(log, 1, keep)
               b == SubSeq(entries, first, Len(entries))
    <3>3. /\ Len(a \o b) = Len(a) + Len(b)
          /\ \A i \in 1..Len(a) : (a \o b)[i] = a[i]
          /\ \A i \in (Len(a) + 1)..(Len(a) + Len(b)) : (a \o b)[i] = b[i - Len(a)]
      <4> HIDE DEF a, b
      <4>1. a \in Seq(Entry) /\ b \in Seq(Entry)
        BY <3>1, <3>2 DEF a, b
      <4> QED BY <4>1
    <3>4. ASSUME NEW i \in (keep + 1)..Len(new) PROVE new[i] = entries[i - prev]
      <4>1. Len(new) = keep + (Len(entries) - first + 1)
        BY <2>7, <3>1, <3>2, <3>3
      <4>2. /\ i - keep \in 1..(Len(entries) - first + 1)
            /\ i \in (keep + 1)..(keep + (Len(entries) - first + 1))
        <5> HIDE DEF keep
        <5> QED BY <1>0, <2>4, <2>8, <3>4, <4>1
      <4>3. new[i] = b[i - keep]
        <5> HIDE DEF a, b, keep
        <5>1. Len(a) = keep /\ Len(b) = Len(entries) - first + 1 /\ new = a \o b
          BY <2>7, <3>1, <3>2 DEF a, b
        <5> QED BY <3>3, <4>2, <5>1
      <4>4. b[i - keep] = entries[first + (i - keep) - 1]
        BY <3>2, <4>2
      <4>5. first + (i - keep) - 1 = i - prev
        BY <1>0, <2>4, <3>4
      <4> QED BY <4>3, <4>4, <4>5
    <3> QED BY <2>7, <3>1, <3>2, <3>3, <3>4
  <2> HIDE DEF keep
  <2>10. ASSUME NEW i \in 1..Len(new)
         PROVE  Link(i, new[i], TermAt(new, i - 1)) \in LogLinks(log) \cup SentLinks(c)
    <3>0. Len(new) \in Nat /\ i \in Nat /\ i >= 1
      BY <1>0, <2>4, <2>8, <2>9
    <3>1. CASE i <= keep
      <4>1. new[i] = log[i] /\ TermAt(new, i - 1) = TermAt(log, i - 1)
        <5>1. i \in 1..keep /\ (i = 1 \/ i - 1 \in 1..keep)
          BY <2>8, <3>0, <3>1
        <5> QED BY <2>9, <5>1 DEF TermAt
      <4>2. i \in 1..Len(log)
        BY <1>0, <2>8, <3>0, <3>1
      <4> QED BY <4>1, <4>2 DEF LogLinks
    <3>2. CASE i > keep
      <4> DEFINE k == i - prev
      <4>1. k \in 1..Len(entries) /\ k >= first /\ new[i] = entries[k]
        <5>1. i \in (keep + 1)..Len(new)
          BY <2>8, <3>0, <3>2
        <5> QED BY <1>0, <2>4, <2>9, <3>0, <5>1 DEF keep
      <4>2. TermAt(new, i - 1) = IF k = 1 THEN c.prevTerm ELSE entries[k - 1].term
        <5>1. CASE k = 1
          <6>1. first = 1 /\ i - 1 = prev /\ keep = prev
            BY <1>0, <2>4, <3>0, <4>1, <5>1 DEF keep
          <6>2. TermAt(new, prev) = TermAt(log, prev)
            <7>1. prev = 0 \/ prev \in 1..keep
              BY <1>0, <6>1
            <7> QED BY <2>9, <7>1 DEF TermAt
          <6> QED BY <5>1, <6>1, <6>2 DEF PrevMatches
        <5>2. CASE k # 1 /\ k = first
          <6>1. first - 1 \in 1..(first - 1) /\ i - 1 = keep /\ i - 1 = prev + (first - 1)
                /\ i - 1 \in 1..keep /\ i - 1 # 0
            <7>1. first \in Nat /\ first > 1 /\ i = prev + first
              BY <1>0, <2>4, <3>0, <5>2
            <7> QED BY <1>0, <3>0, <7>1 DEF keep
          <6>2. log[prev + (first - 1)].term = entries[first - 1].term
            BY <2>5, <6>1
          <6>3. TermAt(new, i - 1) = log[i - 1].term
            BY <2>9, <6>1 DEF TermAt
          <6> QED BY <5>2, <6>1, <6>2, <6>3
        <5>3. CASE k > first
          <6>1. i - prev > first /\ first \in Nat /\ first >= 1 /\ i <= Len(new)
            BY <1>0, <2>4, <3>0, <5>3
          <6>2. i - 1 >= keep + 1 /\ k # 1 /\ (i - 1) - prev = k - 1
            BY <1>0, <3>0, <6>1 DEF keep
          <6>3. i - 1 \in (keep + 1)..Len(new) /\ (i - 1) - prev = k - 1 /\ i - 1 # 0 /\ k # 1
            <7> HIDE DEF k
            <7> QED BY <2>8, <3>0, <6>1, <6>2
          <6>4. new[i - 1] = entries[k - 1]
            BY <2>9, <6>3
          <6> QED BY <6>3, <6>4 DEF TermAt
        <5> QED BY <2>4, <4>1, <5>1, <5>2, <5>3
      <4>3. prev + k = i /\ k \in 1..Len(c.entries)
        BY <1>0, <3>0, <4>1
      <4> HIDE DEF k
      <4>4. Link(prev + k, entries[k], IF k = 1 THEN c.prevTerm ELSE entries[k - 1].term)
              \in SentLinks(c)
        BY <4>3 DEF SentLinks
      <4> QED BY <4>1, <4>2, <4>3, <4>4
    <3> QED BY <2>8, <3>0, <3>1, <3>2
  <2>11. LogLinks(new) \subseteq LogLinks(log) \cup SentLinks(c)
    BY <2>10 DEF LogLinks
  <2> QED BY <2>11 DEF new
<1> QED BY <1>1, <1>2

\* A leader stays one in its term, or has just won its term for the first time.
LeadersKept ==
  /\ elected \subseteq elected'
  /\ \A n \in Node : state'[n] = "Leader" =>
       \/ state[n] = "Leader" /\ currentTerm'[n] = currentTerm[n]
       \/ <<n, currentTerm'[n]>> \in elected' \ elected

\* The winner of a term leads it, or has left it.
LEMMA NotYetElected ==
  ASSUME TypeOK, ElectionInv, NEW n \in Node, NEW t \in Nat,
         \/ currentTerm[n] < t
         \/ currentTerm[n] = t /\ state[n] # "Leader"
  PROVE  <<n, t>> \notin elected
<1> SUFFICES ASSUME <<n, t>> \in elected PROVE FALSE
  OBVIOUS
<1>1. PICK Q \in SUBSET Node : Closed(n, t, Q)
  BY DEF ElectionInv, ElectedClosed
<1>2. currentTerm[n] >= t /\ (currentTerm[n] = t => state[n] = "Leader")
  BY <1>1 DEF Closed
<1>3. currentTerm[n] \in Nat
  BY DEF TypeOK
<1> QED BY <1>2, <1>3

\* The steps of the election make leaders of new winners only.
LEMMA ElectionLeaders ==
  ASSUME TypeOK, ElectionInv, Election
  PROVE  LeadersKept
<1>1. ASSUME NodesKept, UNCHANGED elected PROVE LeadersKept
  BY <1>1 DEF NodesKept, LeadersKept
<1>2. ASSUME UNCHANGED <<nodeVars, elected>> PROVE LeadersKept
  BY <1>2 DEF LeadersKept, nodeVars
<1>3. ASSUME NEW n \in Node, NEW r \in preVote[n].replies, ReceivePreVote(n, r)
      PROVE  LeadersKept
  <2>1. r.term \in Nat
    <3>1. preVote[n].replies \subseteq [from : Node, term : Nat, granted : BOOLEAN]
      BY DEF TypeOK, Round
    <3> QED BY <3>1
  <2>2. \/ StepDownIfNewer(n, r.term) /\ UNCHANGED elected
        \/ UNCHANGED <<nodeVars, elected>>
        \/ Campaign(n, preVote[n].term, preVote[n].heard)
    BY <1>3 DEF ReceivePreVote
  <2>3. CASE StepDownIfNewer(n, r.term) /\ UNCHANGED elected
    BY <1>1, <2>1, <2>3, StepDownKept
  <2>4. CASE Campaign(n, preVote[n].term, preVote[n].heard)
    <3> DEFINE term == currentTerm[n] + 1
    <3>1. CASE UNCHANGED <<nodeVars, elected>>
      BY <1>2, <3>1
    <3>2. CASE /\ currentTerm' = [currentTerm EXCEPT ![n] = term]
               /\ state' = [state EXCEPT ![n] = "Leader"]
               /\ elected' = elected \cup {<<n, term>>}
      <4>1. currentTerm[n] \in Nat /\ currentTerm[n] < term /\ term \in Nat
        BY DEF TypeOK
      <4>2. <<n, term>> \notin elected
        BY <4>1, NotYetElected
      <4>3. currentTerm'[n] = term
        BY <3>2 DEF TypeOK
      <4>4. \A m \in Node \ {n} : currentTerm'[m] = currentTerm[m] /\ state'[m] = state[m]
        BY <3>2 DEF TypeOK
      <4> QED BY <3>2, <4>2, <4>3, <4>4 DEF LeadersKept
    <3>3. CASE /\ currentTerm' = [currentTerm EXCEPT ![n] = term]
               /\ state' = [state EXCEPT ![n] = "Candidate"]
               /\ elected' = elected
      <4>1. state'[n] = "Candidate"
        BY <3>3 DEF TypeOK
      <4>2. \A m \in Node \ {n} : currentTerm'[m] = currentTerm[m] /\ state'[m] = state[m]
        BY <3>3 DEF TypeOK
      <4> QED BY <3>3, <4>1, <4>2 DEF LeadersKept
    <3> QED BY <2>4, <3>1, <3>2, <3>3 DEF Campaign, LeaderState
  <2> QED BY <1>2, <2>2, <2>3, <2>4
<1>4. ASSUME NEW c \in voteCalls, HandleRequestVote(c) PROVE LeadersKept
  <2>1. c.to \in Node /\ UNCHANGED elected
    BY <1>4, CallFields DEF HandleRequestVote
  <2>2. CASE UNCHANGED nodeVars
    BY <1>2, <2>1, <2>2
  <2>3. CASE /\ ~(c.term < currentTerm[c.to])
             /\ state' = [state EXCEPT ![c.to] =
                            IF c.term > currentTerm[c.to] THEN "Follower" ELSE @]
             /\ currentTerm' = [currentTerm EXCEPT ![c.to] = c.term]
    <3>1. c.term \in Nat /\ currentTerm[c.to] \in Nat
      BY <2>1, CallFields DEF TypeOK
    <3>2. \/ state'[c.to] = "Follower"
          \/ state'[c.to] = state[c.to] /\ currentTerm'[c.to] = currentTerm[c.to]
      BY <2>1, <2>3, <3>1 DEF TypeOK
    <3>3. \A m \in Node \ {c.to} : currentTerm'[m] = currentTerm[m] /\ state'[m] = state[m]
      BY <2>3 DEF TypeOK
    <3> QED BY <2>1, <3>2, <3>3 DEF LeadersKept
  <2> QED BY <1>4, <2>2, <2>3 DEF HandleRequestVote
<1>5. ASSUME NEW c \in voteCalls, ReceiveVote(c) PROVE LeadersKept
  <2>1. c.from \in Node /\ c.replyTerm \in Nat /\ c.term \in Nat
    BY DEF TypeOK, VoteCalls
  <2>2. CASE StepDownIfNewer(c.from, c.replyTerm) /\ UNCHANGED elected
    BY <1>1, <2>1, <2>2, StepDownKept
  <2>3. CASE /\ StillCandidate(c.from, c.term)
             /\ state' = [state EXCEPT ![c.from] = "Leader"]
             /\ elected' = elected \cup {<<c.from, currentTerm[c.from]>>}
             /\ UNCHANGED currentTerm
    <3>1. <<c.from, currentTerm[c.from]>> \notin elected
      BY <2>1, <2>3, NotYetElected DEF StillCandidate
    <3>2. \A m \in Node \ {c.from} : state'[m] = state[m]
      BY <2>3 DEF TypeOK
    <3> QED BY <2>3, <3>1, <3>2 DEF LeadersKept
  <2> QED BY <1>5, <2>2, <2>3 DEF ReceiveVote, LeaderState
<1>6. CASE \E c \in voteCalls : FailVote(c)
  BY <1>2, <1>6 DEF FailVote
<1>7. CASE \E n \in Node : StartElection(n)
  BY <1>2, <1>7 DEF StartElection
<1>8. CASE \E v, n \in Node : HandlePreVote(v, n) \/ FailPreVote(n, v)
  BY <1>2, <1>8 DEF HandlePreVote, FailPreVote
<1> QED BY <1>3, <1>4, <1>5, <1>6, <1>7, <1>8 DEF Election

\* Nothing new is written or sent, and no leader's log becomes shorter.
LEMMA LinksKept ==
  ASSUME TypeOK, TypeOK', ElectionInv', LogInv, LeadersKept, LeadersElected',
         Links' \subseteq Links,
         \A n \in Node :
           state[n] = "Leader" /\ state'[n] = "Leader" /\ currentTerm'[n] = currentTerm[n]
           => Len(logEntries'[n]) >= Len(logEntries[n])
  PROVE  LogInv'
<1>1. LinksAgree'
  BY DEF LogInv, LinksAgree
<1>2. \A l \in Links' : <<l.by, l.term>> \in elected'
  BY DEF LogInv, EntriesProposed, LeadersKept
<1>3. ASSUME NEW n \in Node, state'[n] = "Leader", NEW l \in Links', l.term = currentTerm'[n]
      PROVE  l.index <= Len(logEntries'[n])
  <2>0. l \in Links /\ l.index \in Nat
    BY LinkTypes
  <2>1. CASE state[n] = "Leader" /\ currentTerm'[n] = currentTerm[n]
    <3>1. l.index <= Len(logEntries[n])
      BY <1>3, <2>0, <2>1 DEF LogInv, EntriesProposed
    <3>2. Len(logEntries'[n]) >= Len(logEntries[n])
      BY <1>3, <2>1
    <3>3. Len(logEntries'[n]) \in Nat /\ Len(logEntries[n]) \in Nat
      BY DEF TypeOK
    <3> QED BY <2>0, <3>1, <3>2, <3>3
  <2>2. CASE <<n, currentTerm'[n]>> \in elected' \ elected
    <3>1. <<l.by, l.term>> \in elected
      BY <2>0 DEF LogInv, EntriesProposed
    <3>2. <<l.by, l.term>> \in elected'
      BY <1>2
    <3>3. l.by = n
      BY <1>3, <2>2, <3>2 DEF ElectionInv, OneLeaderPerTerm
    <3> QED BY <1>3, <2>2, <3>1, <3>3
  <2> QED BY <1>3, <2>1, <2>2 DEF LeadersKept
<1>4. EntriesProposed'
  BY <1>2, <1>3 DEF EntriesProposed
<1> QED BY <1>1, <1>4 DEF LogInv

\* The steps of the election keep the invariant of the logs.
LEMMA LogElectionSteps ==
  ASSUME TypeOK, TypeOK', ElectionInv, ElectionInv', LogInv, Election
  PROVE  LogInv'
<1>1. UNCHANGED <<logEntries, appendCalls>>
  BY DEF Election, StartElection, HandlePreVote, FailPreVote, ReceivePreVote, HandleRequestVote,
         ReceiveVote, FailVote, logVars
<1>2. LeadersKept
  BY ElectionLeaders
<1>3. Links' = Links
  BY <1>1 DEF Links, SentLinks
<1>4. LeadersElected'
  BY <1>1, <1>2 DEF LogInv, LeadersElected, LeadersKept
<1>5. \A n \in Node : Len(logEntries'[n]) >= Len(logEntries[n])
  BY <1>1 DEF TypeOK
<1> QED BY <1>2, <1>3, <1>4, <1>5, LinksKept

\* What ReplaceCall may add.
LEMMA ReplaceCallAdds ==
  ASSUME NEW c, NEW d, ReplaceCall(c, d)
  PROVE  appendCalls' \subseteq appendCalls \cup {d}
BY DEF ReplaceCall, CallsWith

\* Where requests are marshalled at once, handling one changes no other.
LEMMA ReplacedAlone ==
  ASSUME ~LateMarshal, NEW n, NEW c, NEW d,
         ReplaceCall(c, d) \/ LogWritten(n, CallsWith(c, d))
  PROVE  ReplaceCall(c, d)
BY WrittenAlone DEF ReplaceCall

\* A goroutine that has ended holds no entries, and keeps its ends.
LEMMA EndedFields ==
  ASSUME NEW c \in AppendCalls, NEW s \in {"acked", "over"}
  PROVE  /\ EndedAs(c, s).from = c.from /\ EndedAs(c, s).to = c.to
         /\ EndedAs(c, s).stage = s /\ EndedAs(c, s).entries = <<>>
BY DEF EndedAs, WithoutRequest, AppendCalls

\* A request without entries.
LEMMA NoEntries ==
  ASSUME NEW c, c.entries = <<>>
  PROVE  SentLinks(c) = {}
BY DEF SentLinks

\* A leader is not given entries by another leader of its term: there is none.
LEMMA LeaderNotTold ==
  ASSUME TypeOK, ElectionInv, LeadersElected, NEW c \in appendCalls, c.stage = "sent",
         state[c.to] = "Leader", c.term = currentTerm[c.to]
  PROVE  FALSE
<1>1. c.to \in Node
  BY DEF TypeOK, AppendCalls
<1>2. <<c.to, currentTerm[c.to]>> \in elected /\ <<c.from, c.term>> \in elected /\ c.from # c.to
  BY <1>1 DEF LeadersElected
<1> QED BY <1>2 DEF ElectionInv, OneLeaderPerTerm

\* HandleAppendEntries: what it does to the follower's log and term.
LEMMA HandleAppendEffect ==
  ASSUME TypeOK, ElectionInv, LeadersElected, NEW c \in appendCalls, HandleAppendEntries(c)
  PROVE  /\ c.to \in Node /\ NodesKept /\ UNCHANGED elected
         /\ \E d \in AppendCalls :
                   /\ ReplaceCall(c, d) \/ LogWritten(c.to, CallsWith(c, d))
                   /\ d.from = c.from /\ d.to = c.to
                   /\ d.stage \in {"replied", "acked", "over"} /\ d.entries = <<>>
         /\ \A m \in Node : m # c.to => logEntries'[m] = logEntries[m]
         /\ \/ logEntries'[c.to] = logEntries[c.to]
            \/ /\ logEntries'[c.to] = AppendFrom(logEntries[c.to], c.prevIndex, c.entries)
               /\ PrevMatches(logEntries[c.to], c.prevIndex, c.prevTerm)
               /\ state'[c.to] # "Leader"
<1> DEFINE v == c.to
           log == logEntries[v]
           matches == PrevMatches(log, c.prevIndex, c.prevTerm)
           lastNew == c.prevIndex + Len(c.entries)
           rt == IF matches THEN c.term ELSE currentTerm[v]
           m == IF matches THEN lastNew ELSE 0
           k == IF matches THEN 0 ELSE Len(log)
           reply == [WithoutRequest(c) EXCEPT !.stage = "replied", !.replyTerm = rt,
                       !.success = matches, !.match = m, !.conflict = k]
<1>1. c \in AppendCalls
  BY DEF TypeOK
<1>2. /\ v \in Node /\ c.from \in Node /\ c.term \in Nat /\ c.prevIndex \in Nat
      /\ c.commit \in Nat /\ c.entries \in Seq(Entry)
  BY <1>1 DEF AppendCalls
<1>3. /\ currentTerm[v] \in Nat /\ commitIndex[v] \in Nat /\ log \in Seq(Entry)
      /\ Len(log) \in Nat /\ lastNew \in Nat /\ matches \in BOOLEAN
  <2>1. currentTerm[v] \in Nat /\ commitIndex[v] \in Nat /\ log \in Seq(Entry)
    BY <1>2 DEF TypeOK
  <2>2. Len(log) \in Nat /\ Len(c.entries) \in Nat
    BY <1>2, <2>1
  <2>3. matches \in BOOLEAN
    BY DEF PrevMatches
  <2> QED BY <1>2, <2>1, <2>2, <2>3
<1>4. rt \in Nat /\ m \in Nat /\ k \in Nat
  BY <1>2, <1>3
<1>5. /\ reply.from = c.from /\ reply.to = c.to /\ reply.entries = <<>>
      /\ reply.stage \in {"replied", "acked", "over"}
      /\ reply \in AppendCalls
  <2> HIDE DEF rt, m, k, matches
  <2>1. matches \in BOOLEAN /\ rt \in Nat /\ m \in Nat /\ k \in Nat
    BY <1>3, <1>4
  <2>2. "over" \in {"acked", "over"}
    OBVIOUS
  <2>3. /\ reply.from = c.from /\ reply.to = c.to /\ reply.entries = <<>>
        /\ reply.stage \in {"replied", "acked", "over"}
    BY <1>1, <2>1 DEF WithoutRequest, AppendCalls
  <2>4. reply \in AppendCalls
    BY <1>1, <2>1, <2>2, AppendCallType, Zenon
  <2> QED BY <2>3, <2>4
<1>6. UNCHANGED elected /\ c.stage = "sent"
  BY DEF HandleAppendEntries
<1>7. CASE Outdated(c)
  <2> DEFINE d == [reply EXCEPT !.replyTerm = currentTerm[v], !.success = FALSE,
                                !.match = 0, !.conflict = 0]
  <2>1. /\ ReplaceCall(c, d)
        /\ UNCHANGED <<nodeVars, logEntries>>
    BY <1>7 DEF HandleAppendEntries
  <2> HIDE DEF reply
  <2>2. d.from = c.from /\ d.to = c.to /\ d.entries = <<>>
        /\ d.stage \in {"replied", "acked", "over"} /\ d \in AppendCalls
    BY <1>3, <1>5 DEF AppendCalls
  <2> HIDE DEF d
  <2>3. \E e \in AppendCalls :
               /\ ReplaceCall(c, e) \/ LogWritten(c.to, CallsWith(c, e))
               /\ e.from = c.from /\ e.to = c.to
               /\ e.stage \in {"replied", "acked", "over"} /\ e.entries = <<>>
    BY <2>1, <2>2
  <2>4. NodesKept
    BY <2>1 DEF NodesKept, nodeVars
  <2> QED BY <1>2, <1>3, <1>6, <2>1, <2>3, <2>4
<1>8. CASE ~Outdated(c)
  <2>1. /\ IF c.term > currentTerm[v] \/ state[v] = "Candidate"
           THEN StepDown(v, c.term) ELSE UNCHANGED nodeVars
        /\ LogWritten(v, CallsWith(c, reply))
        /\ logEntries' = [logEntries EXCEPT ![v] =
             IF matches THEN AppendFrom(@, c.prevIndex, c.entries) ELSE @]
    BY <1>8 DEF HandleAppendEntries
  <2>2. \E e \in AppendCalls :
               /\ ReplaceCall(c, e) \/ LogWritten(c.to, CallsWith(c, e))
               /\ e.from = c.from /\ e.to = c.to
               /\ e.stage \in {"replied", "acked", "over"} /\ e.entries = <<>>
    <3> HIDE DEF reply
    <3> QED BY <1>5, <2>1
  <2>3. /\ NodesKept
        /\ state'[v] # "Leader"
    <3>1. CASE c.term > currentTerm[v] \/ state[v] = "Candidate"
      <4>1. state'[v] = "Follower" /\ currentTerm'[v] = c.term
        BY <1>2, <2>1, <3>1 DEF StepDown, TypeOK
      <4>2. \A n \in Node \ {v} : /\ currentTerm'[n] = currentTerm[n]
                                  /\ votedFor'[n] = votedFor[n]
                                  /\ state'[n] = state[n]
        BY <1>2, <2>1, <3>1 DEF StepDown, TypeOK
      <4>3. c.term > currentTerm[v] \/ (c.term = currentTerm[v] /\ state[v] = "Candidate")
        BY <1>2, <1>3, <1>8, <3>1 DEF Outdated
      <4> QED BY <4>1, <4>2, <4>3 DEF NodesKept
    <3>2. CASE ~(c.term > currentTerm[v] \/ state[v] = "Candidate")
      <4>1. c.term = currentTerm[v]
        BY <1>2, <1>3, <1>8, <3>2 DEF Outdated
      <4>2. state[v] # "Leader"
        BY <1>6, <4>1, LeaderNotTold
      <4> QED BY <2>1, <3>2, <4>2 DEF NodesKept, nodeVars
    <3> QED BY <3>1, <3>2
  <2>4. \A n \in Node : n # v => logEntries'[n] = logEntries[n]
    BY <2>1 DEF TypeOK
  <2>5. logEntries'[v] = IF matches THEN AppendFrom(log, c.prevIndex, c.entries) ELSE log
    BY <1>2, <2>1 DEF TypeOK
  <2> QED BY <1>2, <1>6, <2>2, <2>3, <2>4, <2>5
<1> QED BY <1>7, <1>8

\* Logs and goroutines of which every link was there before.
LEMMA LinksCopied ==
  ASSUME TypeOK, TypeOK', ElectionInv', LogInv, NodesKept, UNCHANGED elected,
         \A n \in Node : LogLinks(logEntries'[n]) \subseteq Links,
         \A n \in Node : state'[n] = "Leader" => Len(logEntries'[n]) >= Len(logEntries[n]),
         NEW D, appendCalls' \subseteq appendCalls \cup D,
         \A d \in D : /\ d.from # d.to /\ SentLinks(d) \subseteq Links
                      /\ d.stage \in {"spawned", "sent"} => <<d.from, d.term>> \in elected
  PROVE  LogInv'
<1>1. LeadersKept
  BY DEF NodesKept, LeadersKept
<1>2. Links' \subseteq Links
  <2>1. ASSUME NEW l \in Links' PROVE l \in Links
    <3>1. CASE \E n \in Node : l \in LogLinks(logEntries'[n])
      BY <3>1
    <3>2. CASE \E c \in appendCalls' : l \in SentLinks(c)
      <4>1. PICK c \in appendCalls' : l \in SentLinks(c)
        BY <3>2
      <4>2. CASE c \in appendCalls
        BY <4>1, <4>2 DEF Links
      <4>3. CASE c \in D
        BY <4>1, <4>3
      <4> QED BY <4>2, <4>3
    <3> QED BY <2>1, <3>1, <3>2 DEF Links, SentLinks
  <2> QED BY <2>1
<1>3. LeadersElected'
  <2>1. \A n \in Node : state'[n] = "Leader" => <<n, currentTerm'[n]>> \in elected
    BY DEF NodesKept, LogInv, LeadersElected
  <2>2. \A c \in appendCalls' :
          /\ c.from # c.to
          /\ c.stage \in {"spawned", "sent"} => <<c.from, c.term>> \in elected
    BY DEF LogInv, LeadersElected
  <2> QED BY <2>1, <2>2 DEF LeadersElected
<1> QED BY <1>1, <1>2, <1>3, LinksKept

\* Propose: the leader's entry is the first of its term at its position, because every
\* entry of the term is in the leader's log.
LEMMA ProposeInv ==
  ASSUME ~LateMarshal, TypeOK, TypeOK', ElectionInv', LogInv, NEW n \in Node, Propose(n)
  PROVE  LogInv'
<1> DEFINE log == logEntries[n]
           entry == [term |-> currentTerm[n], by |-> n]
           new == Append(log, entry)
           k == Len(log) + 1
           link == Link(k, entry, TermAt(log, Len(log)))
<1>1. /\ log \in Seq(Entry) /\ entry \in Entry /\ Len(log) \in Nat /\ currentTerm[n] \in Nat
      /\ state[n] = "Leader"
  BY DEF TypeOK, Entry, Propose
<1>2. /\ UNCHANGED <<appendCalls, elected, state, currentTerm>> /\ logEntries'[n] = new
      /\ \A m \in Node : m # n => logEntries'[m] = logEntries[m]
  BY WrittenAlone DEF Propose, nodeVars, TypeOK
<1>3. Len(new) = k /\ new[k] = entry /\ \A i \in 1..Len(log) : new[i] = log[i]
  BY <1>1
<1>4. LogLinks(new) \subseteq LogLinks(log) \cup {link}
  <2> SUFFICES ASSUME NEW i \in 1..k
               PROVE  Link(i, new[i], TermAt(new, i - 1)) \in LogLinks(log) \cup {link}
    BY <1>3 DEF LogLinks
  <2>1. TermAt(new, i - 1) = TermAt(log, i - 1)
    <3>1. i - 1 = 0 \/ i - 1 \in 1..Len(log)
      BY <1>1
    <3> HIDE DEF new
    <3> QED BY <1>3, <3>1 DEF TermAt
  <2>2. CASE i = k
    <3>1. i - 1 = Len(log)
      BY <1>1, <2>2
    <3> QED BY <1>3, <2>1, <2>2, <3>1
  <2>3. CASE i # k
    <3>1. i \in 1..Len(log)
      BY <1>1, <2>3
    <3>2. new[i] = log[i]
      BY <1>3, <3>1
    <3> HIDE DEF new
    <3> QED BY <2>1, <3>1, <3>2 DEF LogLinks
  <2> QED BY <2>2, <2>3
<1>5. link.term = currentTerm[n] /\ link.by = n /\ link.index = k
  BY DEF Link
<1> HIDE DEF new, link
<1>6. Links' \subseteq Links \cup {link}
  BY <1>2, <1>4 DEF Links, SentLinks
<1>7. \A l \in Links : l.term = currentTerm[n] => l.index < k
  BY <1>1, LinkTypes DEF LogInv, EntriesProposed
<1>8. LinksAgree'
  <2> SUFFICES ASSUME NEW a \in Links', NEW b \in Links', a.index = b.index, a.term = b.term
               PROVE  a = b
    BY DEF LinksAgree
  <2>1. CASE a \in Links /\ b \in Links
    BY <2>1 DEF LogInv, LinksAgree
  <2>2. CASE a = link /\ b = link
    BY <2>2
  <2>3. \A l \in Links : ~(l.index = link.index /\ l.term = link.term)
    BY <1>1, <1>5, <1>7
  <2> QED BY <1>6, <2>1, <2>2, <2>3
<1>9. EntriesProposed'
  <2>1. \A l \in Links' : <<l.by, l.term>> \in elected
    BY <1>1, <1>5, <1>6 DEF LogInv, EntriesProposed, LeadersElected
  <2>2. ASSUME NEW m \in Node, state[m] = "Leader", NEW l \in Links', l.term = currentTerm[m]
        PROVE  l.index <= Len(logEntries'[m])
    <3>1. CASE m = n
      BY <1>1, <1>2, <1>3, <1>5, <1>6, <1>7, <2>2, <3>1, LinkTypes
    <3>2. CASE m # n
      <4>1. l \in Links
        <5>1. <<m, currentTerm[m]>> \in elected /\ <<n, currentTerm[n]>> \in elected
          BY <1>1, <2>2 DEF LogInv, LeadersElected
        <5>2. l # link
          BY <1>2, <1>5, <2>2, <3>2, <5>1 DEF ElectionInv, OneLeaderPerTerm
        <5> QED BY <1>6, <5>2
      <4> QED BY <1>2, <2>2, <3>2, <4>1 DEF LogInv, EntriesProposed
    <3> QED BY <3>1, <3>2
  <2> QED BY <1>2, <2>1, <2>2 DEF EntriesProposed
<1>10. LeadersElected'
  BY <1>2 DEF LogInv, LeadersElected
<1> QED BY <1>8, <1>9, <1>10 DEF LogInv

\* What a goroutine sends is a piece of its node's log.
LEMMA BuildAppendLinks ==
  ASSUME NEW log \in Seq(Entry), NEW ni \in Nat, ni >= 1, NEW c,
         c.entries = <<>> \/ (c.entries = SubSeq(log, ni, Len(log)) /\ ni <= Len(log) + 1),
         c.prevIndex = ni - 1, ni - 1 <= Len(log) => c.prevTerm = TermAt(log, ni - 1)
  PROVE  SentLinks(c) \subseteq LogLinks(log)
<1>1. CASE c.entries = <<>>
  BY <1>1, NoEntries
<1>2. CASE c.entries = SubSeq(log, ni, Len(log)) /\ ni <= Len(log) + 1
  <2>1. Len(log) \in Nat
    OBVIOUS
  <2>2. /\ Len(c.entries) = Len(log) - ni + 1
        /\ \A i \in 1..(Len(log) - ni + 1) : c.entries[i] = log[ni + i - 1]
    BY <1>2, <2>1
  <2>3. ASSUME NEW i \in 1..Len(c.entries)
        PROVE  Link(c.prevIndex + i, c.entries[i],
                    IF i = 1 THEN c.prevTerm ELSE c.entries[i - 1].term) \in LogLinks(log)
    <3> DEFINE j == ni + i - 1
    <3>1. j \in 1..Len(log) /\ c.prevIndex + i = j /\ c.entries[i] = log[j]
      <4>1. i \in 1..(Len(log) - ni + 1)
        BY <2>2, <2>3
      <4>2. j \in 1..Len(log) /\ c.prevIndex + i = j
        BY <2>1, <4>1
      <4> QED BY <2>2, <4>1, <4>2
    <3>2. (IF i = 1 THEN c.prevTerm ELSE c.entries[i - 1].term) = TermAt(log, j - 1)
      <4>1. CASE i = 1
        BY <1>2, <2>1, <4>1
      <4>2. CASE i # 1
        <5>1. i - 1 \in 1..(Len(log) - ni + 1) /\ ni + (i - 1) - 1 = j - 1 /\ j - 1 # 0
          BY <2>1, <2>2, <2>3, <4>2
        <5>2. c.entries[i - 1] = log[ni + (i - 1) - 1]
          BY <2>2, <5>1
        <5> QED BY <4>2, <5>1, <5>2 DEF TermAt
      <4> QED BY <4>1, <4>2
    <3> HIDE DEF j
    <3> QED BY <3>1, <3>2 DEF LogLinks
  <2> QED BY <2>3 DEF SentLinks
<1> QED BY <1>1, <1>2

\* The steps of the replication keep the invariant of the logs.
LEMMA LogReplicationSteps ==
  ASSUME ~LateMarshal, TypeOK, TypeOK', ElectionInv, ElectionInv', LogInv, Replication
  PROVE  LogInv'
<1>1. ASSUME UNCHANGED <<nodeVars, elected, logEntries>>,
             NEW D, appendCalls' \subseteq appendCalls \cup D,
             \A d \in D : /\ d.from # d.to /\ SentLinks(d) \subseteq Links
                          /\ d.stage \in {"spawned", "sent"} => <<d.from, d.term>> \in elected
      PROVE  LogInv'
  <2>1. NodesKept
    BY <1>1 DEF NodesKept, nodeVars
  <2>2. \A n \in Node : LogLinks(logEntries'[n]) \subseteq Links
    BY <1>1 DEF Links
  <2>3. \A n \in Node : Len(logEntries'[n]) >= Len(logEntries[n])
    BY <1>1 DEF TypeOK
  <2> QED BY <1>1, <2>1, <2>2, <2>3, LinksCopied
<1>2. ASSUME NEW c \in appendCalls, NEW s \in {"acked", "over"}
      PROVE  LET d == EndedAs(c, s)
             IN d.from # d.to /\ SentLinks(d) = {} /\ d.stage \notin {"spawned", "sent"}
  <2>1. c \in AppendCalls /\ c.from # c.to
    BY DEF TypeOK, LogInv, LeadersElected
  <2> QED BY <2>1, EndedFields, NoEntries
<1>3. CASE \E n \in Node : Propose(n)
  BY <1>3, ProposeInv
<1>4. CASE \E n \in Node : Apply(n) \/ ContactAges(n)
  <2>1. UNCHANGED <<nodeVars, elected, logEntries, appendCalls>>
    BY <1>4 DEF Apply, ContactAges, logVars
  <2> DEFINE D == {}
  <2>2. appendCalls' \subseteq appendCalls \cup D /\ \A d \in D : FALSE
    BY <2>1
  <2> HIDE DEF D
  <2> QED BY <1>1, <2>1, <2>2
<1>5. ASSUME NEW n \in Node, NEW s \in Slot, Broadcast(n, s) PROVE LogInv'
  <2>1. /\ state[n] = "Leader" /\ UNCHANGED <<nodeVars, elected, logEntries>>
        /\ appendCalls' = appendCalls \cup {AppendCall(n, p, s) : p \in peers[n]}
    BY <1>5 DEF Broadcast, logVars
  <2>2. ASSUME NEW d \in {AppendCall(n, p, s) : p \in peers[n]}
        PROVE  /\ d.from # d.to /\ SentLinks(d) \subseteq Links
               /\ d.stage \in {"spawned", "sent"} => <<d.from, d.term>> \in elected
    <3>1. PICK p \in peers[n] : d = AppendCall(n, p, s)
      BY <2>2
    <3>2. d.from = n /\ d.to = p /\ d.term = currentTerm[n] /\ d.entries = <<>>
      BY <3>1 DEF AppendCall
    <3>3. p # n
      BY DEF TypeOK
    <3>4. <<n, currentTerm[n]>> \in elected
      BY <2>1 DEF LogInv, LeadersElected
    <3> QED BY <3>2, <3>3, <3>4, NoEntries
  <2> QED BY <1>1, <2>1, <2>2
<1>6. ASSUME NEW c \in appendCalls, BuildAppend(c) PROVE LogInv'
  <2> DEFINE n == c.from
             log == logEntries[n]
             ni == IF nextIndex[n][c.to] = 0 THEN 1 ELSE nextIndex[n][c.to]
             sent == [c EXCEPT !.stage = "sent", !.prevIndex = ni - 1,
                        !.prevTerm = IF ni - 1 <= Len(log) THEN TermAt(log, ni - 1) ELSE 0,
                        !.entries = IF ni <= c.logLen THEN SubSeq(log, ni, Len(log)) ELSE <<>>,
                        !.logLen = 0]
             panics == ni <= c.logLen /\ ni > Len(log) + 1
  <2>1. c \in AppendCalls /\ c.from \in Node /\ c.to \in Node /\ c.logLen \in Nat
    BY DEF TypeOK, AppendCalls
  <2>2. log \in Seq(Entry) /\ Len(log) \in Nat /\ ni \in Nat /\ ni >= 1
    <3>1. log \in Seq(Entry) /\ nextIndex[n] \in [Node -> Nat]
      BY <2>1 DEF TypeOK
    <3>2. nextIndex[n][c.to] \in Nat
      BY <2>1, <3>1
    <3> QED BY <3>1, <3>2
  <2>3. UNCHANGED <<nodeVars, elected, logEntries>> /\ c.stage = "spawned"
    BY <1>6 DEF BuildAppend, logVars
  <2>4. CASE panics
    <3>1. ReplaceCall(c, EndedAs(c, "over"))
      BY <1>6, <2>4 DEF BuildAppend
    <3>2. appendCalls' \subseteq appendCalls \cup {EndedAs(c, "over")}
      BY <3>1, ReplaceCallAdds
    <3> QED BY <1>1, <1>2, <2>3, <3>2
  <2>5. CASE ~panics
    <3>1. ReplaceCall(c, sent)
      BY <1>6, <2>5 DEF BuildAppend
    <3>2. appendCalls' \subseteq appendCalls \cup {sent}
      BY <3>1, ReplaceCallAdds
    <3>3. /\ sent.from = c.from /\ sent.to = c.to /\ sent.term = c.term
          /\ sent.prevIndex = ni - 1
          /\ sent.prevTerm = (IF ni - 1 <= Len(log) THEN TermAt(log, ni - 1) ELSE 0)
          /\ sent.entries = (IF ni <= c.logLen THEN SubSeq(log, ni, Len(log)) ELSE <<>>)
      BY <2>1 DEF AppendCalls
    <3> HIDE DEF sent
    <3>4. sent.entries = <<>> \/ (sent.entries = SubSeq(log, ni, Len(log)) /\ ni <= Len(log) + 1)
      <4> HIDE DEF ni, log
      <4> QED BY <2>1, <2>2, <2>5, <3>3
    <3>5. SentLinks(sent) \subseteq LogLinks(log)
      <4> HIDE DEF ni, log
      <4>1. ni - 1 <= Len(log) => sent.prevTerm = TermAt(log, ni - 1)
        BY <3>3
      <4> QED BY <2>2, <3>3, <3>4, <4>1, BuildAppendLinks
    <3>6. SentLinks(sent) \subseteq Links
      BY <2>1, <3>5 DEF Links
    <3>7. sent.from # sent.to /\ <<sent.from, sent.term>> \in elected
      BY <2>3, <3>3 DEF LogInv, LeadersElected
    <3> DEFINE D == {sent}
    <3>8. /\ appendCalls' \subseteq appendCalls \cup D
          /\ \A d \in D : /\ d.from # d.to /\ SentLinks(d) \subseteq Links
                          /\ d.stage \in {"spawned", "sent"} => <<d.from, d.term>> \in elected
      BY <3>2, <3>6, <3>7
    <3> HIDE DEF D
    <3> QED BY <1>1, <2>3, <3>8
  <2> QED BY <2>4, <2>5
<1>7. ASSUME NEW c \in appendCalls, HandleAppendEntries(c) PROVE LogInv'
  <2>0. LeadersElected
    BY DEF LogInv
  <2>1. PICK d \in AppendCalls :
                 /\ ReplaceCall(c, d) \/ LogWritten(c.to, CallsWith(c, d))
                 /\ d.from = c.from /\ d.to = c.to
                 /\ d.stage \in {"replied", "acked", "over"} /\ d.entries = <<>>
    BY <1>7, <2>0, HandleAppendEffect
  <2>2. /\ c.to \in Node /\ NodesKept /\ UNCHANGED elected
        /\ \A m \in Node : m # c.to => logEntries'[m] = logEntries[m]
        /\ \/ logEntries'[c.to] = logEntries[c.to]
           \/ /\ logEntries'[c.to] = AppendFrom(logEntries[c.to], c.prevIndex, c.entries)
              /\ PrevMatches(logEntries[c.to], c.prevIndex, c.prevTerm)
              /\ state'[c.to] # "Leader"
    BY <1>7, <2>0, HandleAppendEffect
  <2>3. appendCalls' \subseteq appendCalls \cup {d}
    BY <2>1, ReplacedAlone, ReplaceCallAdds
  <2>4. d.from # d.to /\ SentLinks(d) = {} /\ d.stage \notin {"spawned", "sent"}
    BY <2>1, NoEntries DEF LogInv, LeadersElected
  <2>5. c.prevIndex \in Nat /\ c.entries \in Seq(Entry) /\ logEntries[c.to] \in Seq(Entry)
    BY <2>2 DEF TypeOK, AppendCalls
  <2>6. \A n \in Node : LogLinks(logEntries'[n]) \subseteq Links
    <3>1. \A n \in Node : LogLinks(logEntries[n]) \subseteq Links
      BY DEF Links
    <3>2. SentLinks(c) \subseteq Links
      BY <1>7 DEF Links
    <3>3. CASE logEntries'[c.to] = logEntries[c.to]
      BY <2>2, <3>1, <3>3
    <3>4. CASE /\ logEntries'[c.to] = AppendFrom(logEntries[c.to], c.prevIndex, c.entries)
               /\ PrevMatches(logEntries[c.to], c.prevIndex, c.prevTerm)
      <4>1. LogLinks(logEntries'[c.to]) \subseteq LogLinks(logEntries[c.to]) \cup SentLinks(c)
        BY <2>5, <3>4, AppendFromLinks
      <4> QED BY <2>2, <3>1, <3>2, <4>1
    <3> QED BY <2>2, <3>3, <3>4
  <2>7. \A n \in Node : state'[n] = "Leader" => Len(logEntries'[n]) >= Len(logEntries[n])
    <3>1. \A n \in Node : Len(logEntries[n]) \in Nat
      BY DEF TypeOK
    <3>2. \A n \in Node : state'[n] = "Leader" => logEntries'[n] = logEntries[n]
      BY <2>2
    <3> QED BY <3>1, <3>2
  <2> DEFINE D == {d}
  <2>8. /\ appendCalls' \subseteq appendCalls \cup D
        /\ \A e \in D : /\ e.from # e.to /\ SentLinks(e) \subseteq Links
                        /\ e.stage \in {"spawned", "sent"} => <<e.from, e.term>> \in elected
    BY <2>3, <2>4
  <2> HIDE DEF D
  <2> QED BY <2>2, <2>6, <2>7, <2>8, LinksCopied
<1>8. ASSUME NEW c \in appendCalls, ReceiveAppend(c) \/ FailAppend(c) PROVE LogInv'
  <2>1. /\ UNCHANGED <<elected, logEntries>>
        /\ \/ StepDownIfNewer(c.from, c.replyTerm)
           \/ UNCHANGED nodeVars
    BY <1>8 DEF ReceiveAppend, FailAppend, logVars
  <2>2. PICK s \in {"acked", "over"} : ReplaceCall(c, EndedAs(c, s))
    BY <1>8 DEF ReceiveAppend, FailAppend
  <2>3. NodesKept
    <3>1. c.from \in Node /\ c.replyTerm \in Nat
      BY DEF TypeOK, AppendCalls
    <3>2. UNCHANGED nodeVars => NodesKept
      BY DEF NodesKept, nodeVars
    <3> QED BY <2>1, <3>1, <3>2, StepDownKept
  <2>4. appendCalls' \subseteq appendCalls \cup {EndedAs(c, s)}
    BY <2>2, ReplaceCallAdds
  <2>5. /\ \A n \in Node : LogLinks(logEntries'[n]) \subseteq Links
        /\ \A n \in Node : Len(logEntries'[n]) >= Len(logEntries[n])
    BY <2>1 DEF Links, TypeOK
  <2> QED BY <1>2, <2>1, <2>3, <2>4, <2>5, LinksCopied
<1> QED BY <1>3, <1>4, <1>5, <1>6, <1>7, <1>8 DEF Replication

\* Nothing is in the logs or under way at the start.
LEMMA LogInvInit == Init => LogInv
<1> SUFFICES ASSUME Init PROVE LogInv
  OBVIOUS
<1>1. \A n \in Node : logEntries[n] = <<>> /\ state[n] = "Follower"
  BY DEF Init
<1>2. Links = {} /\ appendCalls = {}
  BY <1>1 DEF Init, Links, LogLinks
<1> QED BY <1>1, <1>2 DEF LogInv, LeadersElected, EntriesProposed, LinksAgree

\* The invariant of the logs (broadcastAppendEntries, HandleAppendEntries), where every
\* request is marshalled as soon as it is built.
THEOREM LogInvariant == ASSUME ~LateMarshal PROVE Spec => []LogInv
<1>1. TypeOK /\ TypeOK' /\ ElectionInv /\ ElectionInv' /\ LogInv /\ [Next]_vars => LogInv'
  <2> SUFFICES ASSUME TypeOK, TypeOK', ElectionInv, ElectionInv', LogInv, [Next]_vars
               PROVE  LogInv'
    OBVIOUS
  <2>1. CASE UNCHANGED vars
    <3>1. UNCHANGED <<state, currentTerm, logEntries, appendCalls, elected>>
      BY <2>1 DEF vars, nodeVars, logVars
    <3>2. Links' = Links
      BY <3>1 DEF Links, SentLinks
    <3> QED BY <3>1, <3>2 DEF LogInv, LeadersElected, EntriesProposed, LinksAgree
  <2>2. CASE Election
    BY <2>2, LogElectionSteps
  <2>3. CASE Replication
    BY <2>3, LogReplicationSteps
  <2> QED BY <2>1, <2>2, <2>3 DEF Next
<1> QED BY <1>1, LogInvInit, TypeCorrect, ElectionInvariant, PTL DEF Spec

\* The links of two logs that agree make the logs the same up to any entry of one term:
\* take the last position before it at which they would differ.
LEMMA LinksMatch ==
  ASSUME TypeOK, LogInv
  PROVE  LogMatching
<1> SUFFICES ASSUME NEW m \in Node, NEW n \in Node, NEW i \in 1..Len(logEntries[m]),
                    i <= Len(logEntries[n]), logEntries[m][i].term = logEntries[n][i].term,
                    NEW j \in 1..i, logEntries[m][j] # logEntries[n][j]
             PROVE  FALSE
  BY DEF LogMatching
<1> DEFINE a == logEntries[m]
           b == logEntries[n]
           Differ == {k \in 0..i : i - k >= 1 /\ a[i - k] # b[i - k]}
<1>1. a \in Seq(Entry) /\ b \in Seq(Entry) /\ Len(a) \in Nat /\ Len(b) \in Nat /\ i \in Nat
  <2>1. a \in Seq(Entry) /\ b \in Seq(Entry)
    BY DEF TypeOK
  <2> QED BY <2>1
<1>2. ASSUME NEW k \in 1..i, a[k].term = b[k].term
      PROVE  a[k] = b[k] /\ TermAt(a, k - 1) = TermAt(b, k - 1)
  <2>1. k \in 1..Len(a) /\ k \in 1..Len(b)
    BY <1>1
  <2>2. a[k] \in Entry /\ b[k] \in Entry
    BY <1>1, <2>1
  <2> DEFINE la == Link(k, a[k], TermAt(a, k - 1))
             lb == Link(k, b[k], TermAt(b, k - 1))
  <2>3. la \in Links /\ lb \in Links
    BY <2>1, LinkTypes
  <2>4. la.index = lb.index /\ la.term = lb.term
    BY <1>2 DEF Link
  <2>5. la = lb
    <3> HIDE DEF la, lb
    <3> QED BY <2>3, <2>4 DEF LogInv, LinksAgree
  <2>6. a[k].by = b[k].by /\ TermAt(a, k - 1) = TermAt(b, k - 1)
    BY <2>5 DEF Link
  <2> QED BY <1>2, <2>2, <2>6 DEF Entry
<1>3. Differ \in SUBSET Nat /\ i - j \in Differ
  <2>1. i - j \in 0..i /\ i - (i - j) = j /\ j >= 1
    BY <1>1
  <2> QED BY <2>1
<1>4. PICK k \in Differ : \A o \in Differ : k <= o
  <2> HIDE DEF Differ
  <2> QED BY <1>3, Least
<1>5. k \in 0..i /\ i - k \in 1..i /\ a[i - k] # b[i - k]
  BY <1>1, <1>4
<1>6. k # 0
  <2> SUFFICES ASSUME k = 0 PROVE FALSE
    OBVIOUS
  <2>1. i - k = i /\ i \in 1..i
    BY <1>1
  <2> QED BY <1>2, <1>5, <2>1
<1>7. i - (k - 1) \in 1..i /\ k - 1 \in 0..i /\ (i - (k - 1)) - 1 = i - k /\ i - k # 0
  BY <1>1, <1>5, <1>6
<1>8. k - 1 \notin Differ
  <2> HIDE DEF Differ
  <2> QED BY <1>4, <1>5, <1>6
<1>9. a[i - (k - 1)] = b[i - (k - 1)]
  BY <1>7, <1>8
<1>10. TermAt(a, i - k) = TermAt(b, i - k)
  BY <1>2, <1>7, <1>9
<1>11. a[i - k].term = b[i - k].term
  BY <1>7, <1>10 DEF TermAt
<1> QED BY <1>2, <1>5, <1>11

\* Two logs with an entry of one term at one position are the same up to it, in a cluster
\* of any size, however late, lost or overtaken its requests are, if they are marshalled as
\* soon as they are built.
THEOREM LogsMatch == ASSUME ~LateMarshal PROVE Spec => []LogMatching
<1>1. TypeOK /\ LogInv => LogMatching
  BY LinksMatch
<1> QED BY <1>1, TypeCorrect, LogInvariant, PTL

\* A node that stays leader of its term only adds to its log.
LEMMA LeadersAppend ==
  ASSUME TypeOK, ElectionInv, LeadersElected, Next
  PROVE  \A n \in Node : OnlyAppended(n)
<1> SUFFICES ASSUME NEW n \in Node, state'[n] = "Leader"
             PROVE  SubSeq(logEntries'[n], 1, Len(logEntries[n])) = logEntries[n]
  BY DEF OnlyAppended
<1>1. logEntries[n] \in Seq(Entry) /\ Len(logEntries[n]) \in Nat
  BY DEF TypeOK
<1>2. CASE logEntries'[n] = logEntries[n]
  BY <1>1, <1>2
<1>3. ASSUME NEW m \in Node, Propose(m)
      PROVE  SubSeq(logEntries'[n], 1, Len(logEntries[n])) = logEntries[n]
  <2>1. \/ logEntries'[n] = logEntries[n]
        \/ logEntries'[n] = Append(logEntries[n], [term |-> currentTerm[n], by |-> n])
    BY <1>3 DEF Propose, TypeOK
  <2>2. [term |-> currentTerm[n], by |-> n] \in Entry
    BY DEF TypeOK, Entry
  <2> QED BY <1>1, <1>2, <2>1, <2>2
<1>4. ASSUME NEW c \in appendCalls, HandleAppendEntries(c) PROVE logEntries'[n] = logEntries[n]
  BY <1>4, HandleAppendEffect
<1>5. \/ logEntries' = logEntries
      \/ \E m \in Node : Propose(m)
      \/ \E c \in appendCalls : HandleAppendEntries(c)
  BY DEF Next, Election, Replication, StartElection, HandlePreVote, FailPreVote,
         ReceivePreVote, HandleRequestVote, ReceiveVote, FailVote, Apply, ContactAges,
         Broadcast, BuildAppend, ReceiveAppend, FailAppend, logVars
<1> QED BY <1>2, <1>3, <1>4, <1>5

\* Leaders, and those on whose behalf a request is under way, won its term.
LEMMA LeadersInit == Init => LeadersElected
BY DEF Init, LeadersElected

\* A step keeps it: a request keeps its term, whenever it is marshalled.
LEMMA LeadersStep ==
  ASSUME TypeOK, TypeOK', ElectionInv, LeadersElected, [Next]_vars
  PROVE  LeadersElected'
<1>1. ASSUME LeadersKept,
             \A d \in appendCalls' :
               /\ d.from # d.to
               /\ d.stage \in {"spawned", "sent"} => <<d.from, d.term>> \in elected
      PROVE  LeadersElected'
  <2>1. elected \subseteq elected'
    BY <1>1 DEF LeadersKept
  <2>2. \A n \in Node : state'[n] = "Leader" => <<n, currentTerm'[n]>> \in elected'
    BY <1>1, <2>1 DEF LeadersKept, LeadersElected
  <2> QED BY <1>1, <2>1, <2>2 DEF LeadersElected
<1>2. ASSUME NEW calls, LeadersKept,
             \A e \in calls : /\ e.from # e.to
                              /\ e.stage \in {"spawned", "sent"} => <<e.from, e.term>> \in elected,
             \A d \in appendCalls' : \E e \in calls :
               d.from = e.from /\ d.to = e.to /\ d.stage = e.stage /\ d.term = e.term
      PROVE  LeadersElected'
  BY <1>1, <1>2
<1>3. NodesKept /\ UNCHANGED elected => LeadersKept
  BY DEF NodesKept, LeadersKept
<1>4. UNCHANGED nodeVars => NodesKept
  BY DEF NodesKept, nodeVars
<1>5. CASE LeadersKept /\ UNCHANGED appendCalls
  BY <1>1, <1>5 DEF LeadersElected
<1>6. CASE Election
  <2>1. UNCHANGED appendCalls
    BY <1>6 DEF Election, StartElection, HandlePreVote, FailPreVote, ReceivePreVote,
       HandleRequestVote, ReceiveVote, FailVote
  <2> QED BY <1>5, <1>6, <2>1, ElectionLeaders
<1>7. ASSUME NEW n \in Node, Propose(n) PROVE LeadersElected'
  <2>1. LeadersKept
    BY <1>3, <1>4, <1>7 DEF Propose
  <2>2. LogWritten(n, appendCalls) /\ appendCalls \in SUBSET AppendCalls
        /\ logEntries'[n] \in Seq(Entry)
    BY <1>7 DEF Propose, TypeOK
  <2>3. \A d \in appendCalls' : \E e \in appendCalls :
          d.from = e.from /\ d.to = e.to /\ d.stage = e.stage /\ d.term = e.term
    BY <2>2, WrittenType
  <2> QED BY <1>2, <2>1, <2>3 DEF LeadersElected
<1>8. ASSUME NEW n \in Node, NEW s \in Slot, Broadcast(n, s) PROVE LeadersElected'
  <2>1. /\ state[n] = "Leader" /\ LeadersKept
        /\ appendCalls' = appendCalls \cup {AppendCall(n, p, s) : p \in peers[n]}
    BY <1>3, <1>4, <1>8 DEF Broadcast
  <2>2. \A p \in peers[n] : LET d == AppendCall(n, p, s)
                             IN d.from # d.to /\ <<d.from, d.term>> \in elected
    BY <2>1 DEF AppendCall, TypeOK, LeadersElected
  <2> QED BY <1>1, <2>1, <2>2 DEF LeadersElected
<1>9. ASSUME NEW c \in appendCalls, BuildAppend(c) PROVE LeadersElected'
  <2>1. c \in AppendCalls /\ c.from # c.to /\ <<c.from, c.term>> \in elected
    BY <1>9 DEF BuildAppend, TypeOK, LeadersElected
  <2> DEFINE n == c.from
             log == logEntries[n]
             ni == IF nextIndex[n][c.to] = 0 THEN 1 ELSE nextIndex[n][c.to]
             panics == ni <= c.logLen /\ ni > Len(log) + 1
             sent == [c EXCEPT !.stage = "sent", !.prevIndex = ni - 1,
                        !.prevTerm = IF ni - 1 <= Len(log) THEN TermAt(log, ni - 1) ELSE 0,
                        !.entries = IF ni <= c.logLen THEN SubSeq(log, ni, Len(log)) ELSE <<>>,
                        !.logLen = 0]
  <2>2. \E d : /\ ReplaceCall(c, d) /\ d.from = c.from /\ d.to = c.to
               /\ d.term = c.term \/ d.stage = "over"
    <3>1. CASE panics
      <4>1. ReplaceCall(c, EndedAs(c, "over"))
        BY <1>9, <3>1 DEF BuildAppend
      <4> QED BY <2>1, <4>1, EndedFields
    <3>2. CASE ~panics
      <4>1. ReplaceCall(c, sent)
        BY <1>9, <3>2 DEF BuildAppend
      <4>2. sent.from = c.from /\ sent.to = c.to /\ sent.term = c.term
        BY <2>1 DEF AppendCalls
      <4> HIDE DEF sent
      <4> QED BY <4>1, <4>2
    <3> QED BY <3>1, <3>2
  <2>3. LeadersKept
    BY <1>3, <1>4, <1>9 DEF BuildAppend
  <2> QED BY <1>1, <2>1, <2>2, <2>3, ReplaceCallAdds DEF LeadersElected
<1>10. ASSUME NEW c \in appendCalls, HandleAppendEntries(c) PROVE LeadersElected'
  <2>1. PICK d \in AppendCalls :
                 /\ ReplaceCall(c, d) \/ LogWritten(c.to, CallsWith(c, d))
                 /\ d.from = c.from /\ d.to = c.to
                 /\ d.stage \in {"replied", "acked", "over"} /\ d.entries = <<>>
    BY <1>10, HandleAppendEffect
  <2>2. LeadersKept /\ c.to \in Node
    BY <1>3, <1>10, HandleAppendEffect
  <2> DEFINE calls == CallsWith(c, d)
  <2>3. calls \in SUBSET AppendCalls /\ calls \subseteq appendCalls \cup {d}
    BY ReplaceCallType DEF CallsWith
  <2>4. \A e \in calls : /\ e.from # e.to
                         /\ e.stage \in {"spawned", "sent"} => <<e.from, e.term>> \in elected
    BY <2>1, <2>3 DEF LeadersElected
  <2>5. \A b \in appendCalls' : \E e \in calls :
          b.from = e.from /\ b.to = e.to /\ b.stage = e.stage /\ b.term = e.term
    <3>1. CASE ReplaceCall(c, d)
      BY <3>1 DEF ReplaceCall
    <3>2. CASE LogWritten(c.to, CallsWith(c, d))
      <4>1. logEntries'[c.to] \in Seq(Entry)
        BY <2>2 DEF TypeOK
      <4> QED BY <2>3, <3>2, <4>1, WrittenType
    <3> QED BY <2>1, <3>1, <3>2
  <2> HIDE DEF calls
  <2> QED BY <1>2, <2>2, <2>4, <2>5
<1>11. ASSUME NEW c \in appendCalls, ReceiveAppend(c) \/ FailAppend(c) PROVE LeadersElected'
  <2>1. PICK s \in {"acked", "over"} : ReplaceCall(c, EndedAs(c, s))
    BY <1>11 DEF ReceiveAppend, FailAppend
  <2>2. LeadersKept
    <3>1. c.from \in Node /\ c.replyTerm \in Nat
      BY DEF TypeOK, AppendCalls
    <3>2. UNCHANGED elected /\ (StepDownIfNewer(c.from, c.replyTerm) \/ UNCHANGED nodeVars)
      BY <1>11 DEF ReceiveAppend, FailAppend
    <3> QED BY <1>3, <1>4, <3>1, <3>2, StepDownKept
  <2>3. c \in AppendCalls /\ c.from # c.to
    BY DEF TypeOK, LeadersElected
  <2> QED BY <1>1, <2>1, <2>2, <2>3, ReplaceCallAdds, EndedFields DEF LeadersElected
<1>12. CASE (\E n \in Node : Apply(n) \/ ContactAges(n)) \/ UNCHANGED vars
  BY <1>3, <1>4, <1>5, <1>12 DEF Apply, ContactAges, vars, nodeVars
<1> QED BY <1>6, <1>7, <1>8, <1>9, <1>10, <1>11, <1>12 DEF Next, Replication

\* A leader never cuts its own log (HandleAppendEntries would, for any leader of its term).
THEOREM LeadersOnlyAppend == Spec => LeaderAppendOnly
<1>1. TypeOK /\ ElectionInv /\ LeadersElected /\ [Next]_vars
        => [\A n \in Node : OnlyAppended(n)]_vars
  BY LeadersAppend
<1>2. (TypeOK /\ TypeOK' /\ ElectionInv /\ LeadersElected /\ [Next]_vars) => LeadersElected'
  BY LeadersStep
<1> QED BY <1>1, <1>2, LeadersInit, TypeCorrect, ElectionInvariant, PTL
           DEF Spec, LeaderAppendOnly

---------------------------------------------------------------------------
(* Beginnings of logs *)

\* K begins the log L: it is L, or what L was earlier.
Begins(K, L) == Len(K) <= Len(L) /\ \A i \in 1..Len(K) : K[i] = L[i]
\* One log begins the other.
Comparable(K, L) == Begins(K, L) \/ Begins(L, K)

\* Beginning is an order, and what begins one log is comparable.
LEMMA BeginsOrder ==
  ASSUME NEW K \in Seq(Entry), NEW L \in Seq(Entry), NEW N \in Seq(Entry)
  PROVE  /\ Begins(K, K)
         /\ Begins(K, L) /\ Begins(L, N) => Begins(K, N)
         /\ Begins(K, N) /\ Begins(L, N) => Comparable(K, L)
<1>1. Len(K) \in Nat /\ Len(L) \in Nat /\ Len(N) \in Nat
  OBVIOUS
<1>2. Begins(K, K)
  BY <1>1 DEF Begins
<1>3. ASSUME Begins(K, L), Begins(L, N) PROVE Begins(K, N)
  BY <1>1, <1>3 DEF Begins
<1>4. ASSUME Begins(K, N), Begins(L, N) PROVE Comparable(K, L)
  <2>1. CASE Len(K) <= Len(L)
    BY <1>1, <1>4, <2>1 DEF Begins, Comparable
  <2>2. CASE Len(L) <= Len(K)
    BY <1>1, <1>4, <2>2 DEF Begins, Comparable
  <2> QED BY <1>1, <2>1, <2>2
<1> QED BY <1>2, <1>3, <1>4

\* Of two logs of one length, neither begins the other unless they are equal.
LEMMA BeginsSame ==
  ASSUME NEW K \in Seq(Entry), NEW L \in Seq(Entry), Comparable(K, L), Len(K) = Len(L)
  PROVE  K = L
<1>1. \A i \in 1..Len(K) : K[i] = L[i]
  BY DEF Comparable, Begins
<1> QED BY <1>1

\* The beginnings of a log are its prefixes.
LEMMA BeginsPrefix ==
  ASSUME NEW L \in Seq(Entry), NEW i \in 0..Len(L)
  PROVE  /\ SubSeq(L, 1, i) \in Seq(Entry) /\ Len(SubSeq(L, 1, i)) = i
         /\ \A j \in 1..i : SubSeq(L, 1, i)[j] = L[j]
         /\ Begins(SubSeq(L, 1, i), L)
         /\ LastTerm(SubSeq(L, 1, i)) = TermAt(L, i)
<1>1. /\ SubSeq(L, 1, i) \in Seq(Entry) /\ Len(SubSeq(L, 1, i)) = i
      /\ \A j \in 1..i : SubSeq(L, 1, i)[j] = L[j]
  OBVIOUS
<1>2. Len(L) \in Nat /\ i \in Nat
  OBVIOUS
<1>3. LastTerm(SubSeq(L, 1, i)) = TermAt(L, i)
  <2>1. i # 0 => i \in 1..i
    BY <1>2
  <2> QED BY <1>1, <2>1 DEF LastTerm, TermAt
<1> QED BY <1>1, <1>2, <1>3 DEF Begins

\* What begins a log is a prefix of it.
LEMMA BeginsIsPrefix ==
  ASSUME NEW K \in Seq(Entry), NEW L \in Seq(Entry), Begins(K, L)
  PROVE  Len(K) \in 0..Len(L) /\ K = SubSeq(L, 1, Len(K))
<1>1. Len(K) \in Nat /\ Len(L) \in Nat /\ Len(K) <= Len(L)
  BY DEF Begins
<1>2. Len(K) \in 0..Len(L)
  BY <1>1
<1>3. Comparable(K, SubSeq(L, 1, Len(K)))
  BY <1>1, <1>2, BeginsPrefix DEF Begins, Comparable
<1> QED BY <1>2, <1>3, BeginsPrefix, BeginsSame

\* What a proposal adds.
LEMMA BeginsAppend ==
  ASSUME NEW L \in Seq(Entry), NEW e \in Entry
  PROVE  /\ Append(L, e) \in Seq(Entry) /\ Len(Append(L, e)) = Len(L) + 1
         /\ Begins(L, Append(L, e)) /\ LastTerm(Append(L, e)) = e.term
         /\ \A K \in Seq(Entry) : Begins(K, Append(L, e)) => Begins(K, L) \/ K = Append(L, e)
<1> DEFINE N == Append(L, e)
<1>1. /\ N \in Seq(Entry) /\ Len(N) = Len(L) + 1 /\ Len(L) \in Nat
      /\ N[Len(L) + 1] = e /\ \A i \in 1..Len(L) : N[i] = L[i]
  OBVIOUS
<1> HIDE DEF N
<1>2. Begins(L, N)
  BY <1>1 DEF Begins
<1>3. LastTerm(N) = e.term
  BY <1>1 DEF LastTerm, TermAt
<1>4. ASSUME NEW K \in Seq(Entry), Begins(K, N) PROVE Begins(K, L) \/ K = N
  <2>1. Len(K) \in Nat /\ Len(K) <= Len(L) + 1
    BY <1>1, <1>4 DEF Begins
  <2>2. CASE Len(K) <= Len(L)
    BY <1>1, <1>4, <2>1, <2>2 DEF Begins
  <2>3. CASE Len(K) = Len(L) + 1
    BY <1>1, <1>4, <2>3, BeginsSame DEF Comparable
  <2> QED BY <1>1, <2>1, <2>2, <2>3
<1> QED BY <1>1, <1>2, <1>3, <1>4 DEF N

---------------------------------------------------------------------------
(* The history of the logs *)
(* M is the set of logs that leaders had, every prefix of them included; W the won        *)
(* elections, each with its term, its winner, the log it was won with and the voters; A   *)
(* the pairs of a node and a log of M that it had when it acknowledged the log's last     *)
(* entry to the leader that proposed it.                                                  *)

\* A leader of a later term was elected with a log that K does not begin.
Escaped(W, K) == \E w \in W : w.term > LastTerm(K) /\ ~Begins(K, w.log)
\* The node still has the log it acknowledged, or a later leader made it give it up.
Kept(W, n, K) == Begins(K, logEntries[n]) \/ Escaped(W, K)
\* A majority acknowledged the log.
Chosen(A, K) == \E Q \in SUBSET Node : /\ 2 * Cardinality(Q) > Cardinality(Node)
                                       /\ \A v \in Q : <<v, K>> \in A
\* The leader of a term.
Leads(n, t) == state[n] = "Leader" /\ currentTerm[n] = t

\* The logs of one term are the log of its one leader as it grew.
ProposedInv(M, W) ==
  /\ M \subseteq Seq(Entry) /\ <<>> \in M
  /\ \A L \in M : \A i \in 0..Len(L) : SubSeq(L, 1, i) \in M
  /\ \A K, L \in M : LastTerm(K) = LastTerm(L) => Comparable(K, L)
  /\ \A K, L \in M : Begins(K, L) => LastTerm(K) <= LastTerm(L)
  /\ \A L \in M : L # <<>> => \E w \in W : w.term = LastTerm(L) /\ Begins(w.log, L)

\* A term has one election, won with a log of earlier terms and the votes of a majority.
WinnersInv(M, W) ==
  /\ \A w \in W :
       /\ w.node \in Node /\ w.term \in Nat /\ w.log \in M /\ w.voters \subseteq Node
       /\ w.node \in w.voters /\ 2 * Cardinality(w.voters) > Cardinality(Node)
       /\ LastTerm(w.log) < w.term
       /\ <<w.node, w.term>> \in elected
       /\ \A v \in w.voters : currentTerm[v] >= w.term
  /\ \A e \in elected : \E w \in W : w.node = e[1] /\ w.term = e[2]
  /\ \A w, x \in W : w.term = x.term => w = x

\* A log that a later leader was elected without had not been acknowledged by any of that
\* leader's voters, a majority: the argument by which what is chosen is never lost.
AcksInv(M, W, A) ==
  /\ \A a \in A : /\ a \in Node \X M /\ LastTerm(a[2]) >= 1
                  /\ currentTerm[a[1]] >= LastTerm(a[2]) /\ Kept(W, a[1], a[2])
  /\ \A K \in M : Escaped(W, K) =>
       \E w \in W : w.term > LastTerm(K) /\ \A v \in w.voters : <<v, K>> \notin A
  /\ \A w \in W, K \in M : LastTerm(K) < w.term => Kept(W, w.node, K)
  /\ \A w \in W, K \in M : LastTerm(K) = w.term => <<w.node, K>> \in A

\* A leader has every log of its term, and its match table speaks of them.
LeaderInv(M, W, A, n) ==
  /\ LastTerm(logEntries[n]) <= currentTerm[n]
  /\ \A w \in W : w.node = n /\ w.term = currentTerm[n] => Begins(w.log, logEntries[n])
  /\ \A K \in M : LastTerm(K) = currentTerm[n] => Begins(K, logEntries[n])
  /\ \A p \in Node :
       /\ matchIndex[n][p] <= Len(logEntries[n])
       /\ \A K \in M : LastTerm(K) = currentTerm[n] /\ Len(K) <= matchIndex[n][p]
                         => <<p, K>> \in A

\* Every log is one that a leader had.
NodesInv(M, W, A) ==
  \A n \in Node : /\ logEntries[n] \in M /\ matchIndex[n][n] = 0
                  /\ state[n] = "Leader" => LeaderInv(M, W, A, n)

\* A vote was granted to a candidate that had all the voter acknowledged.
CampaignCall(W, A, c) ==
  state[c.from] = "Candidate" /\ currentTerm[c.from] = c.term =>
    /\ c.term >= 1
    /\ c.stage = "sent" => /\ c.lastIndex = Len(logEntries[c.from])
                           /\ c.lastTerm = LastTerm(logEntries[c.from])
    /\ Granted(c) =>
         /\ \A a \in A : a[1] = c.to /\ LastTerm(a[2]) < c.term => Kept(W, c.from, a[2])
         /\ \A w \in W : w.term = LastTerm(logEntries[c.from]) /\ w.term > c.term
                           => c.to \notin w.voters

\* The entries of a request end a log.
Carries(c, L) ==
  /\ Len(L) = c.prevIndex + Len(c.entries)
  /\ c.prevTerm = TermAt(L, c.prevIndex)
  /\ \A i \in 1..Len(c.entries) : c.entries[i] = L[c.prevIndex + i]

\* A request carries a log that no log of its term or an earlier one contradicts; or it was
\* built from a log cut below nextIndex, and no follower will match its previous entry.
SentCall(M, W, c) ==
  c.stage = "sent" =>
    \/ c.prevIndex > 0 /\ c.prevTerm = 0 /\ c.entries = <<>>
    \/ \E L \in M : /\ Carries(c, L)
                    /\ \A K \in M : LastTerm(K) <= c.term => Comparable(K, L) \/ Escaped(W, K)
                    /\ Leads(c.from, c.term) => Begins(L, logEntries[c.from])

\* A success in the term its reader leads is an acknowledgement of what it matched.
RepliedCall(M, A, c) ==
  c.stage = "replied" /\ c.success =>
    /\ <<c.from, c.replyTerm>> \in elected
    /\ Leads(c.from, c.replyTerm) =>
         /\ c.match <= Len(logEntries[c.from])
         /\ \A K \in M : LastTerm(K) = c.replyTerm /\ Len(K) <= c.match => <<c.to, K>> \in A

\* The commit index of a request was reached by a chosen log.
CommitCall(M, A, c) ==
  c.stage \in {"spawned", "sent"} =>
    \/ c.commit = 0
    \/ \E K \in M : Chosen(A, K) /\ LastTerm(K) <= c.term /\ c.commit <= Len(K)

\* What a node takes for committed begins a chosen log.
CommitNode(M, A, n) ==
  /\ \/ commitIndex[n] = 0
     \/ \E K \in M : /\ Chosen(A, K) /\ LastTerm(K) <= currentTerm[n]
                     /\ commitIndex[n] <= Len(K) /\ commitIndex[n] <= Len(logEntries[n])
                     /\ \A i \in 1..commitIndex[n] : logEntries[n][i] = K[i]
  /\ Len(applied[n]) <= commitIndex[n] /\ Begins(applied[n], logEntries[n])

\* The goroutines.
CallsInv(M, W, A) ==
  /\ \A c \in voteCalls : CampaignCall(W, A, c)
  /\ \A c \in appendCalls : SentCall(M, W, c) /\ RepliedCall(M, A, c) /\ CommitCall(M, A, c)

\* The history explains the state.
HistoryInv(M, W, A) ==
  /\ ProposedInv(M, W) /\ WinnersInv(M, W) /\ AcksInv(M, W, A) /\ NodesInv(M, W, A)
  /\ CallsInv(M, W, A) /\ \A n \in Node : CommitNode(M, A, n)

\* The set M in one place: prefixes and terms.
LEMMA ProposedLogs ==
  ASSUME NEW M, NEW W, ProposedInv(M, W), NEW L \in M, NEW K \in Seq(Entry), Begins(K, L)
  PROVE  K \in M /\ LastTerm(K) <= LastTerm(L)
<1>1. L \in Seq(Entry) /\ Len(K) \in 0..Len(L) /\ K = SubSeq(L, 1, Len(K))
  BY BeginsIsPrefix DEF ProposedInv
<1>2. K \in M
  BY <1>1 DEF ProposedInv
<1> QED BY <1>2 DEF ProposedInv

\* Two proposed logs with entries of one term at one position are the same up to it.
LEMMA ProposedMatch ==
  ASSUME NEW M, NEW W, ProposedInv(M, W), NEW K \in M, NEW L \in M,
         NEW i \in Nat, i <= Len(K), i <= Len(L), TermAt(K, i) = TermAt(L, i)
  PROVE  \A j \in 1..i : K[j] = L[j]
<1>1. K \in Seq(Entry) /\ L \in Seq(Entry)
  BY DEF ProposedInv
<1>2. i \in 0..Len(K) /\ i \in 0..Len(L)
  BY <1>1
<1> DEFINE P == SubSeq(K, 1, i)
           Q == SubSeq(L, 1, i)
<1>3. /\ P \in Seq(Entry) /\ Q \in Seq(Entry) /\ P \in M /\ Q \in M /\ Len(P) = i /\ Len(Q) = i
      /\ LastTerm(P) = LastTerm(Q)
      /\ \A j \in 1..i : P[j] = K[j] /\ Q[j] = L[j]
  BY <1>1, <1>2, BeginsPrefix DEF ProposedInv
<1> HIDE DEF P, Q
<1>4. P = Q
  BY <1>3, BeginsSame DEF ProposedInv
<1> QED BY <1>3, <1>4

\* A follower that takes the entries of a proposed log either has that log already or
\* has exactly that log afterwards.
LEMMA AppendFromOrigin ==
  ASSUME NEW M, NEW W, ProposedInv(M, W), NEW X \in M, NEW L \in M, NEW c \in AppendCalls,
         Carries(c, L), PrevMatches(X, c.prevIndex, c.prevTerm)
  PROVE  \/ AppendFrom(X, c.prevIndex, c.entries) = X /\ Begins(L, X)
         \/ AppendFrom(X, c.prevIndex, c.entries) = L /\ ~Begins(L, X)
<1> DEFINE p == c.prevIndex
           es == c.entries
           differs == {i \in 1..Len(es) : \/ p + i > Len(X)
                                          \/ X[p + i].term # es[i].term}
           first == CHOOSE i \in differs : \A j \in differs : i <= j
<1>1. /\ p \in Nat /\ es \in Seq(Entry) /\ Len(es) \in Nat
      /\ X \in Seq(Entry) /\ L \in Seq(Entry) /\ Len(X) \in Nat /\ Len(L) \in Nat
  <2>1. p \in Nat /\ es \in Seq(Entry)
    BY DEF AppendCalls
  <2> QED BY <2>1 DEF ProposedInv
<1>2. /\ Len(L) = p + Len(es) /\ p <= Len(X) /\ TermAt(X, p) = TermAt(L, p)
      /\ \A i \in 1..Len(es) : es[i] = L[p + i]
  BY DEF Carries, PrevMatches
<1> HIDE DEF p, es
<1>3. \A j \in 1..p : X[j] = L[j]
  BY <1>1, <1>2, ProposedMatch
<1>4. ASSUME NEW i \in 1..Len(es), i \notin differs
      PROVE  p + i <= Len(X) /\ \A j \in 1..(p + i) : X[j] = L[j]
  <2>1. p + i <= Len(X) /\ X[p + i].term = L[p + i].term
    BY <1>1, <1>2, <1>4
  <2>2. p + i \in Nat /\ p + i # 0 /\ p + i <= Len(L)
    BY <1>1, <1>2
  <2>3. TermAt(X, p + i) = TermAt(L, p + i)
    BY <2>1, <2>2 DEF TermAt
  <2> HIDE DEF differs
  <2> QED BY <2>1, <2>2, <2>3, ProposedMatch
<1>5. CASE differs = {}
  <2>1. AppendFrom(X, p, es) = X
    BY <1>5 DEF AppendFrom
  <2>2. Len(L) <= Len(X) /\ \A j \in 1..Len(L) : X[j] = L[j]
    <3>1. CASE Len(es) = 0
      BY <1>1, <1>2, <1>3, <3>1
    <3>2. CASE Len(es) # 0
      <4>1. Len(es) \in 1..Len(es) /\ Len(es) \notin differs
        BY <1>1, <1>5, <3>2
      <4> HIDE DEF differs
      <4> QED BY <1>2, <1>4, <4>1
    <3> QED BY <3>1, <3>2
  <2> QED BY <2>1, <2>2 DEF Begins, p, es
<1>6. CASE differs # {}
  <2>1. differs \in SUBSET Nat
    OBVIOUS
  <2>2. first \in differs /\ \A j \in differs : first <= j
    <3>1. \E i \in differs : \A j \in differs : i <= j
      BY <1>6, <2>1, Least
    <3> QED BY <3>1
  <2>3. first \in 1..Len(es)
    BY <2>2
  <2>4. /\ AppendFrom(X, p, es)
             = SubSeq(X, 1, p + first - 1) \o SubSeq(es, first, Len(es))
    BY <1>6 DEF AppendFrom
  <2>5. p + first > Len(X) \/ X[p + first].term # es[first].term
    BY <2>2
  <2> HIDE DEF first, differs
  <2> DEFINE q == p + first - 1
  <2>6. q \in Nat /\ q <= Len(X) /\ \A j \in 1..q : X[j] = L[j]
    <3>1. CASE first = 1
      BY <1>1, <1>2, <1>3, <3>1
    <3>2. CASE first # 1
      <4>1. first - 1 \in 1..Len(es) /\ p + (first - 1) = q /\ ~(first <= first - 1)
        BY <1>1, <2>3, <3>2
      <4>2. first - 1 \notin differs
        BY <2>2, <4>1
      <4>3. p + (first - 1) <= Len(X) /\ \A j \in 1..(p + (first - 1)) : X[j] = L[j]
        BY <1>4, <4>1, <4>2
      <4> QED BY <1>1, <2>3, <4>1, <4>3
    <3> QED BY <3>1, <3>2
  <2>7. p + first = q + 1 /\ q + 1 <= Len(L) /\ Len(L) - q = Len(es) - first + 1
    BY <1>1, <1>2, <2>3
  <2> DEFINE A == SubSeq(X, 1, q)
             B == SubSeq(es, first, Len(es))
  <2>8. A \in Seq(Entry) /\ Len(A) = q /\ \A j \in 1..q : A[j] = X[j]
    BY <1>1, <2>6
  <2>9. /\ B \in Seq(Entry) /\ Len(B) = Len(es) - first + 1
        /\ \A j \in 1..(Len(es) - first + 1) : B[j] = es[first + j - 1]
    BY <1>1, <2>3
  <2>10. AppendFrom(X, p, es) = A \o B
    BY <2>4
  <2> HIDE DEF A, B, q
  <2>11. \A j \in 1..(Len(L) - q) : B[j] = L[q + j]
    <3> SUFFICES ASSUME NEW j \in 1..(Len(L) - q) PROVE B[j] = L[q + j]
      OBVIOUS
    <3>1. first + j - 1 \in 1..Len(es) /\ p + (first + j - 1) = q + j
      BY <1>1, <2>3, <2>6, <2>7
    <3>2. B[j] = es[first + j - 1]
      BY <2>7, <2>9
    <3> QED BY <1>2, <3>1, <3>2
  <2>12. A \o B = L
    <3>1. A \o B \in Seq(Entry) /\ Len(A \o B) = Len(L)
      BY <1>1, <2>6, <2>7, <2>8, <2>9
    <3>2. ASSUME NEW j \in 1..Len(L) PROVE (A \o B)[j] = L[j]
      <4>1. CASE j <= q
        BY <2>6, <2>8, <2>9, <4>1
      <4>2. CASE j > q
        <5>1. j - q \in 1..(Len(L) - q) /\ q + (j - q) = j
          BY <1>1, <2>6, <3>2, <4>2
        <5>2. (A \o B)[j] = B[j - q]
          BY <1>1, <2>6, <2>7, <2>8, <2>9, <3>2, <4>2
        <5> QED BY <2>11, <5>1, <5>2
      <4>3. j <= q \/ j > q
        BY <1>1, <2>6, <3>2
      <4> QED BY <4>1, <4>2, <4>3, Zenon
    <3> DEFINE N == A \o B
    <3>3. N \in Seq(Entry) /\ Len(N) = Len(L) /\ \A j \in 1..Len(L) : N[j] = L[j]
      BY <3>1, <3>2
    <3> HIDE DEF N
    <3>4. Comparable(N, L)
      BY <1>1, <3>3 DEF Begins, Comparable
    <3>5. N = L
      BY <1>1, <3>3, <3>4, BeginsSame
    <3> QED BY <3>5 DEF N
  <2>13. ~Begins(L, X)
    <3> SUFFICES ASSUME Begins(L, X) PROVE FALSE
      OBVIOUS
    <3>1. Len(L) <= Len(X) /\ X[q + 1] = L[q + 1]
      BY <1>1, <2>6, <2>7 DEF Begins
    <3>2. es[first] = L[q + 1]
      BY <1>2, <2>3, <2>7
    <3> QED BY <1>1, <2>5, <2>6, <2>7, <3>1, <3>2
  <2> QED BY <2>10, <2>12, <2>13 DEF p, es
<1> QED BY <1>5, <1>6

---------------------------------------------------------------------------
(* What every step keeps of the history *)

\* No node goes back to an earlier term.
TermsGrow == \A n \in Node : currentTerm'[n] >= currentTerm[n]

\* Terms that grow and no new winner keep the elections.
LEMMA WinnersKept ==
  ASSUME TypeOK, TypeOK', NEW M, NEW M2, M \subseteq M2, NEW W, WinnersInv(M, W),
         TermsGrow, UNCHANGED elected
  PROVE  WinnersInv(M2, W)'
<1>1. \A n \in Node : currentTerm[n] \in Nat /\ currentTerm'[n] \in Nat
  BY DEF TypeOK
<1>2. ASSUME NEW w \in W, NEW v \in w.voters PROVE currentTerm'[v] >= w.term
  <2>1. v \in Node /\ w.term \in Nat /\ currentTerm[v] >= w.term
    BY <1>2 DEF WinnersInv
  <2> QED BY <1>1, <2>1 DEF TermsGrow
<1> QED BY <1>2 DEF WinnersInv

\* Acknowledgements: a node acknowledges in the term of the log only, and then holds it.
LEMMA AcksKept ==
  ASSUME TypeOK, TypeOK', NEW M, NEW W, NEW A, NEW A2, A \subseteq A2,
         ProposedInv(M, W), WinnersInv(M, W), AcksInv(M, W, A), TermsGrow,
         \A n \in Node, K \in M : LastTerm(K) <= currentTerm[n] /\ Begins(K, logEntries[n])
                                    => Begins(K, logEntries'[n]) \/ Escaped(W, K),
         \A a \in A2 \ A : /\ a \in Node \X M /\ LastTerm(a[2]) >= 1
                           /\ currentTerm'[a[1]] = LastTerm(a[2])
                           /\ Begins(a[2], logEntries'[a[1]])
  PROVE  AcksInv(M, W, A2)'
<1>1. /\ \A n \in Node : currentTerm[n] \in Nat /\ currentTerm'[n] \in Nat
      /\ \A K \in M : LastTerm(K) \in Nat
      /\ \A w \in W : w.term \in Nat
  BY LastTermType DEF TypeOK, ProposedInv, WinnersInv
<1>2. ASSUME NEW a \in A2
      PROVE  /\ a \in Node \X M /\ LastTerm(a[2]) >= 1
             /\ currentTerm'[a[1]] >= LastTerm(a[2])
             /\ Begins(a[2], logEntries'[a[1]]) \/ Escaped(W, a[2])
  <2>1. CASE a \in A
    <3>1. /\ a \in Node \X M /\ LastTerm(a[2]) >= 1 /\ currentTerm[a[1]] >= LastTerm(a[2])
          /\ Begins(a[2], logEntries[a[1]]) \/ Escaped(W, a[2])
      BY <2>1 DEF AcksInv, Kept
    <3>2. a[1] \in Node /\ a[2] \in M
      BY <3>1
    <3>3. currentTerm'[a[1]] >= LastTerm(a[2])
      BY <1>1, <3>1, <3>2 DEF TermsGrow
    <3> QED BY <1>1, <3>1, <3>2, <3>3
  <2>2. CASE a \notin A
    <3>1. a[1] \in Node /\ a[2] \in M
      BY <2>2
    <3> QED BY <1>1, <2>2, <3>1
  <2> QED BY <2>1, <2>2
<1>3. ASSUME NEW K \in M, Escaped(W, K)
      PROVE  \E w \in W : w.term > LastTerm(K) /\ \A v \in w.voters : <<v, K>> \notin A2
  <2>1. PICK w \in W : w.term > LastTerm(K) /\ \A v \in w.voters : <<v, K>> \notin A
    BY <1>3 DEF AcksInv
  <2>2. ASSUME NEW v \in w.voters, <<v, K>> \in A2 PROVE FALSE
    <3>1. v \in Node /\ currentTerm[v] >= w.term
      BY <2>2 DEF WinnersInv
    <3>2. currentTerm'[v] = LastTerm(K)
      <4>1. <<v, K>> \in A2 \ A
        BY <2>1, <2>2
      <4>2. <<v, K>>[1] = v /\ <<v, K>>[2] = K
        OBVIOUS
      <4> QED BY <4>1, <4>2
    <3> QED BY <1>1, <2>1, <3>1, <3>2 DEF TermsGrow
  <2> QED BY <2>1, <2>2
<1>4. ASSUME NEW w \in W, NEW K \in M, LastTerm(K) < w.term
      PROVE  Begins(K, logEntries'[w.node]) \/ Escaped(W, K)
  <2>1. w.node \in Node /\ currentTerm[w.node] >= w.term
    BY DEF WinnersInv
  <2>2. Begins(K, logEntries[w.node]) \/ Escaped(W, K)
    BY <1>4 DEF AcksInv, Kept
  <2> QED BY <1>1, <1>4, <2>1, <2>2
<1>5. \A w \in W, K \in M : LastTerm(K) = w.term => <<w.node, K>> \in A2
  BY DEF AcksInv
<1> QED BY <1>2, <1>3, <1>4, <1>5 DEF AcksInv, Kept, Escaped

\* A node that goes on leading its term, with the log and the match table it had.
LeadsOn(n) ==
  state'[n] = "Leader" =>
    /\ state[n] = "Leader" /\ currentTerm'[n] = currentTerm[n]
    /\ logEntries'[n] = logEntries[n] /\ matchIndex'[n] = matchIndex[n]

\* Leaders that go on as they were keep their promises.
LEMMA NodesInvKept ==
  ASSUME NEW M, NEW W, NEW A, NEW A2, A \subseteq A2, NodesInv(M, W, A),
         \A n \in Node : /\ logEntries'[n] \in M /\ matchIndex'[n][n] = 0 /\ LeadsOn(n)
  PROVE  NodesInv(M, W, A2)'
<1> SUFFICES ASSUME NEW n \in Node, state'[n] = "Leader" PROVE LeaderInv(M, W, A2, n)'
  BY DEF NodesInv
<1>1. LeaderInv(M, W, A, n) /\ LeadsOn(n)
  BY DEF NodesInv, LeadsOn
<1> QED BY <1>1 DEF LeaderInv, LeadsOn

\* A campaign goes on with the log it was started with.
LEMMA CampaignCallKept ==
  ASSUME TypeOK, ElectionInv, NEW M, NEW W, NEW A, NEW A2, A \subseteq A2, AcksInv(M, W, A),
         \A a \in A2 \ A : LastTerm(a[2]) \in Nat
                           /\ LastTerm(a[2]) >= currentTerm[a[1]],
         NEW c \in voteCalls, NEW d, CampaignCall(W, A, c), SameCall(c, d),
         Granted(d) => Granted(c),
         d.stage = "sent" => /\ c.stage = "sent" /\ d.lastIndex = c.lastIndex
                             /\ d.lastTerm = c.lastTerm,
         state'[c.from] = "Candidate" /\ currentTerm'[c.from] = c.term =>
           /\ state[c.from] = "Candidate" /\ currentTerm[c.from] = c.term
           /\ logEntries'[c.from] = logEntries[c.from]
  PROVE  CampaignCall(W, A2, d)'
<1>1. /\ c.from \in Node /\ c.to \in Node /\ c.term \in Nat
      /\ \A n \in Node : currentTerm[n] \in Nat
  BY CallFields DEF TypeOK
<1>2. d.from = c.from /\ d.to = c.to /\ d.term = c.term
  BY DEF SameCall
<1> SUFFICES ASSUME state'[c.from] = "Candidate", currentTerm'[c.from] = c.term
             PROVE  /\ d.term >= 1
                    /\ d.stage = "sent" => /\ d.lastIndex = Len(logEntries'[c.from])
                                           /\ d.lastTerm = LastTerm(logEntries'[c.from])
                    /\ Granted(d) =>
                         /\ \A a \in A2 : a[1] = c.to /\ LastTerm(a[2]) < c.term
                              => Begins(a[2], logEntries'[c.from]) \/ Escaped(W, a[2])
                         /\ \A w \in W :
                              w.term = LastTerm(logEntries'[c.from]) /\ w.term > c.term
                                => c.to \notin w.voters
  BY <1>2 DEF CampaignCall, Kept, Granted, Escaped
<1>3. /\ state[c.from] = "Candidate" /\ currentTerm[c.from] = c.term
      /\ logEntries'[c.from] = logEntries[c.from]
  OBVIOUS
<1>4. d.stage = "sent" => /\ d.lastIndex = Len(logEntries'[c.from])
                          /\ d.lastTerm = LastTerm(logEntries'[c.from])
  BY <1>3 DEF CampaignCall
<1>5. ASSUME Granted(d), NEW a \in A2, a[1] = c.to, LastTerm(a[2]) < c.term
      PROVE  Begins(a[2], logEntries'[c.from]) \/ Escaped(W, a[2])
  <2>1. CASE a \in A
    BY <1>3, <1>5, <2>1 DEF CampaignCall, Kept
  <2>2. CASE a \notin A
    <3>1. currentTerm[c.to] >= c.term
      <4>1. \/ currentTerm[c.to] > c.term
            \/ currentTerm[c.to] = c.term
        BY <1>5 DEF ElectionInv, GrantKept
      <4> QED BY <1>1, <4>1
    <3>2. LastTerm(a[2]) \in Nat /\ LastTerm(a[2]) >= currentTerm[a[1]]
      BY <2>2
    <3> QED BY <1>1, <1>5, <3>1, <3>2
  <2> QED BY <2>1, <2>2
<1>6. Granted(d) => \A w \in W : w.term = LastTerm(logEntries'[c.from]) /\ w.term > c.term
                                   => c.to \notin w.voters
  BY <1>3 DEF CampaignCall
<1>7. Granted(d) => \A a \in A2 : a[1] = c.to /\ LastTerm(a[2]) < c.term
                       => Begins(a[2], logEntries'[c.from]) \/ Escaped(W, a[2])
  BY <1>5
<1>8. d.term >= 1
  BY <1>2, <1>3 DEF CampaignCall
<1> QED BY <1>4, <1>6, <1>7, <1>8

\* A goroutine of a broadcast that does not move keeps its promises, as long as a
\* leader only adds to its log.
Extends(n, t) ==
  Leads(n, t)' => Leads(n, t) /\ Begins(logEntries[n], logEntries'[n])

\* A request on its way while leaders only add to their logs.
LEMMA SentCallKept ==
  ASSUME TypeOK, TypeOK', NEW M, NEW W, ProposedInv(M, W), NEW c \in AppendCalls, SentCall(M, W, c),
         Extends(c.from, c.term)
  PROVE  SentCall(M, W, c)'
<1> SUFFICES ASSUME c.stage = "sent", NEW L \in M,
                    Leads(c.from, c.term) => Begins(L, logEntries[c.from])
             PROVE  Leads(c.from, c.term)' => Begins(L, logEntries'[c.from])
  BY DEF SentCall, Carries, Escaped
<1>1. c.from \in Node /\ L \in Seq(Entry)
  BY DEF AppendCalls, ProposedInv
<1>2. logEntries[c.from] \in Seq(Entry) /\ logEntries'[c.from] \in Seq(Entry)
  BY <1>1 DEF TypeOK
<1> QED BY <1>1, <1>2, BeginsOrder DEF Extends

\* A reply on its way, likewise.
LEMMA RepliedCallKept ==
  ASSUME TypeOK, TypeOK', NEW M, NEW A, NEW A2, A \subseteq A2,
         NEW c \in AppendCalls, RepliedCall(M, A, c),
         Extends(c.from, c.replyTerm), elected \subseteq elected'
  PROVE  RepliedCall(M, A2, c)'
<1>1. c.from \in Node /\ c.match \in Nat
  BY DEF AppendCalls
<1>2. /\ logEntries[c.from] \in Seq(Entry) /\ logEntries'[c.from] \in Seq(Entry)
      /\ Len(logEntries[c.from]) \in Nat /\ Len(logEntries'[c.from]) \in Nat
  BY <1>1 DEF TypeOK
<1> SUFFICES ASSUME c.stage = "replied", c.success
             PROVE  /\ <<c.from, c.replyTerm>> \in elected'
                    /\ Leads(c.from, c.replyTerm)' =>
                         /\ c.match <= Len(logEntries'[c.from])
                         /\ \A K \in M : LastTerm(K) = c.replyTerm /\ Len(K) <= c.match
                                           => <<c.to, K>> \in A2
  BY DEF RepliedCall
<1>3. <<c.from, c.replyTerm>> \in elected'
  BY DEF RepliedCall
<1>4. ASSUME Leads(c.from, c.replyTerm)'
      PROVE  /\ c.match <= Len(logEntries'[c.from])
             /\ \A K \in M : LastTerm(K) = c.replyTerm /\ Len(K) <= c.match => <<c.to, K>> \in A2
  <2>1. Leads(c.from, c.replyTerm) /\ Begins(logEntries[c.from], logEntries'[c.from])
    BY <1>4 DEF Extends
  <2>2. Len(logEntries[c.from]) <= Len(logEntries'[c.from])
    BY <2>1 DEF Begins
  <2> QED BY <1>1, <1>2, <2>1, <2>2 DEF RepliedCall
<1> QED BY <1>3, <1>4

\* A chosen log stays chosen.
LEMMA ChosenGrows ==
  ASSUME NEW A, NEW A2, A \subseteq A2, NEW K, Chosen(A, K)
  PROVE  Chosen(A2, K)
BY DEF Chosen

\* A promised commit index stays promised.
LEMMA CommitCallKept ==
  ASSUME NEW M, NEW M2, NEW A, NEW A2, M \subseteq M2, A \subseteq A2, NEW c, CommitCall(M, A, c)
  PROVE  CommitCall(M2, A2, c)
BY ChosenGrows DEF CommitCall

\* What is committed stays so while the node's log keeps it.
LEMMA CommitNodeKept ==
  ASSUME TypeOK, TypeOK', NEW M, NEW M2, NEW A, NEW A2, M \subseteq M2, A \subseteq A2,
         M \subseteq Seq(Entry), NEW n \in Node, CommitNode(M, A, n),
         TermsGrow, commitIndex'[n] = commitIndex[n], applied'[n] = applied[n],
         commitIndex[n] <= Len(logEntries[n]) =>
           /\ commitIndex[n] <= Len(logEntries'[n])
           /\ \A i \in 1..commitIndex[n] : logEntries'[n][i] = logEntries[n][i]
  PROVE  CommitNode(M2, A2, n)'
<1>1. /\ currentTerm[n] \in Nat /\ currentTerm'[n] \in Nat /\ commitIndex[n] \in Nat
      /\ applied[n] \in Seq(Entry) /\ Len(applied[n]) \in Nat
      /\ Len(logEntries[n]) \in Nat /\ Len(logEntries'[n]) \in Nat
      /\ \A K \in M : LastTerm(K) \in Nat
  <2>1. logEntries[n] \in Seq(Entry) /\ logEntries'[n] \in Seq(Entry) /\ applied[n] \in Seq(Entry)
    BY DEF TypeOK
  <2> QED BY <2>1, LastTermType DEF TypeOK
<1>2. commitIndex[n] <= Len(logEntries[n])
  BY <1>1 DEF CommitNode
<1>3. \/ commitIndex'[n] = 0
      \/ \E K \in M2 : /\ Chosen(A2, K) /\ LastTerm(K) <= currentTerm'[n]
                       /\ commitIndex'[n] <= Len(K) /\ commitIndex'[n] <= Len(logEntries'[n])
                       /\ \A i \in 1..commitIndex'[n] : logEntries'[n][i] = K[i]
  <2>1. CASE commitIndex[n] = 0
    BY <2>1
  <2>2. CASE commitIndex[n] # 0
    <3>1. PICK K \in M : /\ Chosen(A, K) /\ LastTerm(K) <= currentTerm[n]
                         /\ commitIndex[n] <= Len(K) /\ commitIndex[n] <= Len(logEntries[n])
                         /\ \A i \in 1..commitIndex[n] : logEntries[n][i] = K[i]
      BY <2>2 DEF CommitNode
    <3>2. K \in M2 /\ Chosen(A2, K) /\ LastTerm(K) <= currentTerm'[n]
      BY <1>1, <3>1, ChosenGrows DEF TermsGrow
    <3>3. \A i \in 1..commitIndex[n] : logEntries'[n][i] = K[i]
      BY <1>2, <3>1
    <3> QED BY <1>2, <3>1, <3>2, <3>3
  <2> QED BY <2>1, <2>2
<1>4. Len(applied'[n]) <= commitIndex'[n] /\ Begins(applied'[n], logEntries'[n])
  <2>1. Len(applied[n]) <= commitIndex[n] /\ Begins(applied[n], logEntries[n])
    BY DEF CommitNode
  <2>2. Begins(applied[n], logEntries'[n])
    BY <1>1, <1>2, <2>1 DEF Begins
  <2> QED BY <2>1, <2>2
<1> QED BY <1>3, <1>4 DEF CommitNode

\* Candidates stay candidates of their term, with the log they had, or stop.
CandidatesStay ==
  \A n \in Node : state'[n] = "Candidate" =>
    /\ state[n] = "Candidate" /\ currentTerm'[n] = currentTerm[n]
    /\ logEntries'[n] = logEntries[n]

\* No vote is granted, and what is still to be answered was asked before.
NoneGranted ==
  \A d \in voteCalls' : \E c \in voteCalls :
    /\ SameCall(c, d) /\ (Granted(d) => Granted(c))
    /\ d.stage = "sent" => /\ c.stage = "sent" /\ d.lastIndex = c.lastIndex
                           /\ d.lastTerm = c.lastTerm

\* Steps in which no vote is granted keep the campaigns.
LEMMA CampaignsKept ==
  ASSUME TypeOK, ElectionInv, NEW M, NEW W, NEW A, NEW A2, A \subseteq A2,
         HistoryInv(M, W, A),
         \A a \in A2 \ A : LastTerm(a[2]) \in Nat
                           /\ LastTerm(a[2]) >= currentTerm[a[1]],
         CandidatesStay, NoneGranted
  PROVE  \A c \in voteCalls' : CampaignCall(W, A2, c)'
<1> SUFFICES ASSUME NEW d \in voteCalls' PROVE CampaignCall(W, A2, d)'
  OBVIOUS
<1>1. PICK c \in voteCalls :
        /\ SameCall(c, d) /\ (Granted(d) => Granted(c))
        /\ d.stage = "sent" => /\ c.stage = "sent" /\ d.lastIndex = c.lastIndex
                               /\ d.lastTerm = c.lastTerm
  BY DEF NoneGranted
<1>2. CampaignCall(W, A, c) /\ AcksInv(M, W, A)
  BY DEF HistoryInv, CallsInv
<1>3. c.from \in Node
  BY CallFields
<1>4. state'[c.from] = "Candidate" /\ currentTerm'[c.from] = c.term =>
        /\ state[c.from] = "Candidate" /\ currentTerm[c.from] = c.term
        /\ logEntries'[c.from] = logEntries[c.from]
  BY <1>3 DEF CandidatesStay
<1> QED BY <1>1, <1>2, <1>4, CampaignCallKept

\* A goroutine that has ended has no promise to keep.
LEMMA EndedCall ==
  ASSUME NEW M, NEW W, NEW A, NEW d, d.stage \in {"acked", "over"}
  PROVE  SentCall(M, W, d)' /\ RepliedCall(M, A, d)' /\ CommitCall(M, A, d)
BY DEF SentCall, RepliedCall, CommitCall

\* Steps that write to no log and elect nobody.
LEMMA UnwrittenStep ==
  ASSUME TypeOK, TypeOK', NEW M, NEW W, NEW A, HistoryInv(M, W, A),
         TermsGrow, UNCHANGED <<elected, logEntries>>,
         \A n \in Node : state'[n] = "Leader" => /\ state[n] = "Leader"
                                                 /\ currentTerm'[n] = currentTerm[n],
         NodesInv(M, W, A)',
         \A c \in voteCalls' : CampaignCall(W, A, c)',
         \A c \in appendCalls' \ appendCalls :
           SentCall(M, W, c)' /\ RepliedCall(M, A, c)' /\ CommitCall(M, A, c),
         \A n \in Node : CommitNode(M, A, n)'
  PROVE  HistoryInv(M, W, A)'
<1> USE DEF HistoryInv
<1>1. ProposedInv(M, W)' /\ M \subseteq Seq(Entry)
  BY DEF ProposedInv
<1>2. WinnersInv(M, W)'
  BY WinnersKept
<1>3. AcksInv(M, W, A)'
  BY AcksKept
<1>4. CallsInv(M, W, A)'
  <2>1. \A n \in Node, t \in Nat : Extends(n, t)
    <3>1. \A n \in Node : logEntries[n] \in Seq(Entry)
      BY DEF TypeOK
    <3> QED BY <3>1, BeginsOrder DEF Extends, Leads
  <2>2. ASSUME NEW c \in appendCalls'
        PROVE  SentCall(M, W, c)' /\ RepliedCall(M, A, c)' /\ CommitCall(M, A, c)
    <3>1. CASE c \in appendCalls
      <4>1. c \in AppendCalls
        BY <3>1 DEF TypeOK
      <4>2. c.from \in Node /\ c.term \in Nat /\ c.replyTerm \in Nat
        BY <4>1 DEF AppendCalls
      <4>3. SentCall(M, W, c) /\ RepliedCall(M, A, c) /\ CommitCall(M, A, c)
        BY <3>1 DEF CallsInv
      <4> QED BY <2>1, <4>1, <4>2, <4>3, SentCallKept, RepliedCallKept
    <3> QED BY <2>2, <3>1
  <2> QED BY <2>2 DEF CallsInv, CommitCall, Chosen
<1> QED BY <1>1, <1>2, <1>3, <1>4

\* Steps that commit nothing either.
LEMMA QuietStep ==
  ASSUME TypeOK, TypeOK', NEW M, NEW W, NEW A, HistoryInv(M, W, A),
         TermsGrow, UNCHANGED <<elected, logEntries, commitIndex, applied>>,
         \A n \in Node : LeadsOn(n) /\ matchIndex'[n][n] = 0,
         \A c \in voteCalls' : CampaignCall(W, A, c)',
         \A c \in appendCalls' \ appendCalls :
           SentCall(M, W, c)' /\ RepliedCall(M, A, c)' /\ CommitCall(M, A, c)
  PROVE  HistoryInv(M, W, A)'
<1>1. /\ NodesInv(M, W, A) /\ M \subseteq Seq(Entry)
      /\ \A n \in Node : CommitNode(M, A, n)
  BY DEF HistoryInv, ProposedInv
<1>2. NodesInv(M, W, A)'
  <2>1. \A n \in Node : logEntries'[n] \in M
    BY <1>1 DEF NodesInv
  <2> QED BY <1>1, <2>1, NodesInvKept
<1>3. ASSUME NEW n \in Node PROVE CommitNode(M, A, n)'
  BY <1>1, CommitNodeKept
<1>4. \A n \in Node : state'[n] = "Leader" => state[n] = "Leader" /\ currentTerm'[n] = currentTerm[n]
  BY DEF LeadsOn
<1> QED BY <1>2, <1>3, <1>4, UnwrittenStep

---------------------------------------------------------------------------
(* Elections and the history *)

\* What it means that nodes only step down.
LEMMA NodesKeptFacts ==
  ASSUME TypeOK, TypeOK', NodesKept
  PROVE  /\ TermsGrow
         /\ UNCHANGED logEntries => CandidatesStay
         /\ UNCHANGED <<logEntries, matchIndex>> => \A n \in Node : LeadsOn(n)
<1>1. \A n \in Node : currentTerm[n] \in Nat /\ currentTerm'[n] \in Nat
  BY DEF TypeOK
<1> QED BY <1>1 DEF NodesKept, TermsGrow, CandidatesStay, LeadsOn

\* Steps that only depose nodes and move goroutines.
LEMMA CallStep ==
  ASSUME TypeOK, TypeOK', ElectionInv, NEW M, NEW W, NEW A, HistoryInv(M, W, A),
         NodesKept, NoneGranted,
         UNCHANGED <<elected, logEntries, matchIndex, commitIndex, applied>>,
         \A d \in appendCalls' \ appendCalls :
           SentCall(M, W, d)' /\ RepliedCall(M, A, d)' /\ CommitCall(M, A, d)
  PROVE  HistoryInv(M, W, A)'
<1>1. TermsGrow /\ CandidatesStay /\ \A n \in Node : LeadsOn(n)
  BY NodesKeptFacts
<1>2. \A c \in voteCalls' : CampaignCall(W, A, c)'
  <2>1. A \subseteq A /\ \A a \in A \ A : LastTerm(a[2]) \in Nat
                                         /\ LastTerm(a[2]) >= currentTerm[a[1]]
    OBVIOUS
  <2> QED BY <1>1, <2>1, CampaignsKept
<1>3. \A n \in Node : matchIndex'[n][n] = 0
  BY DEF HistoryInv, NodesInv
<1> QED BY <1>1, <1>2, <1>3, QuietStep

\* The goroutines end, or are refused.
LEMMA DeposingStep ==
  ASSUME TypeOK, TypeOK', ElectionInv, NEW M, NEW W, NEW A, HistoryInv(M, W, A),
         NodesKept, NoneGranted,
         UNCHANGED <<elected, logEntries, matchIndex, commitIndex, applied>>,
         \A d \in appendCalls' \ appendCalls :
           d.stage \in {"acked", "over"} \/ (d.stage = "replied" /\ ~d.success)
  PROVE  HistoryInv(M, W, A)'
<1>1. \A d \in appendCalls' \ appendCalls :
        SentCall(M, W, d)' /\ RepliedCall(M, A, d)' /\ CommitCall(M, A, d)
  BY DEF SentCall, RepliedCall, CommitCall
<1> QED BY <1>1, CallStep

\* The steps of a vote goroutine that are not a granted vote.
LEMMA NoVoteGranted ==
  ASSUME TypeOK
  PROVE  /\ UNCHANGED voteCalls => NoneGranted
         /\ \A c \in voteCalls, s \in {"counted", "over", "denied"}, t \in Nat :
              /\ s = "counted" => Granted(c)
              /\ voteCalls' = (voteCalls \ {c}) \cup {[c EXCEPT !.stage = s, !.replyTerm = t]}
              => NoneGranted
<1>1. UNCHANGED voteCalls => NoneGranted
  BY DEF NoneGranted, SameCall
<1>2. ASSUME NEW c \in voteCalls, NEW s \in {"counted", "over", "denied"}, NEW t \in Nat,
             s = "counted" => Granted(c),
             voteCalls' = (voteCalls \ {c}) \cup {[c EXCEPT !.stage = s, !.replyTerm = t]}
      PROVE  NoneGranted
  <2> DEFINE d == [c EXCEPT !.stage = s, !.replyTerm = t]
  <2>1. c \in VoteCalls
    BY DEF TypeOK
  <2>2. SameCall(c, d) /\ d.stage = s
    BY <2>1 DEF SameCall, VoteCalls
  <2>3. voteCalls' = (voteCalls \ {c}) \cup {d}
    BY <1>2
  <2> HIDE DEF d
  <2>4. Granted(d) => Granted(c)
    BY <1>2, <2>2 DEF Granted
  <2> QED BY <2>2, <2>3, <2>4 DEF NoneGranted, SameCall
<1> QED BY <1>1, <1>2

\* A voter that acknowledged a log votes only for a candidate that has it, unless the
\* log is lost already; and nobody who voted in a later term still votes.
LEMMA GrantHistory ==
  ASSUME TypeOK, TypeOK', ElectionInv, NEW M, NEW W, NEW A, HistoryInv(M, W, A),
         NEW c \in voteCalls, HandleRequestVote(c)
  PROVE  HistoryInv(M, W, A)'
<1> DEFINE v == c.to
           newer == c.term > currentTerm[v]
           voted == IF newer THEN None ELSE votedFor[v]
           grant == VoteFree(voted, c.from) /\ LogOK(c.lastIndex, c.lastTerm, logEntries[v])
           denied == [c EXCEPT !.stage = "denied", !.replyTerm = c.term]
           granted == [c EXCEPT !.stage = "granted", !.replyTerm = c.term]
<1>1. /\ c \in VoteCalls /\ v \in Node /\ c.from \in Node /\ c.term \in Nat /\ c.stage = "sent"
      /\ currentTerm[v] \in Nat
      /\ \A n \in Node : currentTerm[n] \in Nat
  BY CallFields DEF HandleRequestVote, TypeOK, VoteCalls
<1>2. /\ UNCHANGED <<peers, elected, logEntries, matchIndex, commitIndex, applied, appendCalls>>
      /\ \/ UNCHANGED nodeVars
         \/ /\ ~(c.term < currentTerm[v])
            /\ state' = [state EXCEPT ![v] = IF newer THEN "Follower" ELSE @]
            /\ currentTerm' = [currentTerm EXCEPT ![v] = c.term]
  BY DEF HandleRequestVote, logVars, leadVars
<1>3. /\ \A n \in Node : \/ currentTerm'[n] = currentTerm[n] /\ state'[n] = state[n]
                         \/ currentTerm'[n] > currentTerm[n] /\ state'[n] = "Follower"
  <2>1. CASE UNCHANGED nodeVars
    BY <2>1 DEF nodeVars
  <2>2. CASE /\ ~(c.term < currentTerm[v])
             /\ state' = [state EXCEPT ![v] = IF newer THEN "Follower" ELSE @]
             /\ currentTerm' = [currentTerm EXCEPT ![v] = c.term]
    <3> HIDE DEF newer
    <3>1. /\ currentTerm'[v] = c.term
          /\ newer => state'[v] = "Follower"
          /\ ~newer => state'[v] = state[v]
      BY <1>1, <2>2 DEF TypeOK
    <3>2. \A n \in Node \ {v} : currentTerm'[n] = currentTerm[n] /\ state'[n] = state[n]
      BY <2>2 DEF TypeOK
    <3>3. newer <=> c.term > currentTerm[v]
      BY DEF newer
    <3>4. c.term = currentTerm[v] \/ newer
      BY <1>1, <2>2, <3>3
    <3> QED BY <3>1, <3>2, <3>3, <3>4
  <2> QED BY <1>2, <2>1, <2>2
<1>4. TermsGrow /\ CandidatesStay /\ \A n \in Node : LeadsOn(n) /\ matchIndex'[n][n] = 0
  <2>1. TermsGrow
    <3>1. \A n \in Node : currentTerm'[n] \in Nat
      BY DEF TypeOK
    <3> QED BY <1>1, <1>3, <3>1 DEF TermsGrow
  <2>2. CandidatesStay
    BY <1>2, <1>3 DEF CandidatesStay
  <2> QED BY <1>2, <1>3, <2>1, <2>2 DEF LeadsOn, HistoryInv, NodesInv
<1>5. ASSUME \A d \in voteCalls' : CampaignCall(W, A, d)' PROVE HistoryInv(M, W, A)'
  BY <1>2, <1>4, <1>5, QuietStep
<1>6. CASE NoneGranted
  <2>1. A \subseteq A /\ \A a \in A \ A : LastTerm(a[2]) \in Nat
                                         /\ LastTerm(a[2]) >= currentTerm[a[1]]
    OBVIOUS
  <2> QED BY <1>4, <1>5, <1>6, <2>1, CampaignsKept
<1>7. CASE /\ ~(c.term < currentTerm[v]) /\ grant
           /\ voteCalls' = (voteCalls \ {c}) \cup {granted}
  <2>1. /\ granted.from = c.from /\ granted.to = v /\ granted.term = c.term
        /\ granted.stage = "granted"
    BY <1>1 DEF VoteCalls
  <2> HIDE DEF granted
  <2>2. ASSUME NEW d \in voteCalls, d # c PROVE CampaignCall(W, A, d)'
    <3>1. CampaignCall(W, A, d) /\ AcksInv(M, W, A)
      BY DEF HistoryInv, CallsInv
    <3>2. d.from \in Node
      BY CallFields
    <3>3. state'[d.from] = "Candidate" /\ currentTerm'[d.from] = d.term =>
            /\ state[d.from] = "Candidate" /\ currentTerm[d.from] = d.term
            /\ logEntries'[d.from] = logEntries[d.from]
      BY <1>4, <3>2 DEF CandidatesStay
    <3>4. A \subseteq A /\ \A a \in A \ A : LastTerm(a[2]) \in Nat
                                           /\ LastTerm(a[2]) >= currentTerm[a[1]]
      OBVIOUS
    <3> QED BY <3>1, <3>3, <3>4, CampaignCallKept DEF SameCall
  <2>3. CampaignCall(W, A, granted)'
    <3> DEFINE n == c.from
               X == logEntries[v]
               Y == logEntries[n]
    <3> SUFFICES ASSUME state'[n] = "Candidate", currentTerm'[n] = c.term
                 PROVE  /\ c.term >= 1
                        /\ \A a \in A : a[1] = v /\ LastTerm(a[2]) < c.term
                             => Begins(a[2], Y) \/ Escaped(W, a[2])
                        /\ \A w \in W : w.term = LastTerm(Y) /\ w.term > c.term
                             => v \notin w.voters
      BY <1>2, <2>1 DEF CampaignCall, Kept, Escaped
    <3>1. state[n] = "Candidate" /\ currentTerm[n] = c.term
      BY <1>1, <1>4 DEF CandidatesStay
    <3>2. c.lastIndex = Len(Y) /\ c.lastTerm = LastTerm(Y) /\ c.term >= 1
      BY <1>1, <3>1 DEF HistoryInv, CallsInv, CampaignCall
    <3>3. /\ X \in M /\ Y \in M /\ X \in Seq(Entry) /\ Y \in Seq(Entry)
          /\ LastTerm(X) \in Nat /\ LastTerm(Y) \in Nat /\ Len(X) \in Nat /\ Len(Y) \in Nat
      <4>1. X \in M /\ Y \in M
        BY <1>1 DEF HistoryInv, NodesInv
      <4>2. X \in Seq(Entry) /\ Y \in Seq(Entry)
        BY <1>1 DEF TypeOK
      <4> QED BY <4>1, <4>2, LastTermType
    <3>4. \/ LastTerm(Y) > LastTerm(X)
          \/ LastTerm(Y) = LastTerm(X) /\ Len(Y) >= Len(X)
      BY <1>7, <3>2 DEF LogOK
    <3> HIDE DEF X, Y
    <3>5. ASSUME NEW a \in A, a[1] = v, ~Escaped(W, a[2]) PROVE Begins(a[2], Y)
      <4> DEFINE K == a[2]
      <4>1. K \in M /\ K \in Seq(Entry) /\ Begins(K, X) /\ LastTerm(K) \in Nat
        <5>1. a \in Node \X M /\ Kept(W, a[1], a[2])
          BY DEF HistoryInv, AcksInv
        <5>2. K \in M /\ Begins(K, X)
          BY <3>5, <5>1 DEF Kept, X
        <5> QED BY <5>2, LastTermType DEF HistoryInv, ProposedInv
      <4>2. ProposedInv(M, W) /\ LastTerm(K) <= LastTerm(X)
        BY <3>3, <4>1, ProposedLogs DEF HistoryInv
      <4>3. CASE LastTerm(Y) = LastTerm(X) /\ Len(Y) >= Len(X)
        <5>1. Comparable(X, Y)
          BY <3>3, <4>2, <4>3 DEF ProposedInv
        <5>2. Begins(X, Y)
          <6>1. CASE Begins(Y, X)
            <7>1. Len(Y) = Len(X)
              BY <3>3, <4>3, <6>1 DEF Begins
            <7>2. X = Y
              BY <3>3, <5>1, <7>1, BeginsSame
            <7> QED BY <6>1, <7>2
          <6> QED BY <5>1, <6>1 DEF Comparable
        <5> QED BY <3>3, <4>1, <5>2, BeginsOrder
      <4>4. CASE LastTerm(Y) > LastTerm(X)
        <5>1. Y # <<>>
          BY <3>3, <4>4 DEF LastTerm, TermAt
        <5>2. PICK w \in W : w.term = LastTerm(Y) /\ Begins(w.log, Y)
          BY <3>3, <4>2, <5>1 DEF ProposedInv
        <5>3. w.term > LastTerm(K)
          BY <3>3, <4>1, <4>2, <4>4, <5>2
        <5>4. Begins(K, w.log)
          BY <3>5, <5>3 DEF Escaped
        <5>5. w.log \in Seq(Entry)
          BY DEF HistoryInv, WinnersInv, ProposedInv
        <5> QED BY <3>3, <4>1, <5>2, <5>4, <5>5, BeginsOrder
      <4> QED BY <3>4, <4>3, <4>4
    <3>6. ASSUME NEW w \in W, w.term > c.term, v \in w.voters PROVE FALSE
      <4>1. currentTerm[v] >= w.term /\ w.term \in Nat
        BY <3>6 DEF HistoryInv, WinnersInv
      <4> QED BY <1>1, <1>7, <3>6, <4>1
    <3> QED BY <3>2, <3>5, <3>6
  <2> QED BY <1>5, <1>7, <2>2, <2>3
<1>8. \/ NoneGranted
      \/ /\ ~(c.term < currentTerm[v]) /\ grant
         /\ voteCalls' = (voteCalls \ {c}) \cup {granted}
  <2>1. CASE c.term < currentTerm[v]
    BY <1>1, <2>1, NoVoteGranted DEF HandleRequestVote
  <2>2. CASE ~(c.term < currentTerm[v]) /\ grant
    BY <2>2 DEF HandleRequestVote
  <2>3. CASE ~(c.term < currentTerm[v]) /\ ~grant
    <3>1. voteCalls' = (voteCalls \ {c}) \cup {denied}
      BY <2>3 DEF HandleRequestVote
    <3> QED BY <1>1, <3>1, NoVoteGranted
  <2> QED BY <2>1, <2>2, <2>3
<1> QED BY <1>6, <1>7, <1>8

\* A new winner only adds to what has escaped.
LEMMA EscapedGrows ==
  ASSUME NEW W, NEW W2, W \subseteq W2
  PROVE  /\ \A K : Escaped(W, K) => Escaped(W2, K)
         /\ \A n, K : Kept(W, n, K) => Kept(W2, n, K)
BY DEF Escaped, Kept

\* The winner of a term has every log that a majority may still acknowledge: its voters
\* have acknowledged no log of an earlier term that it lacks.
LEMMA WinHistory ==
  ASSUME TypeOK, TypeOK', ElectionInv, ElectionInv', LogInv,
         NEW M, NEW W, NEW A, HistoryInv(M, W, A),
         NEW n \in Node, NEW t \in Nat, t >= 1, NEW Q \in SUBSET Node, n \in Q,
         2 * Cardinality(Q) > Cardinality(Node),
         <<n, t>> \notin elected, elected' = elected \cup {<<n, t>>},
         currentTerm'[n] = t, state'[n] = "Leader", TermsGrow, NoneGranted,
         \A m \in Node \ {n} : state'[m] = state[m] /\ currentTerm'[m] = currentTerm[m],
         \A v \in Q : currentTerm'[v] >= t,
         \A v \in Q, a \in A : a[1] = v /\ LastTerm(a[2]) < t => Kept(W, n, a[2]),
         \A v \in Q, w \in W : w.term = LastTerm(logEntries[n]) /\ w.term > t => v \notin w.voters,
         \A p \in Node : matchIndex'[n][p] = 0,
         \A m \in Node \ {n} : matchIndex'[m] = matchIndex[m],
         UNCHANGED <<logEntries, commitIndex, applied, appendCalls>>
  PROVE  \E W2 : HistoryInv(M, W2, A)'
<1>1. /\ ProposedInv(M, W) /\ WinnersInv(M, W) /\ AcksInv(M, W, A) /\ NodesInv(M, W, A)
      /\ CallsInv(M, W, A) /\ \A m \in Node : CommitNode(M, A, m)
  BY DEF HistoryInv
<1>2. PICK L \in M : L = logEntries[n]
  BY <1>1 DEF NodesInv
<1>3. M \subseteq Seq(Entry) /\ \A K \in M : LastTerm(K) \in Nat
  BY <1>1, LastTermType DEF ProposedInv
<1>4. \A m \in Node : currentTerm[m] \in Nat /\ currentTerm'[m] \in Nat
  BY DEF TypeOK
<1>5. \A w \in W : w.term # t
  <2> SUFFICES ASSUME NEW w \in W, w.term = t PROVE FALSE
    OBVIOUS
  <2>1. <<w.node, t>> \in elected
    BY <1>1 DEF WinnersInv
  <2>2. w.node = n
    BY <2>1 DEF ElectionInv, OneLeaderPerTerm
  <2> QED BY <2>1, <2>2
<1>6. \A K \in M : LastTerm(K) # t
  <2> SUFFICES ASSUME NEW K \in M, LastTerm(K) = t PROVE FALSE
    OBVIOUS
  <2>1. K # <<>>
    BY DEF LastTerm, TermAt
  <2> QED BY <1>1, <1>5, <2>1 DEF ProposedInv
<1>7. LastTerm(L) < t
  <2> SUFFICES ASSUME LastTerm(L) > t PROVE FALSE
    BY <1>3, <1>6
  <2>1. L # <<>>
    BY <1>3 DEF LastTerm, TermAt
  <2>2. PICK w \in W : w.term = LastTerm(L)
    BY <1>1, <2>1 DEF ProposedInv
  <2>3. w.voters \in SUBSET Node /\ 2 * Cardinality(w.voters) > Cardinality(Node)
    BY <1>1 DEF WinnersInv
  <2>4. PICK v \in Node : v \in w.voters /\ v \in Q
    BY <2>3, MajoritiesMeet
  <2> QED BY <1>2, <2>2, <2>4
<1>8. PICK x : x = [node |-> n, term |-> t, log |-> L, voters |-> Q]
  OBVIOUS
<1>9. x.node = n /\ x.term = t /\ x.log = L /\ x.voters = Q
  BY <1>8
<1>10. PICK W2 : W2 = W \cup {x}
  OBVIOUS
<1>11. W \subseteq W2 /\ x \in W2 /\ \A w \in W2 : w \in W \/ w = x
  BY <1>10
<1>12. ProposedInv(M, W2)'
  BY <1>1, <1>11 DEF ProposedInv
<1>13. WinnersInv(M, W2)'
  <2>1. \A w \in W2 :
          /\ w.node \in Node /\ w.term \in Nat /\ w.log \in M /\ w.voters \subseteq Node
          /\ w.node \in w.voters /\ 2 * Cardinality(w.voters) > Cardinality(Node)
          /\ LastTerm(w.log) < w.term
          /\ <<w.node, w.term>> \in elected'
    <3> SUFFICES ASSUME NEW w \in W2
                 PROVE  /\ w.node \in Node /\ w.term \in Nat /\ w.log \in M
                        /\ w.voters \subseteq Node /\ w.node \in w.voters
                        /\ 2 * Cardinality(w.voters) > Cardinality(Node)
                        /\ LastTerm(w.log) < w.term
                        /\ <<w.node, w.term>> \in elected'
      OBVIOUS
    <3>1. CASE w \in W
      BY <1>1, <3>1 DEF WinnersInv
    <3>2. CASE w = x
      BY <1>7, <1>9, <3>2
    <3> QED BY <1>11, <3>1, <3>2
  <2>2. ASSUME NEW w \in W2, NEW v \in w.voters PROVE currentTerm'[v] >= w.term
    <3>1. CASE w = x
      BY <1>9, <2>2, <3>1
    <3>2. CASE w \in W
      <4>1. v \in Node /\ currentTerm[v] >= w.term /\ w.term \in Nat
        BY <1>1, <2>2, <3>2 DEF WinnersInv
      <4> QED BY <1>4, <4>1 DEF TermsGrow
    <3> QED BY <1>11, <3>1, <3>2
  <2>3. \A e \in elected' : \E w \in W2 : w.node = e[1] /\ w.term = e[2]
    <3> SUFFICES ASSUME NEW e \in elected' PROVE \E w \in W2 : w.node = e[1] /\ w.term = e[2]
      OBVIOUS
    <3>1. CASE e \in elected
      BY <1>1, <1>11, <3>1 DEF WinnersInv
    <3>2. CASE e = <<n, t>>
      BY <1>9, <1>11, <3>2
    <3> QED BY <3>1, <3>2
  <2>4. \A w, y \in W2 : w.term = y.term => w = y
    BY <1>1, <1>5, <1>9, <1>11 DEF WinnersInv
  <2> QED BY <2>1, <2>2, <2>3, <2>4 DEF WinnersInv
<1>14. AcksInv(M, W2, A)'
  <2>1. ASSUME NEW a \in A
        PROVE  /\ a \in Node \X M /\ LastTerm(a[2]) >= 1
               /\ currentTerm'[a[1]] >= LastTerm(a[2]) /\ Kept(W2, a[1], a[2])
    <3>1. /\ a \in Node \X M /\ LastTerm(a[2]) >= 1
          /\ currentTerm[a[1]] >= LastTerm(a[2]) /\ Kept(W, a[1], a[2])
      BY <1>1 DEF AcksInv
    <3>2. a[1] \in Node /\ LastTerm(a[2]) \in Nat
      BY <1>3, <3>1
    <3>3. currentTerm'[a[1]] >= LastTerm(a[2])
      BY <1>4, <3>1, <3>2 DEF TermsGrow
    <3> QED BY <1>11, <3>1, <3>3, EscapedGrows
  <2>2. ASSUME NEW K \in M, Escaped(W2, K)
        PROVE  \E w \in W2 : w.term > LastTerm(K) /\ \A v \in w.voters : <<v, K>> \notin A
    <3>1. CASE Escaped(W, K)
      BY <1>1, <1>11, <3>1 DEF AcksInv
    <3>2. CASE ~Escaped(W, K)
      <4>1. t > LastTerm(K) /\ ~Begins(K, L)
        BY <1>9, <1>11, <2>2, <3>2 DEF Escaped
      <4>2. ASSUME NEW v \in Q, <<v, K>> \in A PROVE FALSE
        <5>1. <<v, K>>[1] = v /\ <<v, K>>[2] = K
          OBVIOUS
        <5>2. Kept(W, n, K)
          <6>1. LastTerm(K) < t
            BY <1>3, <4>1
          <6> QED BY <4>2, <5>1, <6>1
        <5> QED BY <1>2, <3>2, <4>1, <5>2 DEF Kept
      <4> QED BY <1>9, <1>11, <4>1, <4>2
    <3> QED BY <3>1, <3>2
  <2>3. ASSUME NEW w \in W2, NEW K \in M, LastTerm(K) < w.term PROVE Kept(W2, w.node, K)
    <3>1. CASE w \in W
      <4>1. Kept(W, w.node, K)
        BY <1>1, <2>3, <3>1 DEF AcksInv
      <4> QED BY <1>11, <4>1, EscapedGrows
    <3>2. CASE w = x
      <4>1. CASE Begins(K, L)
        BY <1>2, <1>9, <3>2, <4>1 DEF Kept
      <4>2. CASE ~Begins(K, L)
        <5>1. x.term > LastTerm(K) /\ ~Begins(K, x.log)
          BY <1>3, <1>9, <2>3, <3>2, <4>2
        <5> QED BY <1>11, <5>1 DEF Kept, Escaped
      <4> QED BY <4>1, <4>2
    <3> QED BY <1>11, <3>1, <3>2
  <2>4. \A w \in W2, K \in M : LastTerm(K) = w.term => <<w.node, K>> \in A
    BY <1>1, <1>6, <1>9, <1>11 DEF AcksInv
  <2> QED BY <2>1, <2>2, <2>3, <2>4 DEF AcksInv, Kept, Escaped
<1>15. NodesInv(M, W2, A)'
  <2>1. ASSUME NEW m \in Node PROVE logEntries'[m] \in M /\ matchIndex'[m][m] = 0
    BY <1>1 DEF NodesInv
  <2>2. ASSUME NEW m \in Node, m # n, state'[m] = "Leader" PROVE LeaderInv(M, W2, A, m)'
    <3>1. LeaderInv(M, W, A, m)
      BY <1>1, <2>2 DEF NodesInv
    <3>2. \A w \in W2 : w.node = m => w \in W
      BY <1>9, <1>11, <2>2
    <3>3. /\ logEntries'[m] = logEntries[m] /\ currentTerm'[m] = currentTerm[m]
          /\ matchIndex'[m] = matchIndex[m]
      BY <2>2
    <3> QED BY <3>1, <3>2, <3>3 DEF LeaderInv
  <2>3. LeaderInv(M, W2, A, n)'
    <3>1. logEntries'[n] = L /\ L \in Seq(Entry) /\ Len(L) \in Nat
      BY <1>2, <1>3
    <3>2. Begins(L, L)
      BY <3>1, BeginsOrder
    <3>3. \A w \in W2 : w.term = t => w.log = L
      BY <1>5, <1>9, <1>11
    <3>4. LastTerm(L) <= t
      BY <1>3, <1>7
    <3>5. \A p \in Node : matchIndex'[n][p] <= Len(L)
      BY <3>1
    <3> QED BY <1>6, <3>1, <3>2, <3>3, <3>4, <3>5 DEF LeaderInv
  <2> QED BY <2>1, <2>2, <2>3 DEF NodesInv
<1>16. CallsInv(M, W2, A)'
  <2>1. ASSUME NEW c \in voteCalls' PROVE CampaignCall(W2, A, c)'
    <3>1. CampaignCall(W, A, c)'
      <4>1. CandidatesStay
        BY DEF CandidatesStay
      <4>2. A \subseteq A /\ \A a \in A \ A : LastTerm(a[2]) \in Nat
                                             /\ LastTerm(a[2]) >= currentTerm[a[1]]
        OBVIOUS
      <4> QED BY <4>1, <4>2, CampaignsKept
    <3>2. c.from \in Node
      BY DEF TypeOK, VoteCalls
    <3>3. LastTerm(logEntries'[c.from]) # t
      BY <1>1, <1>6, <3>2 DEF NodesInv
    <3>4. \A w \in W2 : w.term = LastTerm(logEntries'[c.from]) => w \in W
      BY <1>9, <1>11, <3>3
    <3> QED BY <1>11, <3>1, <3>4, EscapedGrows DEF CampaignCall, Kept, Escaped
  <2>2. ASSUME NEW c \in appendCalls
        PROVE  SentCall(M, W2, c)' /\ RepliedCall(M, A, c)' /\ CommitCall(M, A, c)'
    <3>1. c \in AppendCalls /\ c.from \in Node
      BY DEF TypeOK, AppendCalls
    <3>2. SentCall(M, W, c) /\ RepliedCall(M, A, c) /\ CommitCall(M, A, c)
      BY <1>1 DEF CallsInv
    <3>3. ASSUME NEW s \in Nat, <<c.from, s>> \in elected PROVE Extends(c.from, s)
      <4>1. ~(c.from = n /\ s = t)
        BY <3>3
      <4>2. Leads(c.from, s)' => Leads(c.from, s)
        BY <3>1, <4>1 DEF Leads
      <4>3. logEntries[c.from] \in Seq(Entry)
        BY <3>1 DEF TypeOK
      <4> QED BY <4>2, <4>3, BeginsOrder DEF Extends
    <3>4. SentCall(M, W2, c)'
      <4>1. CASE c.stage # "sent"
        BY <4>1 DEF SentCall
      <4>2. CASE c.stage = "sent"
        <5>1. c.term \in Nat /\ <<c.from, c.term>> \in elected
          BY <3>1, <4>2 DEF LogInv, LeadersElected, AppendCalls
        <5>2. SentCall(M, W, c)'
          BY <1>1, <3>1, <3>2, <3>3, <5>1, SentCallKept
        <5> QED BY <1>11, <5>2, EscapedGrows DEF SentCall, Escaped, Carries
      <4> QED BY <4>1, <4>2
    <3>5. RepliedCall(M, A, c)'
      <4>1. CASE ~(c.stage = "replied" /\ c.success)
        BY <4>1 DEF RepliedCall
      <4>2. CASE c.stage = "replied" /\ c.success
        <5>1. c.replyTerm \in Nat /\ <<c.from, c.replyTerm>> \in elected
          BY <3>1, <3>2, <4>2 DEF RepliedCall, AppendCalls
        <5>2. A \subseteq A /\ elected \subseteq elected'
          OBVIOUS
        <5> QED BY <3>1, <3>2, <3>3, <5>1, <5>2, RepliedCallKept
      <4> QED BY <4>1, <4>2
    <3> QED BY <3>2, <3>4, <3>5 DEF CommitCall, Chosen
  <2> QED BY <2>1, <2>2 DEF CallsInv
<1>17. \A m \in Node : CommitNode(M, A, m)'
  BY <1>1, <1>3, CommitNodeKept
<1>18. HistoryInv(M, W2, A)'
  BY <1>12, <1>13, <1>14, <1>15, <1>16, <1>17 DEF HistoryInv
<1> QED BY <1>18

\* campaign: the new candidate asks with the log it has; alone in the cluster, it wins.
LEMMA CampaignHistory ==
  ASSUME TypeOK, TypeOK', ElectionInv, ElectionInv', LogInv,
         NEW M, NEW W, NEW A, HistoryInv(M, W, A),
         NEW n \in Node, NEW expected, NEW heard, Campaign(n, expected, heard),
         UNCHANGED <<peers, logVars, appendCalls>>
  PROVE  \E W2 : HistoryInv(M, W2, A)'
<1>1. PICK t \in Nat : t = currentTerm[n] + 1
  BY DEF TypeOK
<1>2. UNCHANGED <<logEntries, commitIndex, applied>>
  BY DEF logVars
<1>3. CASE UNCHANGED <<nodeVars, leadVars, voteCalls, elected>>
  <2>1. NodesKept /\ NoneGranted /\ UNCHANGED matchIndex
    BY <1>3, NoVoteGranted DEF NodesKept, nodeVars, leadVars
  <2> QED BY <1>2, <1>3, <2>1, DeposingStep
<1>4. CASE ~UNCHANGED <<nodeVars, leadVars, voteCalls, elected>>
  <2>1. /\ currentTerm' = [currentTerm EXCEPT ![n] = t] /\ state[n] # "Leader"
        /\ voteCalls' = {c \in voteCalls : c.from # n \/ Pending(c)}
                          \cup {VoteCall(n, p, t) : p \in peers[n]}
        /\ \/ state' = [state EXCEPT ![n] = "Leader"] /\ peers[n] = {} /\ LeaderState(n, t)
           \/ /\ state' = [state EXCEPT ![n] = "Candidate"]
              /\ UNCHANGED <<leadVars, elected>>
    BY <1>1, <1>4 DEF Campaign
  <2>2. \A m \in Node : currentTerm[m] \in Nat /\ currentTerm'[m] \in Nat
    BY DEF TypeOK
  <2>3. /\ currentTerm'[n] = t /\ t > currentTerm[n] /\ t >= 1
        /\ \A m \in Node \ {n} : currentTerm'[m] = currentTerm[m] /\ state'[m] = state[m]
        /\ state'[n] \in {"Leader", "Candidate"}
    BY <1>1, <2>1, <2>2 DEF TypeOK
  <2>4. TermsGrow
    BY <2>2, <2>3 DEF TermsGrow
  <2>5. CASE state' = [state EXCEPT ![n] = "Leader"] /\ peers[n] = {} /\ LeaderState(n, t)
    <3>1. Node = {n}
      BY <2>5 DEF ElectionInv, PeersFixed
    <3>2. 2 * Cardinality({n}) > Cardinality(Node)
      BY <3>1, FS_Singleton
    <3>3. NoneGranted
      BY <2>1, <2>5 DEF NoneGranted, SameCall
    <3>4. <<n, t>> \notin elected
      BY <2>3, NotYetElected
    <3>5. elected' = elected \cup {<<n, t>>} /\ matchIndex'[n][n] = matchIndex[n][n]
      BY <2>5, <3>1 DEF LeaderState, TypeOK
    <3>6. \A p \in Node : matchIndex'[n][p] = 0
      BY <3>1, <3>5 DEF HistoryInv, NodesInv
    <3>7. state'[n] = "Leader"
      BY <2>5 DEF TypeOK
    <3>8. \A v \in {n}, a \in A : a[1] = v => Kept(W, n, a[2])
      BY DEF HistoryInv, AcksInv
    <3>9. \A v \in {n}, w \in W : w.term > t => v \notin w.voters
      <4> SUFFICES ASSUME NEW w \in W, w.term > t, n \in w.voters PROVE FALSE
        OBVIOUS
      <4>1. currentTerm[n] >= w.term /\ w.term \in Nat
        BY DEF HistoryInv, WinnersInv
      <4> QED BY <2>2, <2>3, <4>1
    <3>10. {n} \in SUBSET Node /\ n \in {n} /\ \A v \in {n} : currentTerm'[v] >= t
      BY <2>3
    <3>11. \A m \in Node \ {n} : matchIndex'[m] = matchIndex[m]
      BY <3>1
    <3> QED BY <1>2, <2>3, <2>4, <3>2, <3>3, <3>4, <3>5, <3>6, <3>7, <3>8, <3>9, <3>10, <3>11,
               WinHistory
  <2>6. CASE state' = [state EXCEPT ![n] = "Candidate"] /\ UNCHANGED <<leadVars, elected>>
    <3>1. state'[n] = "Candidate" /\ UNCHANGED matchIndex
      BY <2>6 DEF TypeOK, leadVars
    <3>2. \A m \in Node : LeadsOn(m) /\ matchIndex'[m][m] = 0
      BY <1>2, <2>3, <3>1 DEF LeadsOn, HistoryInv, NodesInv
    <3>3. ASSUME NEW d \in voteCalls' PROVE CampaignCall(W, A, d)'
      <4>1. CASE d \in voteCalls
        <5>1. d.from \in Node /\ d.term \in Nat
          BY <4>1, CallFields
        <5>2. CASE d.from = n
          <6>1. d.term <= currentTerm[n]
            BY <4>1, <5>2 DEF ElectionInv, CallsAreOld
          <6>2. currentTerm'[n] # d.term
            BY <2>2, <2>3, <5>1, <6>1
          <6> QED BY <5>2, <6>2 DEF CampaignCall
        <5>3. CASE d.from # n
          <6>1. A \subseteq A /\ \A a \in A \ A : LastTerm(a[2]) \in Nat
                                                 /\ LastTerm(a[2]) >= currentTerm[a[1]]
            OBVIOUS
          <6>2. CampaignCall(W, A, d) /\ AcksInv(M, W, A)
            BY <4>1 DEF HistoryInv, CallsInv
          <6>3. state'[d.from] = "Candidate" /\ currentTerm'[d.from] = d.term =>
                  /\ state[d.from] = "Candidate" /\ currentTerm[d.from] = d.term
                  /\ logEntries'[d.from] = logEntries[d.from]
            BY <1>2, <2>3, <5>1, <5>3
          <6> QED BY <4>1, <6>1, <6>2, <6>3, CampaignCallKept DEF SameCall
        <5> QED BY <5>2, <5>3
      <4>2. CASE d \in {VoteCall(n, p, t) : p \in peers[n]}
        <5>1. PICK p \in peers[n] : d = VoteCall(n, p, t)
          BY <4>2
        <5>2. /\ d.from = n /\ d.term = t /\ d.stage = "sent"
              /\ d.lastIndex = Len(logEntries[n]) /\ d.lastTerm = LastTerm(logEntries[n])
          BY <5>1 DEF VoteCall
        <5> QED BY <1>2, <2>3, <5>2 DEF CampaignCall, Granted
      <4> QED BY <2>1, <4>1, <4>2
    <3>4. HistoryInv(M, W, A)'
      BY <1>2, <2>4, <2>6, <3>2, <3>3, QuietStep
    <3> QED BY <3>4
  <2> QED BY <2>1, <2>5, <2>6
<1> QED BY <1>3, <1>4

\* The members that granted n their vote of term t, and n.
Voters(n, t) ==
  {v \in Node : v = n \/ \E d \in voteCalls :
                           Granted(d) /\ d.from = n /\ d.to = v /\ d.term = t}

\* They are a majority when the count of ReceiveVote wins.
LEMMA VotersMajority ==
  ASSUME TypeOK, ElectionInv, NEW c \in voteCalls, c.stage = "granted",
         WinsWith(c), StillCandidate(c.from, c.term)
  PROVE  2 * Cardinality(Voters(c.from, c.term)) > Cardinality(Node)
<1>1. PICK n \in Node, t \in Nat : n = c.from /\ t = c.term
  BY CallFields
<1> DEFINE G == Voters(n, t) \ {n}
           Q == Voters(n, t)
           tally == {d.to : d \in {e \in CampaignOf(c) : e.stage = "counted"}}
           polled == {d.to : d \in CampaignOf(c)}
<1>2. \A d \in voteCalls : d.to \in Node /\ d.from # d.to
  BY CallFields DEF ElectionInv, CallsAreOld
<1>3. tally \cup {c.to} \subseteq G
  BY <1>1, <1>2 DEF CampaignOf, Granted, Voters
<1>4. polled = Node \ {n}
  BY <1>1 DEF CampaignOf, CampaignComplete, ElectionInv, StillCandidate
<1>5. 1 + Cardinality(tally \cup {c.to}) >= Quorum(Node \ {n})
  BY <1>4 DEF WinsWith
<1>6. n \in Q /\ n \notin G /\ Q = G \cup {n} /\ G \subseteq Node
  BY DEF Voters
<1> HIDE DEF G, Q, tally, polled
<1>7. IsFiniteSet(Node) /\ Cardinality(Node) \in Nat
  BY NodeAssumption, FS_CardinalityType
<1>8. Cardinality(Node \ {n}) = Cardinality(Node) - 1 /\ Cardinality(Node) >= 1
  <2>1. Cardinality(Node \ {n}) = Cardinality(Node) - 1 /\ IsFiniteSet(Node \ {n})
    BY <1>7, FS_RemoveElement
  <2>2. Cardinality(Node \ {n}) \in Nat
    BY <2>1, FS_CardinalityType
  <2> QED BY <1>7, <2>1, <2>2
<1>9. IsFiniteSet(G) /\ Cardinality(G) \in Nat
  BY <1>6, <1>7, FS_Subset, FS_CardinalityType
<1>10. /\ Cardinality(tally \cup {c.to}) <= Cardinality(G)
       /\ Cardinality(tally \cup {c.to}) \in Nat
  BY <1>3, <1>9, FS_Subset, FS_CardinalityType
<1>11. Cardinality(Q) = Cardinality(G) + 1
  BY <1>6, <1>9, FS_AddElement
<1>12. 1 + Cardinality(G) >= Cardinality(Node) \div 2 + 1
  BY <1>5, <1>7, <1>8, <1>9, <1>10 DEF Quorum
<1> QED BY <1>1, <1>7, <1>9, <1>11, <1>12 DEF Q

\* A campaign goroutine reads its reply: the candidate wins, or the vote does not count.
LEMMA VoteHistory ==
  ASSUME TypeOK, TypeOK', ElectionInv, ElectionInv', LogInv,
         NEW M, NEW W, NEW A, HistoryInv(M, W, A), NEW c \in voteCalls, ReceiveVote(c)
  PROVE  \E W2 : HistoryInv(M, W2, A)'
<1>1. PICK n \in Node, t \in Nat : n = c.from /\ t = c.term
  BY CallFields
<1>2. c.replyTerm \in Nat /\ c.stage \in {"granted", "denied"}
  BY DEF TypeOK, VoteCalls, ReceiveVote
<1>3. /\ UNCHANGED <<peers, appendCalls, logEntries, commitIndex, applied>>
      /\ NoneGranted
  <2>1. PICK s \in {"counted", "over"} :
          /\ s = "counted" => Granted(c)
          /\ voteCalls' = (voteCalls \ {c}) \cup {[c EXCEPT !.stage = s, !.replyTerm = 0]}
    BY DEF ReceiveVote, Granted
  <2>2. s \in {"counted", "over", "denied"} /\ 0 \in Nat
    OBVIOUS
  <2>3. NoneGranted
    BY <2>1, <2>2, NoVoteGranted
  <2> QED BY <2>3 DEF ReceiveVote, logVars
<1>4. CASE /\ c.stage = "granted" /\ WinsWith(c) /\ StillCandidate(c.from, c.term)
           /\ ~(c.replyTerm > currentTerm[c.from])
  <2>1. /\ state[n] = "Candidate" /\ currentTerm[n] = t
        /\ state' = [state EXCEPT ![n] = "Leader"] /\ LeaderState(n, t)
        /\ UNCHANGED currentTerm
    BY <1>1, <1>4 DEF ReceiveVote, StillCandidate
  <2>2. \A m \in Node : currentTerm[m] \in Nat
    BY DEF TypeOK
  <2>3. PICK Q \in SUBSET Node : Q = Voters(n, t)
    BY DEF Voters
  <2>4. n \in Q /\ 2 * Cardinality(Q) > Cardinality(Node)
    BY <1>1, <1>4, <2>3, VotersMajority DEF Voters
  <2>5. /\ \A d \in voteCalls : CampaignCall(W, A, d)
        /\ \A a \in A : Kept(W, a[1], a[2])
        /\ \A w \in W : w.term \in Nat /\ \A v \in w.voters : currentTerm[v] >= w.term
        /\ \A m \in Node : matchIndex[m][m] = 0
    BY DEF HistoryInv, CallsInv, AcksInv, WinnersInv, NodesInv
  <2>6. ASSUME NEW v \in Q
        PROVE  /\ currentTerm[v] >= t
               /\ \A a \in A : a[1] = v /\ LastTerm(a[2]) < t => Kept(W, n, a[2])
               /\ \A w \in W : w.term = LastTerm(logEntries[n]) /\ w.term > t => v \notin w.voters
    <3>1. CASE v = n
      <4>1. \A w \in W : w.term > t => v \notin w.voters
        BY <2>1, <2>2, <2>5, <3>1
      <4> QED BY <2>1, <2>5, <3>1, <4>1
    <3>2. CASE v # n
      <4>1. PICK d \in voteCalls : Granted(d) /\ d.from = n /\ d.to = v /\ d.term = t
        BY <2>3, <3>2 DEF Voters
      <4>2. currentTerm[v] > t \/ currentTerm[v] = t
        BY <4>1 DEF ElectionInv, GrantKept
      <4>3. CampaignCall(W, A, d)
        BY <2>5
      <4>4. /\ \A a \in A : a[1] = v /\ LastTerm(a[2]) < t => Kept(W, n, a[2])
            /\ \A w \in W : w.term = LastTerm(logEntries[n]) /\ w.term > t => v \notin w.voters
        BY <2>1, <4>1, <4>3 DEF CampaignCall
      <4> QED BY <2>2, <2>3, <4>2, <4>4 DEF Voters
    <3> QED BY <3>1, <3>2
  <2>7. t >= 1
    BY <1>1, <2>1, <2>5 DEF CampaignCall
  <2>8. <<n, t>> \notin elected /\ elected' = elected \cup {<<n, t>>}
    BY <2>1, NotYetElected DEF LeaderState
  <2>9. /\ currentTerm'[n] = t /\ state'[n] = "Leader"
        /\ \A m \in Node \ {n} : state'[m] = state[m] /\ currentTerm'[m] = currentTerm[m]
    BY <2>1 DEF TypeOK
  <2>10. TermsGrow
    BY <2>1, <2>2 DEF TermsGrow
  <2>11. /\ \A p \in Node : matchIndex'[n][p] = 0
         /\ \A m \in Node \ {n} : matchIndex'[m] = matchIndex[m]
    <3>1. /\ matchIndex'[n] = [p \in Node |-> IF p \in peers[n] THEN 0 ELSE matchIndex[n][p]]
          /\ \A m \in Node \ {n} : matchIndex'[m] = matchIndex[m]
      BY <2>1 DEF LeaderState, TypeOK
    <3>2. peers[n] = Node \ {n}
      BY DEF ElectionInv, PeersFixed
    <3> QED BY <2>5, <3>1, <3>2
  <2>12. \A v \in Q : currentTerm'[v] >= t
    BY <2>1, <2>6
  <2>13. \A v \in Q, a \in A : a[1] = v /\ LastTerm(a[2]) < t => Kept(W, n, a[2])
    BY <2>6
  <2>14. \A v \in Q, w \in W :
           w.term = LastTerm(logEntries[n]) /\ w.term > t => v \notin w.voters
    BY <2>6
  <2> QED BY <1>3, <2>4, <2>7, <2>8, <2>9, <2>10, <2>11, <2>12, <2>13, <2>14, WinHistory
<1>5. CASE ~(/\ c.stage = "granted" /\ WinsWith(c) /\ StillCandidate(c.from, c.term)
             /\ ~(c.replyTerm > currentTerm[c.from]))
  <2>1. StepDownIfNewer(n, c.replyTerm) /\ UNCHANGED <<leadVars, elected>>
    BY <1>1, <1>5 DEF ReceiveVote
  <2>2. NodesKept
    BY <1>2, <2>1, StepDownKept
  <2>3. HistoryInv(M, W, A)'
    BY <1>3, <2>1, <2>2, DeposingStep DEF leadVars
  <2> QED BY <2>3
<1> QED BY <1>4, <1>5

\* The steps of the election.
LEMMA ElectionHistory ==
  ASSUME TypeOK, TypeOK', ElectionInv, ElectionInv', LogInv,
         NEW M, NEW W, NEW A, HistoryInv(M, W, A), Election
  PROVE  \E W2 : HistoryInv(M, W2, A)'
<1>1. UNCHANGED <<appendCalls, peers, logVars>>
  BY DEF Election, StartElection, HandlePreVote, FailPreVote, ReceivePreVote,
         HandleRequestVote, ReceiveVote, FailVote
<1>2. UNCHANGED <<logEntries, commitIndex, applied>>
  BY <1>1 DEF logVars
<1>3. ASSUME NodesKept, NoneGranted, UNCHANGED <<leadVars, elected>>
      PROVE  \E W2 : HistoryInv(M, W2, A)'
  <2>1. HistoryInv(M, W, A)'
    BY <1>1, <1>2, <1>3, DeposingStep DEF leadVars
  <2> QED BY <2>1
<1>4. ASSUME UNCHANGED <<nodeVars, leadVars, voteCalls, elected>>
      PROVE  \E W2 : HistoryInv(M, W2, A)'
  <2>1. NodesKept /\ NoneGranted
    BY <1>4, NoVoteGranted DEF NodesKept, nodeVars
  <2> QED BY <1>3, <1>4, <2>1
<1>5. CASE \E n \in Node : StartElection(n)
  BY <1>4, <1>5 DEF StartElection
<1>6. CASE \E v, n \in Node : HandlePreVote(v, n) \/ FailPreVote(n, v)
  BY <1>4, <1>6 DEF HandlePreVote, FailPreVote
<1>7. ASSUME NEW n \in Node, NEW r \in preVote[n].replies, ReceivePreVote(n, r)
      PROVE  \E W2 : HistoryInv(M, W2, A)'
  <2>1. r.term \in Nat
    <3>1. preVote[n].replies \subseteq [from : Node, term : Nat, granted : BOOLEAN]
      BY DEF TypeOK, Round
    <3> QED BY <3>1
  <2>2. \/ StepDownIfNewer(n, r.term) /\ UNCHANGED <<leadVars, voteCalls, elected>>
        \/ UNCHANGED <<nodeVars, leadVars, voteCalls, elected>>
        \/ Campaign(n, preVote[n].term, preVote[n].heard)
    BY <1>7 DEF ReceivePreVote
  <2>3. CASE StepDownIfNewer(n, r.term) /\ UNCHANGED <<leadVars, voteCalls, elected>>
    <3>1. NodesKept /\ NoneGranted
      BY <2>1, <2>3, StepDownKept, NoVoteGranted
    <3> QED BY <1>3, <2>3, <3>1
  <2>4. CASE Campaign(n, preVote[n].term, preVote[n].heard)
    BY <1>1, <2>4, CampaignHistory
  <2> QED BY <1>4, <2>2, <2>3, <2>4
<1>8. ASSUME NEW c \in voteCalls, HandleRequestVote(c) PROVE \E W2 : HistoryInv(M, W2, A)'
  <2>1. HistoryInv(M, W, A)'
    BY <1>8, GrantHistory
  <2> QED BY <2>1
<1>9. ASSUME NEW c \in voteCalls, ReceiveVote(c) PROVE \E W2 : HistoryInv(M, W2, A)'
  BY <1>9, VoteHistory
<1>10. ASSUME NEW c \in voteCalls, FailVote(c) PROVE \E W2 : HistoryInv(M, W2, A)'
  <2>1. "over" \in {"counted", "over", "denied"} /\ 0 \in Nat
    OBVIOUS
  <2>2. NoneGranted
    BY <1>10, <2>1, NoVoteGranted DEF FailVote
  <2>3. NodesKept /\ UNCHANGED <<leadVars, elected>>
    BY <1>10 DEF FailVote, NodesKept, nodeVars
  <2> QED BY <1>3, <2>2, <2>3
<1> QED BY <1>5, <1>6, <1>7, <1>8, <1>9, <1>10 DEF Election

---------------------------------------------------------------------------
(* Replication and the history *)

\* Propose: the leader's new log is the only one that ends in this entry, and the leader
\* is the first to acknowledge it.
LEMMA ProposeHistory ==
  ASSUME ~LateMarshal, TypeOK, TypeOK', ElectionInv, LogInv, NEW M, NEW W, NEW A,
         HistoryInv(M, W, A), NEW n \in Node, Propose(n)
  PROVE  \E M2, A2 : HistoryInv(M2, W, A2)'
<1>1. /\ ProposedInv(M, W) /\ WinnersInv(M, W) /\ AcksInv(M, W, A) /\ NodesInv(M, W, A)
      /\ CallsInv(M, W, A) /\ \A m \in Node : CommitNode(M, A, m)
  BY DEF HistoryInv
<1>2. PICK L \in M : L = logEntries[n]
  BY <1>1 DEF NodesInv
<1>3. /\ M \subseteq Seq(Entry) /\ \A K \in M : LastTerm(K) \in Nat
      /\ L \in Seq(Entry) /\ Len(L) \in Nat
  BY <1>1, LastTermType DEF ProposedInv
<1>4. PICK t \in Nat : t = currentTerm[n]
  BY DEF TypeOK
<1>5. PICK e \in Entry : e = [term |-> t, by |-> n]
  BY DEF Entry
<1>6. PICK K : K = Append(L, e)
  OBVIOUS
<1>7. /\ K \in Seq(Entry) /\ Len(K) = Len(L) + 1 /\ Begins(L, K) /\ LastTerm(K) = t
      /\ \A P \in Seq(Entry) : Begins(P, K) => Begins(P, L) \/ P = K
      /\ Begins(K, K)
  BY <1>3, <1>5, <1>6, BeginsAppend, BeginsOrder
<1>8. /\ state[n] = "Leader"
      /\ logEntries'[n] = K /\ \A m \in Node \ {n} : logEntries'[m] = logEntries[m]
      /\ UNCHANGED <<nodeVars, commitIndex, applied, leadVars, voteCalls, appendCalls, elected>>
  BY <1>2, <1>4, <1>5, <1>6, WrittenAlone DEF Propose, TypeOK
<1>9. UNCHANGED <<state, currentTerm, matchIndex>>
  BY <1>8 DEF nodeVars, leadVars
<1>10. \A m \in Node : /\ currentTerm[m] \in Nat
                       /\ state[m] = "Leader" => <<m, currentTerm[m]>> \in elected
  BY DEF TypeOK, LogInv, LeadersElected
<1>11. \A m \in Node : <<m, t>> \in elected => m = n
  BY <1>4, <1>8, <1>10 DEF ElectionInv, OneLeaderPerTerm
<1>12. LeaderInv(M, W, A, n)
  BY <1>1, <1>8 DEF NodesInv
<1>13. PICK x \in W : x.node = n /\ x.term = t
  BY <1>1, <1>4, <1>8, <1>10 DEF WinnersInv
<1>14. /\ x.log \in M /\ Begins(x.log, L) /\ t >= 1
  <2>1. x.log \in M /\ LastTerm(x.log) < t
    BY <1>1, <1>13 DEF WinnersInv
  <2>2. Begins(x.log, L)
    BY <1>2, <1>4, <1>12, <1>13 DEF LeaderInv
  <2> QED BY <1>3, <2>1, <2>2
<1>15. /\ LastTerm(L) <= t
       /\ \A P \in M : LastTerm(P) = t => Begins(P, L)
       /\ \A p \in Node : /\ matchIndex[n][p] <= Len(L)
                          /\ \A P \in M : LastTerm(P) = t /\ Len(P) <= matchIndex[n][p]
                                            => <<p, P>> \in A
  BY <1>2, <1>4, <1>12 DEF LeaderInv
<1>16. \A P \in M : ~Begins(K, P)
  <2> SUFFICES ASSUME NEW P \in M, Begins(K, P) PROVE FALSE
    OBVIOUS
  <2>1. K \in M
    BY <1>1, <1>7, ProposedLogs
  <2>2. Begins(K, L)
    BY <1>7, <1>15, <2>1
  <2> QED BY <1>3, <1>7, <2>2 DEF Begins
<1>17. K \notin M
  BY <1>7, <1>16
<1>18. ASSUME NEW w \in W, w.term > t PROVE Escaped(W, K)
  <2>1. w.log \in M
    BY <1>1 DEF WinnersInv
  <2> QED BY <1>7, <1>16, <1>18, <2>1 DEF Escaped
<1>19. PICK M2 : M2 = M \cup {K}
  OBVIOUS
<1>20. PICK A2 : A2 = A \cup {<<n, K>>}
  OBVIOUS
<1>21. /\ M \subseteq M2 /\ K \in M2 /\ M2 \subseteq Seq(Entry)
       /\ \A P \in M2 : P \in M \/ P = K
       /\ A \subseteq A2 /\ <<n, K>> \in A2 /\ \A a \in A2 : a \in A \/ a = <<n, K>>
  BY <1>3, <1>7, <1>19, <1>20
<1>22. \A v, P : P # K /\ <<v, P>> \in A2 => <<v, P>> \in A
  <2>1. \A v, P : <<v, P>> = <<n, K>> => P = K
    OBVIOUS
  <2> QED BY <1>21, <2>1
<1>23. \A m \in Node, P \in M : Kept(W, m, P) => Kept(W, m, P)'
  <2> SUFFICES ASSUME NEW m \in Node, NEW P \in M, Begins(P, logEntries[m])
               PROVE  Begins(P, logEntries'[m])
    BY DEF Kept, Escaped
  <2>1. CASE m = n
    BY <1>2, <1>3, <1>7, <1>8, <2>1, BeginsOrder
  <2>2. CASE m # n
    BY <1>8, <2>2
  <2> QED BY <2>1, <2>2
<1>24. ProposedInv(M2, W)'
  <2>1. M2 \subseteq Seq(Entry) /\ <<>> \in M2
    BY <1>1, <1>21 DEF ProposedInv
  <2>2. ASSUME NEW P \in M2, NEW i \in 0..Len(P) PROVE SubSeq(P, 1, i) \in M2
    <3>1. CASE P \in M
      BY <1>1, <1>21, <2>2, <3>1 DEF ProposedInv
    <3>2. CASE P = K
      <4> DEFINE B == SubSeq(P, 1, i)
      <4>1. B \in Seq(Entry) /\ Begins(B, K)
        BY <1>7, <2>2, <3>2, BeginsPrefix
      <4> HIDE DEF B
      <4>2. Begins(B, L) \/ B = K
        BY <1>7, <4>1
      <4>3. B \in M2
        BY <1>1, <1>21, <4>1, <4>2, ProposedLogs
      <4> QED BY <4>3 DEF B
    <3> QED BY <1>21, <3>1, <3>2
  <2>3. ASSUME NEW P \in M, LastTerm(P) = t PROVE Begins(P, K)
    BY <1>3, <1>7, <1>15, <2>3, BeginsOrder
  <2>4. \A P, N \in M2 : LastTerm(P) = LastTerm(N) => Comparable(P, N)
    BY <1>1, <1>7, <1>21, <2>3 DEF ProposedInv, Comparable
  <2>5. ASSUME NEW P \in M, Begins(P, K) PROVE LastTerm(P) <= t
    <3>1. P \in Seq(Entry) /\ Begins(P, L)
      BY <1>3, <1>7, <1>17, <2>5
    <3>2. LastTerm(P) <= LastTerm(L)
      BY <1>1, <3>1, ProposedLogs
    <3> QED BY <1>3, <1>15, <3>2
  <2>6. ASSUME NEW P \in M2, NEW N \in M2, Begins(P, N) PROVE LastTerm(P) <= LastTerm(N)
    <3>1. CASE P \in M /\ N \in M
      BY <1>1, <2>6, <3>1 DEF ProposedInv
    <3>2. CASE P \in M /\ N = K
      BY <1>7, <2>5, <2>6, <3>2
    <3>3. CASE P = K /\ N \in M
      BY <1>16, <2>6, <3>3
    <3>4. CASE P = K /\ N = K
      BY <1>7, <3>4
    <3> QED BY <1>21, <3>1, <3>2, <3>3, <3>4
  <2>7. ASSUME NEW P \in M2, P # <<>>
        PROVE  \E w \in W : w.term = LastTerm(P) /\ Begins(w.log, P)
    <3>1. CASE P \in M
      BY <1>1, <2>7, <3>1 DEF ProposedInv
    <3>2. CASE P = K
      <4>1. Begins(x.log, K)
        BY <1>3, <1>7, <1>14, BeginsOrder
      <4> QED BY <1>7, <1>13, <3>2, <4>1
    <3> QED BY <1>21, <3>1, <3>2
  <2> QED BY <2>1, <2>2, <2>4, <2>6, <2>7 DEF ProposedInv
<1>25. TermsGrow
  <2>1. \A m \in Node : currentTerm[m] \in Nat /\ currentTerm'[m] = currentTerm[m]
    BY <1>9, <1>10
  <2> QED BY <2>1 DEF TermsGrow
<1>26. WinnersInv(M2, W)'
  BY <1>1, <1>8, <1>21, <1>25, WinnersKept
<1>27. AcksInv(M2, W, A2)'
  <2>1. ASSUME NEW a \in A2
        PROVE  /\ a \in Node \X M2 /\ LastTerm(a[2]) >= 1
               /\ currentTerm'[a[1]] >= LastTerm(a[2]) /\ Kept(W, a[1], a[2])'
    <3>1. CASE a \in A
      <4>1. /\ a \in Node \X M /\ LastTerm(a[2]) >= 1
            /\ currentTerm[a[1]] >= LastTerm(a[2]) /\ Kept(W, a[1], a[2])
        BY <1>1, <3>1 DEF AcksInv
      <4>2. a[1] \in Node /\ a[2] \in M /\ a \in Node \X M2
        BY <1>21, <4>1
      <4> QED BY <1>9, <1>23, <4>1, <4>2
    <3>2. CASE a = <<n, K>>
      <4>1. a[1] = n /\ a[2] = K /\ a \in Node \X M2
        BY <1>21, <3>2
      <4>2. currentTerm'[n] >= t
        BY <1>4, <1>9
      <4> QED BY <1>7, <1>8, <1>14, <4>1, <4>2 DEF Kept
    <3> QED BY <1>21, <3>1, <3>2
  <2>2. ASSUME NEW P \in M2, Escaped(W, P)
        PROVE  \E w \in W : w.term > LastTerm(P) /\ \A v \in w.voters : <<v, P>> \notin A2
    <3>1. CASE P \in M
      <4>1. P # K
        BY <1>17, <3>1
      <4> QED BY <1>1, <1>22, <2>2, <3>1, <4>1 DEF AcksInv
    <3>2. CASE P = K
      <4>1. PICK w \in W : w.term > t
        BY <1>7, <2>2, <3>2 DEF Escaped
      <4>2. ASSUME NEW v \in w.voters, <<v, K>> \in A2 PROVE FALSE
        <5>1. <<v, K>> \notin A
          BY <1>1, <1>17 DEF AcksInv
        <5>2. v = n
          BY <1>21, <4>2, <5>1
        <5>3. currentTerm[n] >= w.term /\ w.term \in Nat
          BY <1>1, <4>2, <5>2 DEF WinnersInv
        <5> QED BY <1>4, <4>1, <5>3
      <4> QED BY <1>7, <3>2, <4>1, <4>2
    <3> QED BY <1>21, <3>1, <3>2
  <2>3. ASSUME NEW w \in W, NEW P \in M2, LastTerm(P) < w.term PROVE Kept(W, w.node, P)'
    <3>1. CASE P \in M
      BY <1>1, <1>23, <2>3, <3>1 DEF AcksInv, WinnersInv
    <3>2. CASE P = K
      <4>1. w.term > t
        BY <1>1, <1>7, <2>3, <3>2 DEF WinnersInv
      <4> QED BY <1>18, <3>2, <4>1 DEF Kept, Escaped
    <3> QED BY <1>21, <3>1, <3>2
  <2>4. ASSUME NEW w \in W, NEW P \in M2, LastTerm(P) = w.term PROVE <<w.node, P>> \in A2
    <3>1. CASE P \in M
      BY <1>1, <1>21, <2>4, <3>1 DEF AcksInv
    <3>2. CASE P = K
      <4>1. w = x
        BY <1>1, <1>7, <1>13, <2>4, <3>2 DEF WinnersInv
      <4> QED BY <1>13, <1>21, <3>2, <4>1
    <3> QED BY <1>21, <3>1, <3>2
  <2> QED BY <2>1, <2>2, <2>3, <2>4 DEF AcksInv, Kept, Escaped
<1>28. NodesInv(M2, W, A2)'
  <2>1. ASSUME NEW m \in Node PROVE logEntries'[m] \in M2 /\ matchIndex'[m][m] = 0
    <3>1. matchIndex'[m][m] = 0
      BY <1>1, <1>9 DEF NodesInv
    <3>2. CASE m = n
      BY <1>8, <1>21, <3>1, <3>2
    <3>3. CASE m # n
      BY <1>1, <1>8, <1>21, <3>1, <3>3 DEF NodesInv
    <3> QED BY <3>2, <3>3
  <2>2. ASSUME NEW m \in Node, m # n, state[m] = "Leader" PROVE LeaderInv(M2, W, A2, m)'
    <3>1. LeaderInv(M, W, A, m) /\ logEntries'[m] = logEntries[m]
      BY <1>1, <1>8, <2>2 DEF NodesInv
    <3>2. currentTerm[m] # t
      BY <1>10, <1>11, <2>2
    <3>3. \A P \in M2 : LastTerm(P) = currentTerm[m] => P \in M
      BY <1>7, <1>21, <3>2
    <3> QED BY <1>9, <1>21, <3>1, <3>3 DEF LeaderInv
  <2>3. LeaderInv(M2, W, A2, n)'
    <3>1. LastTerm(K) <= t
      BY <1>7
    <3>2. \A w \in W : w.term = t => Begins(w.log, K)
      <4>1. \A w \in W : w.term = t => w = x
        BY <1>1, <1>13 DEF WinnersInv
      <4>2. Begins(x.log, K)
        BY <1>3, <1>7, <1>14, BeginsOrder
      <4> QED BY <4>1, <4>2
    <3>3. \A P \in M2 : LastTerm(P) = t => Begins(P, K)
      <4> SUFFICES ASSUME NEW P \in M, LastTerm(P) = t PROVE Begins(P, K)
        BY <1>7, <1>21
      <4> QED BY <1>3, <1>7, <1>15, BeginsOrder
    <3>4. ASSUME NEW p \in Node
          PROVE  /\ matchIndex[n][p] <= Len(K)
                 /\ \A P \in M2 : LastTerm(P) = t /\ Len(P) <= matchIndex[n][p]
                                    => <<p, P>> \in A2
      <4>1. matchIndex[n][p] \in Nat
        BY DEF TypeOK
      <4>2. matchIndex[n][p] <= Len(L)
        BY <1>15
      <4>3. matchIndex[n][p] <= Len(K) /\ ~(Len(K) <= matchIndex[n][p])
        BY <1>3, <1>7, <4>1, <4>2
      <4> QED BY <1>15, <1>21, <4>3
    <3> QED BY <1>4, <1>8, <1>9, <3>1, <3>2, <3>3, <3>4 DEF LeaderInv
  <2> QED BY <1>9, <2>1, <2>2, <2>3 DEF NodesInv
<1>29. CallsInv(M2, W, A2)'
  <2>1. ASSUME NEW c \in voteCalls PROVE CampaignCall(W, A2, c)'
    <3>1. CampaignCall(W, A, c) /\ c.from \in Node
      BY <1>1, CallFields DEF CallsInv
    <3>2. \A a \in A2 \ A : LastTerm(a[2]) \in Nat /\ LastTerm(a[2]) >= currentTerm[a[1]]
      BY <1>4, <1>7, <1>21
    <3>3. state'[c.from] = "Candidate" /\ currentTerm'[c.from] = c.term =>
            /\ state[c.from] = "Candidate" /\ currentTerm[c.from] = c.term
            /\ logEntries'[c.from] = logEntries[c.from]
      BY <1>8, <1>9, <3>1
    <3> QED BY <1>1, <1>21, <3>1, <3>2, <3>3, CampaignCallKept DEF SameCall
  <2>2. ASSUME NEW c \in appendCalls
        PROVE  SentCall(M2, W, c)' /\ RepliedCall(M2, A2, c)' /\ CommitCall(M2, A2, c)
    <3>1. c \in AppendCalls
      BY DEF TypeOK
    <3>2. c.from \in Node /\ c.term \in Nat /\ c.replyTerm \in Nat /\ c.match \in Nat
      BY <3>1 DEF AppendCalls
    <3>3. SentCall(M, W, c) /\ RepliedCall(M, A, c) /\ CommitCall(M, A, c)
      BY <1>1 DEF CallsInv
    <3>4. \A m \in Node, s \in Nat : Extends(m, s)
      <4>1. \A m \in Node : logEntries[m] \in Seq(Entry)
        BY DEF TypeOK
      <4>2. \A m \in Node : Begins(logEntries[m], logEntries'[m])
        BY <1>2, <1>7, <1>8, <4>1, BeginsOrder
      <4> QED BY <1>9, <4>2 DEF Extends, Leads
    <3>5. CommitCall(M2, A2, c)
      BY <1>21, <3>3, CommitCallKept
    <3>6. RepliedCall(M2, A2, c)'
      <4>1. RepliedCall(M, A2, c)'
        BY <1>8, <1>21, <3>1, <3>2, <3>3, <3>4, RepliedCallKept
      <4>2. ASSUME c.stage = "replied", c.success, Leads(c.from, c.replyTerm)',
                   LastTerm(K) = c.replyTerm, Len(K) <= c.match
            PROVE  FALSE
        <5>1. c.from = n /\ Leads(n, t)
          BY <1>4, <1>7, <1>8, <1>9, <1>10, <1>11, <3>2, <4>2 DEF Leads
        <5>2. c.match <= Len(L)
          BY <1>2, <1>7, <3>3, <4>2, <5>1 DEF RepliedCall
        <5> QED BY <1>3, <1>7, <3>2, <4>2, <5>2
      <4> QED BY <1>21, <4>1, <4>2 DEF RepliedCall
    <3>7. SentCall(M2, W, c)'
      <4>1. SentCall(M, W, c)'
        BY <1>1, <3>1, <3>2, <3>3, <3>4, SentCallKept
      <4>2. ASSUME c.stage = "sent", NEW P \in M, LastTerm(K) <= c.term,
                   Leads(c.from, c.term)' => Begins(P, logEntries'[c.from])
            PROVE  Comparable(K, P) \/ Escaped(W, K)
        <5>1. <<c.from, c.term>> \in elected
          BY <4>2 DEF LogInv, LeadersElected
        <5>2. CASE c.term = t
          <6>1. c.from = n
            BY <1>11, <3>2, <5>1, <5>2
          <6>2. Begins(P, K)
            BY <1>4, <1>8, <1>9, <4>2, <5>2, <6>1 DEF Leads
          <6> QED BY <6>2 DEF Comparable
        <5>3. CASE c.term > t
          <6>1. PICK w \in W : w.term = c.term
            BY <1>1, <5>1 DEF WinnersInv
          <6> QED BY <1>18, <5>3, <6>1
        <5> QED BY <1>7, <3>2, <4>2, <5>2, <5>3
      <4>3. CASE c.stage # "sent" \/ (c.prevIndex > 0 /\ c.prevTerm = 0 /\ c.entries = <<>>)
        BY <4>3 DEF SentCall
      <4>4. CASE ~(c.stage # "sent" \/ (c.prevIndex > 0 /\ c.prevTerm = 0 /\ c.entries = <<>>))
        <5>1. PICK P \in M : /\ Carries(c, P)
                             /\ \A N \in M : LastTerm(N) <= c.term => Comparable(N, P) \/ Escaped(W, N)
                             /\ Leads(c.from, c.term)' => Begins(P, logEntries'[c.from])
          BY <4>1, <4>4 DEF SentCall, Escaped, Carries
        <5>2. \A N \in M2 : LastTerm(N) <= c.term => Comparable(N, P) \/ Escaped(W, N)
          BY <1>21, <4>2, <4>4, <5>1
        <5> QED BY <1>21, <5>1, <5>2 DEF SentCall, Escaped, Carries
      <4> QED BY <4>3, <4>4
    <3> QED BY <3>5, <3>6, <3>7
  <2> QED BY <1>8, <2>1, <2>2 DEF CallsInv, CommitCall, Chosen
<1>30. ASSUME NEW m \in Node PROVE CommitNode(M2, A2, m)'
  <2>1. commitIndex[m] \in Nat
    BY DEF TypeOK
  <2>2. commitIndex[m] <= Len(logEntries[m]) =>
          /\ commitIndex[m] <= Len(logEntries'[m])
          /\ \A i \in 1..commitIndex[m] : logEntries'[m][i] = logEntries[m][i]
    <3>1. CASE m = n
      BY <1>2, <1>3, <1>7, <1>8, <2>1, <3>1 DEF Begins
    <3>2. CASE m # n
      BY <1>8, <3>2
    <3> QED BY <3>1, <3>2
  <2> QED BY <1>1, <1>3, <1>8, <1>21, <1>25, <2>2, CommitNodeKept
<1>31. HistoryInv(M2, W, A2)'
  BY <1>24, <1>26, <1>27, <1>28, <1>29, <1>30 DEF HistoryInv
<1> QED BY <1>31

\* The commit index that a request carries is reached by its sender and by the log it
\* carries: a follower that takes it never goes back.
CommitsReach ==
  \A c \in appendCalls :
    /\ c.stage = "spawned" => c.commit <= c.logLen /\ c.commit <= commitIndex[c.from]
    /\ c.stage = "sent" => c.commit <= c.prevIndex + Len(c.entries)

\* The commit index of a node covers entries of its log only.
LEMMA CommitInLog ==
  ASSUME TypeOK, NEW M, NEW A, NEW n \in Node, CommitNode(M, A, n)
  PROVE  commitIndex[n] <= Len(logEntries[n])
BY DEF CommitNode, TypeOK

\* A broadcast promises what its sender has committed.
LEMMA BroadcastHistory ==
  ASSUME TypeOK, TypeOK', ElectionInv, NEW M, NEW W, NEW A, HistoryInv(M, W, A),
         NEW n \in Node, NEW s \in Slot, Broadcast(n, s)
  PROVE  HistoryInv(M, W, A)'
<1>1. /\ UNCHANGED <<nodeVars, elected, logEntries, matchIndex, commitIndex, applied, voteCalls>>
      /\ appendCalls' = appendCalls \cup {AppendCall(n, p, s) : p \in peers[n]}
  BY DEF Broadcast, logVars, leadVars
<1>2. NodesKept /\ NoneGranted
  BY <1>1, NoVoteGranted DEF NodesKept, nodeVars
<1>3. ASSUME NEW d \in appendCalls' \ appendCalls
      PROVE  SentCall(M, W, d)' /\ RepliedCall(M, A, d)' /\ CommitCall(M, A, d)
  <2>1. PICK p \in peers[n] : d = AppendCall(n, p, s)
    BY <1>1
  <2>2. /\ d.stage = "spawned" /\ d.commit = commitIndex[n] /\ d.term = currentTerm[n]
    BY <2>1 DEF AppendCall
  <2>3. CommitNode(M, A, n)
    BY DEF HistoryInv
  <2> QED BY <2>2, <2>3 DEF SentCall, RepliedCall, CommitCall, CommitNode
<1> QED BY <1>1, <1>2, <1>3, CallStep

\* What a broadcast goroutine reads is the log of a node that has won the term of the
\* request, now or since; it may have been deposed, and its log cut.
LEMMA BuildHistory ==
  ASSUME TypeOK, TypeOK', ElectionInv, LogInv, NEW M, NEW W, NEW A, HistoryInv(M, W, A),
         NEW c \in appendCalls, BuildAppend(c)
  PROVE  HistoryInv(M, W, A)'
<1> DEFINE n == c.from
           log == logEntries[n]
           ni == IF nextIndex[n][c.to] = 0 THEN 1 ELSE nextIndex[n][c.to]
           sent == [c EXCEPT !.stage = "sent", !.prevIndex = ni - 1,
                      !.prevTerm = IF ni - 1 <= Len(log) THEN TermAt(log, ni - 1) ELSE 0,
                      !.entries = IF ni <= c.logLen THEN SubSeq(log, ni, Len(log)) ELSE <<>>,
                      !.logLen = 0]
           panics == ni <= c.logLen /\ ni > Len(log) + 1
<1>1. c \in AppendCalls /\ n \in Node /\ c.to \in Node /\ c.logLen \in Nat /\ c.term \in Nat
  BY DEF TypeOK, AppendCalls
<1>2. log \in Seq(Entry) /\ Len(log) \in Nat /\ ni \in Nat /\ ni >= 1
  <2>1. log \in Seq(Entry) /\ nextIndex[n] \in [Node -> Nat]
    BY <1>1 DEF TypeOK
  <2>2. nextIndex[n][c.to] \in Nat
    BY <1>1, <2>1
  <2> QED BY <2>1, <2>2
<1>3. /\ UNCHANGED <<nodeVars, elected, logEntries, matchIndex, commitIndex, applied, voteCalls>>
      /\ c.stage = "spawned"
  BY DEF BuildAppend, logVars, leadVars
<1>4. NodesKept /\ NoneGranted
  BY <1>3, NoVoteGranted DEF NodesKept, nodeVars
<1>5. CASE panics
  <2>1. ReplaceCall(c, EndedAs(c, "over"))
    BY <1>5 DEF BuildAppend
  <2>2. \A d \in appendCalls' \ appendCalls : d.stage \in {"acked", "over"}
    BY <1>1, <2>1, ReplaceCallAdds, EndedFields
  <2> QED BY <1>3, <1>4, <2>2, DeposingStep
<1>6. CASE ~panics
  <2>1. ReplaceCall(c, sent)
    BY <1>6 DEF BuildAppend
  <2>2. PICK d : d = sent
    OBVIOUS
  <2>3. /\ d.from = n /\ d.term = c.term /\ d.stage = "sent" /\ d.commit = c.commit
        /\ d.prevIndex = ni - 1
        /\ d.prevTerm = (IF ni - 1 <= Len(log) THEN TermAt(log, ni - 1) ELSE 0)
        /\ d.entries = (IF ni <= c.logLen THEN SubSeq(log, ni, Len(log)) ELSE <<>>)
    BY <1>1, <2>2 DEF AppendCalls
  <2>4. appendCalls' \subseteq appendCalls \cup {d}
    BY <2>1, <2>2, ReplaceCallAdds
  <2>5. ~(ni <= c.logLen /\ ni > Len(log) + 1)
    BY <1>6
  <2>6. PICK p \in Nat : p = ni - 1
    BY <1>2
  <2> HIDE DEF sent, panics, ni
  <2>7. CommitCall(M, A, d) /\ RepliedCall(M, A, d)'
    <3>1. CommitCall(M, A, c)
      BY DEF HistoryInv, CallsInv
    <3> QED BY <1>3, <2>3, <3>1 DEF CommitCall, RepliedCall
  <2>8. SentCall(M, W, d)
    <3>1. CASE p > Len(log)
      <4>1. d.prevTerm = 0 /\ d.prevIndex > 0
        BY <1>2, <2>3, <2>6, <3>1
      <4>2. d.entries = <<>>
        BY <1>1, <1>2, <2>3, <2>5, <2>6, <3>1
      <4> QED BY <4>1, <4>2 DEF SentCall
    <3>2. CASE p <= Len(log)
      <4>1. d.prevIndex = p /\ d.prevTerm = TermAt(log, p)
        BY <2>3, <2>6, <3>2
      <4>2. PICK k \in 0..Len(log) :
              /\ k = p + Len(d.entries) /\ p <= k
              /\ \A i \in 1..Len(d.entries) : d.entries[i] = log[p + i]
        <5>1. CASE d.entries = <<>>
          <6>1. p = p + Len(d.entries) /\ p \in 0..Len(log) /\ Len(d.entries) = 0
            BY <1>2, <3>2, <5>1
          <6> QED BY <6>1
        <5>2. CASE d.entries = SubSeq(log, p + 1, Len(log))
          <6>1. /\ Len(d.entries) = Len(log) - p
                /\ \A i \in 1..(Len(log) - p) : d.entries[i] = log[p + i]
            BY <1>2, <3>2, <5>2
          <6>2. Len(log) = p + Len(d.entries) /\ Len(log) \in 0..Len(log)
            BY <1>2, <6>1
          <6> QED BY <3>2, <6>1, <6>2
        <5>3. ni = p + 1
          BY <1>2, <2>6
        <5> QED BY <2>3, <5>1, <5>2, <5>3
      <4>3. PICK L : L = SubSeq(log, 1, k)
        OBVIOUS
      <4>4. /\ L \in Seq(Entry) /\ Len(L) = k /\ Begins(L, log)
            /\ \A j \in 1..k : L[j] = log[j]
        BY <1>2, <4>2, <4>3, BeginsPrefix
      <4>5. L \in M
        <5>1. log \in M /\ ProposedInv(M, W)
          BY <1>1 DEF HistoryInv, NodesInv
        <5> QED BY <4>4, <5>1, ProposedLogs
      <4>6. Carries(d, L)
        <5>1. Len(d.entries) \in Nat
          BY <1>2, <4>2, <2>3
        <5>2. TermAt(L, p) = TermAt(log, p)
          <6>1. p # 0 => p \in 1..k
            BY <4>2
          <6> QED BY <4>4, <6>1 DEF TermAt
        <5>3. \A i \in 1..Len(d.entries) : d.entries[i] = L[p + i]
          <6> SUFFICES ASSUME NEW i \in 1..Len(d.entries) PROVE d.entries[i] = L[p + i]
            OBVIOUS
          <6>1. p + i \in 1..k
            BY <4>2, <5>1
          <6> QED BY <4>2, <4>4, <6>1
        <5> QED BY <4>1, <4>2, <4>4, <5>2, <5>3 DEF Carries
      <4>7. ASSUME NEW K \in M, LastTerm(K) <= d.term, ~Escaped(W, K) PROVE Comparable(K, L)
        <5>1. PICK w \in W : w.node = n /\ w.term = c.term
          <6>1. <<n, c.term>> \in elected
            BY <1>3 DEF LogInv, LeadersElected
          <6> QED BY <6>1 DEF HistoryInv, WinnersInv
        <5>2. Kept(W, n, K)
          <6>1. CASE LastTerm(K) < c.term
            BY <5>1, <6>1 DEF HistoryInv, AcksInv
          <6>2. CASE LastTerm(K) = c.term
            <7>1. <<n, K>> \in A
              BY <5>1, <6>2 DEF HistoryInv, AcksInv
            <7>2. <<n, K>>[1] = n /\ <<n, K>>[2] = K
              OBVIOUS
            <7> QED BY <7>1, <7>2 DEF HistoryInv, AcksInv
          <6>3. LastTerm(K) \in Nat
            BY LastTermType DEF HistoryInv, ProposedInv
          <6> QED BY <1>1, <2>3, <4>7, <6>1, <6>2, <6>3
        <5>3. Begins(K, log) /\ K \in Seq(Entry)
          BY <4>7, <5>2 DEF Kept, HistoryInv, ProposedInv
        <5> QED BY <1>2, <4>4, <5>3, BeginsOrder
      <4>8. \A K \in M : LastTerm(K) <= d.term => Comparable(K, L) \/ Escaped(W, K)
        BY <4>7
      <4> QED BY <2>3, <4>4, <4>5, <4>6, <4>8 DEF SentCall
    <3>3. p > Len(log) \/ p <= Len(log)
      BY <1>2
    <3> QED BY <3>1, <3>2, <3>3
  <2>9. SentCall(M, W, d)'
    <3>1. UNCHANGED <<state, currentTerm, logEntries>>
      BY <1>3 DEF nodeVars
    <3> QED BY <2>8, <3>1 DEF SentCall, Carries, Escaped, Leads
  <2> QED BY <1>3, <1>4, <2>4, <2>7, <2>9, CallStep
<1> QED BY <1>5, <1>6

\* What a majority has acknowledged is never lost.
LEMMA ChosenKept ==
  ASSUME NEW M, NEW W, NEW A, WinnersInv(M, W), AcksInv(M, W, A), NEW K \in M, Chosen(A, K)
  PROVE  ~Escaped(W, K)
<1> SUFFICES ASSUME Escaped(W, K) PROVE FALSE
  OBVIOUS
<1>1. PICK w \in W : \A v \in w.voters : <<v, K>> \notin A
  BY DEF AcksInv
<1>2. w.voters \in SUBSET Node /\ 2 * Cardinality(w.voters) > Cardinality(Node)
  BY DEF WinnersInv
<1>3. PICK Q \in SUBSET Node : 2 * Cardinality(Q) > Cardinality(Node) /\ \A v \in Q : <<v, K>> \in A
  BY DEF Chosen
<1>4. PICK v \in Node : v \in w.voters /\ v \in Q
  BY <1>2, <1>3, MajoritiesMeet
<1> QED BY <1>1, <1>3, <1>4

\* The requests that are read when the log they carry is not there to be matched: none.
LEMMA BogusRefused ==
  ASSUME TypeOK, NEW M, NEW W, ProposedInv(M, W), WinnersInv(M, W), NEW X \in M,
         NEW i \in Nat, i > 0, PrevMatches(X, i, 0)
  PROVE  FALSE
<1>1. X \in Seq(Entry) /\ i \in 0..Len(X) /\ TermAt(X, i) = 0
  BY DEF ProposedInv, PrevMatches
<1>2. PICK P : P = SubSeq(X, 1, i)
  OBVIOUS
<1>3. P \in M /\ Len(P) = i /\ LastTerm(P) = 0
  BY <1>1, <1>2, BeginsPrefix DEF ProposedInv
<1>4. PICK w \in W : w.term = 0
  <2>1. P # <<>>
    BY <1>3
  <2> QED BY <1>3, <2>1 DEF ProposedInv
<1>5. LastTerm(w.log) \in Nat /\ LastTerm(w.log) < 0
  BY <1>4, LastTermType DEF WinnersInv, ProposedInv
<1> QED BY <1>5

\* HandleAppendEntries where the previous entry matches: the follower's log becomes, or
\* begins with, the one the request carries.
LEMMA AcceptHistory ==
  ASSUME ~LateMarshal, TypeOK, TypeOK', ElectionInv, LogInv, CommitsReach,
         NEW M, NEW W, NEW A, HistoryInv(M, W, A), NEW c \in appendCalls,
         HandleAppendEntries(c), ~Outdated(c),
         PrevMatches(logEntries[c.to], c.prevIndex, c.prevTerm)
  PROVE  \E A2 : HistoryInv(M, W, A2)'
<1>1. /\ ProposedInv(M, W) /\ WinnersInv(M, W) /\ AcksInv(M, W, A) /\ NodesInv(M, W, A)
      /\ CallsInv(M, W, A) /\ \A m \in Node : CommitNode(M, A, m)
  BY DEF HistoryInv
<1>2. PICK v \in Node, t \in Nat, u \in Node : v = c.to /\ t = c.term /\ u = c.from
  BY DEF TypeOK, AppendCalls
<1>3. /\ c \in AppendCalls /\ c.prevIndex \in Nat /\ c.commit \in Nat
      /\ c.entries \in Seq(Entry) /\ Len(c.entries) \in Nat /\ c.stage = "sent"
  <2>1. c \in AppendCalls
    BY DEF TypeOK
  <2>2. c.entries \in Seq(Entry)
    BY <2>1 DEF AppendCalls
  <2> QED BY <2>1, <2>2 DEF AppendCalls, HandleAppendEntries
<1>4. PICK X \in M : X = logEntries[v]
  BY <1>1 DEF NodesInv
<1>5. /\ M \subseteq Seq(Entry) /\ \A K \in M : LastTerm(K) \in Nat /\ Len(K) \in Nat
      /\ \A m \in Node : currentTerm[m] \in Nat /\ currentTerm'[m] \in Nat
      /\ \A m \in Node : logEntries[m] \in M
  <2>1. M \subseteq Seq(Entry)
    BY <1>1 DEF ProposedInv
  <2>2. \A K \in M : LastTerm(K) \in Nat /\ Len(K) \in Nat
    BY <2>1, LastTermType
  <2>3. \A m \in Node : currentTerm[m] \in Nat /\ currentTerm'[m] \in Nat
    BY DEF TypeOK
  <2> QED BY <1>1, <2>1, <2>2, <2>3 DEF NodesInv
<1>6. PrevMatches(X, c.prevIndex, c.prevTerm)
  BY <1>2, <1>4
<1>7. PICK L \in M : /\ Carries(c, L)
                     /\ \A K \in M : LastTerm(K) <= t => Comparable(K, L) \/ Escaped(W, K)
                     /\ Leads(u, t) => Begins(L, logEntries[u])
  <2>1. SentCall(M, W, c)
    BY <1>1 DEF CallsInv
  <2>2. CASE c.prevIndex > 0 /\ c.prevTerm = 0
    BY <1>1, <1>3, <1>6, <2>2, BogusRefused
  <2> QED BY <1>2, <1>3, <2>1, <2>2 DEF SentCall
<1>8. L \in Seq(Entry) /\ X \in Seq(Entry) /\ Len(L) = c.prevIndex + Len(c.entries)
  BY <1>5, <1>7 DEF Carries
<1>9. PICK Y : Y = AppendFrom(X, c.prevIndex, c.entries)
  OBVIOUS
<1>10. \/ Y = X /\ Begins(L, X)
       \/ Y = L /\ ~Begins(L, X)
  BY <1>1, <1>3, <1>6, <1>7, <1>9, AppendFromOrigin
<1>11. Y \in M /\ Begins(L, Y)
  BY <1>8, <1>10, BeginsOrder
<1>12. PICK d : d = [WithoutRequest(c) EXCEPT !.stage = "replied", !.replyTerm = t,
                       !.success = TRUE, !.match = Len(L), !.conflict = 0]
  OBVIOUS
<1>13. /\ IF c.term > currentTerm[v] \/ state[v] = "Candidate"
          THEN StepDown(v, t) ELSE UNCHANGED nodeVars
       /\ ReplaceCall(c, d)
       /\ logEntries'[v] = Y
       /\ commitIndex'[v] = FollowerCommit(commitIndex[v], c.commit, Len(L))
       /\ \A m \in Node \ {v} : logEntries'[m] = logEntries[m] /\ commitIndex'[m] = commitIndex[m]
       /\ UNCHANGED <<applied, leadVars, voteCalls, elected>>
  <2> DEFINE matches == PrevMatches(logEntries[v], c.prevIndex, c.prevTerm)
             lastNew == c.prevIndex + Len(c.entries)
  <2>1. matches = TRUE /\ lastNew = Len(L)
    BY <1>2, <1>8 DEF PrevMatches
  <2> HIDE DEF matches, lastNew
  <2>2. /\ IF c.term > currentTerm[v] \/ state[v] = "Candidate"
           THEN StepDown(v, t) ELSE UNCHANGED nodeVars
        /\ LogWritten(v, CallsWith(c, [WithoutRequest(c) EXCEPT !.stage = "replied",
             !.replyTerm = IF matches THEN t ELSE currentTerm[v],
             !.success = matches,
             !.match = IF matches THEN lastNew ELSE 0,
             !.conflict = IF matches THEN 0 ELSE Len(logEntries[v])]))
        /\ logEntries' = [logEntries EXCEPT ![v] =
             IF matches THEN AppendFrom(@, c.prevIndex, c.entries) ELSE @]
        /\ commitIndex' = [commitIndex EXCEPT ![v] =
             IF matches THEN FollowerCommit(@, c.commit, lastNew) ELSE @]
        /\ UNCHANGED <<applied, leadVars, voteCalls, elected>>
    BY <1>2 DEF HandleAppendEntries, matches, lastNew
  <2>3. logEntries'[v] = Y /\ \A m \in Node \ {v} : logEntries'[m] = logEntries[m]
    BY <1>4, <1>9, <2>1, <2>2 DEF TypeOK
  <2>4. /\ commitIndex'[v] = FollowerCommit(commitIndex[v], c.commit, Len(L))
        /\ \A m \in Node \ {v} : commitIndex'[m] = commitIndex[m]
    BY <2>1, <2>2 DEF TypeOK
  <2>5. ReplaceCall(c, d)
    <3>1. LogWritten(v, CallsWith(c, d))
      BY <1>12, <2>1, <2>2
    <3> QED BY <3>1, ReplacedAlone
  <2> QED BY <2>2, <2>3, <2>4, <2>5
<1>14. /\ d.stage = "replied" /\ d.from = u /\ d.to = v /\ d.success /\ d.replyTerm = t
       /\ d.match = Len(L)
  BY <1>2, <1>3, <1>12 DEF WithoutRequest, AppendCalls
<1>15. u # v /\ <<u, t>> \in elected /\ t >= 1
  <2>1. u # v /\ <<u, t>> \in elected
    BY <1>2, <1>3 DEF LogInv, LeadersElected
  <2>2. PICK w \in W : w.term = t
    BY <1>1, <2>1 DEF WinnersInv
  <2>3. LastTerm(w.log) \in Nat /\ LastTerm(w.log) < t
    BY <1>1, <1>5, <2>2 DEF WinnersInv
  <2> QED BY <2>1, <2>3
<1>16. currentTerm[v] <= t
  BY <1>2, <1>5 DEF Outdated
<1>17. /\ NodesKept /\ currentTerm'[v] = t /\ state'[v] = "Follower"
  <2>0. LeadersElected
    BY DEF LogInv
  <2>1. NodesKept
    BY <2>0, HandleAppendEffect
  <2>2. CASE c.term > currentTerm[v] \/ state[v] = "Candidate"
    BY <1>13, <2>1, <2>2 DEF StepDown, TypeOK
  <2>3. CASE ~(c.term > currentTerm[v] \/ state[v] = "Candidate")
    <3>1. currentTerm[v] = t /\ UNCHANGED nodeVars
      BY <1>2, <1>5, <1>13, <1>16, <2>3
    <3>2. state[v] # "Leader"
      BY <1>2, <1>3, <2>0, <3>1, LeaderNotTold
    <3> QED BY <2>1, <2>3, <3>1, <3>2 DEF nodeVars, TypeOK
  <2> QED BY <2>1, <2>2, <2>3
<1>18. TermsGrow /\ UNCHANGED matchIndex
  BY <1>13, <1>17, NodesKeptFacts DEF leadVars
<1>19. \A m \in Node \ {v} : state'[m] # "Follower" =>
         state'[m] = state[m] /\ currentTerm'[m] = currentTerm[m]
  BY <1>17 DEF NodesKept
<1>20. PICK New : New = {<<v, K>> : K \in {P \in M : Begins(P, L) /\ LastTerm(P) = t}}
  OBVIOUS
<1>21. PICK A2 : A2 = A \cup New
  OBVIOUS
<1>22. /\ A \subseteq A2
       /\ \A a \in A2 \ A : /\ a \in Node \X M /\ a[1] = v /\ a[2] \in M
                            /\ Begins(a[2], L) /\ LastTerm(a[2]) = t
       /\ \A K \in M : Begins(K, L) /\ LastTerm(K) = t => <<v, K>> \in A2
  BY <1>20, <1>21
<1>23. ProposedInv(M, W)'
  BY <1>1 DEF ProposedInv
<1>24. WinnersInv(M, W)'
  BY <1>1, <1>13, <1>18, WinnersKept
<1>25. ASSUME NEW K \in M, LastTerm(K) <= t, Begins(K, X), ~Begins(K, Y) PROVE Escaped(W, K)
  <2>1. Y = L /\ ~Begins(L, X)
    BY <1>10, <1>25
  <2>2. ~Begins(L, K)
    BY <1>5, <1>8, <1>25, <2>1, BeginsOrder
  <2> QED BY <1>7, <1>25, <2>1, <2>2 DEF Comparable
<1>26. AcksInv(M, W, A2)'
  <2>1. ASSUME NEW m \in Node, NEW K \in M, LastTerm(K) <= currentTerm[m], Begins(K, logEntries[m])
        PROVE  Begins(K, logEntries'[m]) \/ Escaped(W, K)
    <3>1. CASE m = v
      <4>1. LastTerm(K) <= t
        BY <1>5, <1>16, <2>1, <3>1
      <4> QED BY <1>4, <1>13, <1>25, <2>1, <3>1, <4>1
    <3>2. CASE m # v
      BY <1>13, <2>1, <3>2
    <3> QED BY <3>1, <3>2
  <2>2. ASSUME NEW a \in A2 \ A
        PROVE  /\ a \in Node \X M /\ LastTerm(a[2]) >= 1
               /\ currentTerm'[a[1]] = LastTerm(a[2])
               /\ Begins(a[2], logEntries'[a[1]])
    <3>1. Begins(a[2], Y)
      BY <1>5, <1>8, <1>11, <1>22, BeginsOrder
    <3> QED BY <1>13, <1>15, <1>17, <1>22, <3>1
  <2> QED BY <1>1, <1>18, <1>22, <2>1, <2>2, AcksKept
<1>27. NodesInv(M, W, A2)'
  <2>1. \A m \in Node : logEntries'[m] \in M
    BY <1>5, <1>11, <1>13
  <2>2. \A m \in Node : LeadsOn(m) /\ matchIndex'[m][m] = 0
    BY <1>1, <1>13, <1>17, <1>18, <1>19 DEF LeadsOn, NodesInv
  <2> QED BY <1>1, <1>22, <2>1, <2>2, NodesInvKept
<1>28. \A b \in voteCalls' : CampaignCall(W, A2, b)'
  <2>1. CandidatesStay
    BY <1>13, <1>17, <1>19 DEF CandidatesStay
  <2>2. NoneGranted
    BY <1>13, NoVoteGranted
  <2>3. \A a \in A2 \ A : LastTerm(a[2]) \in Nat /\ LastTerm(a[2]) >= currentTerm[a[1]]
    BY <1>5, <1>16, <1>22
  <2> QED BY <1>22, <2>1, <2>2, <2>3, CampaignsKept
<1>29. ASSUME NEW b \in appendCalls'
       PROVE  SentCall(M, W, b)' /\ RepliedCall(M, A2, b)' /\ CommitCall(M, A2, b)
  <2>1. CASE b \in appendCalls
    <3>1. b \in AppendCalls
      BY <2>1 DEF TypeOK
    <3>2. b.from \in Node /\ b.term \in Nat /\ b.replyTerm \in Nat
      BY <3>1 DEF AppendCalls
    <3>3. SentCall(M, W, b) /\ RepliedCall(M, A, b) /\ CommitCall(M, A, b)
      BY <1>1, <2>1 DEF CallsInv
    <3>4. \A m \in Node, s \in Nat : Extends(m, s)
      <4>1. \A m \in Node : Begins(logEntries[m], logEntries[m])
        BY <1>5, BeginsOrder
      <4> QED BY <1>13, <1>17, <1>19, <4>1 DEF Extends, Leads
    <3>5. elected \subseteq elected'
      BY <1>13
    <3>6. RepliedCall(M, A2, b)'
      BY <1>22, <3>1, <3>2, <3>3, <3>4, <3>5, RepliedCallKept
    <3>7. SentCall(M, W, b)'
      BY <1>1, <3>1, <3>2, <3>3, <3>4, SentCallKept
    <3> QED BY <1>22, <3>3, <3>6, <3>7, CommitCallKept
  <2>2. CASE b = d
    <3>1. ASSUME Leads(u, t)'
          PROVE  /\ Len(L) <= Len(logEntries'[u])
                 /\ \A K \in M : LastTerm(K) = t /\ Len(K) <= Len(L) => <<v, K>> \in A2
      <4>1. Leads(u, t) /\ logEntries'[u] = logEntries[u]
        BY <1>13, <1>15, <1>19, <3>1 DEF Leads
      <4>2. Begins(L, logEntries[u]) /\ logEntries[u] \in Seq(Entry)
        BY <1>5, <1>7, <4>1
      <4>3. ASSUME NEW K \in M, LastTerm(K) = t, Len(K) <= Len(L) PROVE Begins(K, L)
        <5>1. Begins(K, logEntries[u])
          BY <1>1, <4>1, <4>3 DEF NodesInv, LeaderInv, Leads
        <5>2. Comparable(K, L) /\ K \in Seq(Entry)
          BY <1>5, <1>8, <4>2, <5>1, BeginsOrder
        <5>3. CASE Begins(L, K)
          <6>1. Len(K) = Len(L)
            BY <1>5, <4>3, <5>3 DEF Begins
          <6> QED BY <1>8, <5>2, <5>3, <6>1, BeginsSame
        <5> QED BY <5>2, <5>3 DEF Comparable
      <4> QED BY <1>22, <4>1, <4>2, <4>3 DEF Begins
    <3>2. <<u, t>> \in elected'
      BY <1>13, <1>15
    <3> QED BY <1>14, <2>2, <3>1, <3>2 DEF SentCall, RepliedCall, CommitCall
  <2>3. b \in appendCalls \/ b = d
    BY <1>13, ReplaceCallAdds
  <2> QED BY <2>1, <2>2, <2>3
<1>30. CallsInv(M, W, A2)'
  BY <1>28, <1>29 DEF CallsInv, CommitCall, Chosen
<1>31. ASSUME NEW m \in Node, m # v PROVE CommitNode(M, A2, m)'
  <2>1. commitIndex[m] <= Len(logEntries[m]) =>
          /\ commitIndex[m] <= Len(logEntries'[m])
          /\ \A i \in 1..commitIndex[m] : logEntries'[m][i] = logEntries[m][i]
    BY <1>13, <1>31
  <2>2. M \subseteq M /\ commitIndex'[m] = commitIndex[m] /\ applied'[m] = applied[m]
    BY <1>13, <1>31
  <2> QED BY <1>1, <1>5, <1>18, <1>22, <2>1, <2>2, CommitNodeKept
<1>32. ASSUME NEW K \in M, Chosen(A, K), LastTerm(K) <= t PROVE Comparable(K, L)
  BY <1>1, <1>7, <1>32, ChosenKept
<1>33. /\ commitIndex[v] \in Nat /\ Len(Y) \in Nat /\ Len(X) \in Nat /\ Len(L) \in Nat
       /\ Len(applied[v]) \in Nat
  BY <1>5, <1>11 DEF TypeOK
<1>34. /\ commitIndex[v] <= Len(Y)
       /\ \A i \in 1..commitIndex[v] : Y[i] = X[i]
       /\ \/ commitIndex[v] = 0
          \/ \E K \in M : /\ Chosen(A, K) /\ LastTerm(K) <= t /\ commitIndex[v] <= Len(K)
                          /\ \A i \in 1..commitIndex[v] : X[i] = K[i]
  <2>1. CASE commitIndex[v] = 0
    BY <1>33, <2>1
  <2>2. CASE commitIndex[v] # 0
    <3>1. PICK K \in M : /\ Chosen(A, K) /\ LastTerm(K) <= currentTerm[v]
                         /\ commitIndex[v] <= Len(K) /\ commitIndex[v] <= Len(X)
                         /\ \A i \in 1..commitIndex[v] : X[i] = K[i]
      BY <1>1, <1>4, <2>2 DEF CommitNode
    <3>2. LastTerm(K) <= t /\ Comparable(K, L)
      BY <1>5, <1>16, <1>32, <3>1
    <3>3. CASE Y = X
      BY <3>1, <3>2, <3>3
    <3>4. CASE Y = L /\ ~Begins(L, X)
      <4>1. commitIndex[v] <= Len(L)
        <5> SUFFICES ASSUME Len(L) < commitIndex[v] PROVE FALSE
          BY <1>33
        <5>1. Begins(L, K)
          BY <1>5, <1>33, <3>1, <3>2 DEF Comparable, Begins
        <5>2. \A i \in 1..Len(L) : L[i] = X[i]
          BY <1>33, <3>1, <5>1 DEF Begins
        <5> QED BY <1>33, <3>1, <3>4, <5>2 DEF Begins
      <4>2. \A i \in 1..commitIndex[v] : L[i] = K[i]
        BY <1>5, <1>33, <3>1, <3>2, <4>1 DEF Comparable, Begins
      <4> QED BY <3>1, <3>2, <3>4, <4>1, <4>2
    <3> QED BY <1>10, <3>3, <3>4
  <2> QED BY <2>1, <2>2
<1>35. CommitNode(M, A2, v)'
  <2>1. Len(applied[v]) <= commitIndex[v] /\ Begins(applied[v], Y)
    <3>1. Len(applied[v]) <= commitIndex[v] /\ Begins(applied[v], logEntries[v])
      BY <1>1, <1>4 DEF CommitNode
    <3>2. \A i \in 1..Len(applied[v]) : i \in 1..commitIndex[v] /\ applied[v][i] = X[i]
      BY <1>4, <1>33, <3>1 DEF Begins
    <3>3. \A i \in 1..Len(applied[v]) : applied[v][i] = Y[i]
      BY <1>34, <3>2
    <3>4. Len(applied[v]) <= Len(Y)
      BY <1>33, <1>34, <3>1
    <3> QED BY <3>1, <3>3, <3>4 DEF Begins
  <2>2. c.commit <= Len(L)
    BY <1>3, <1>8 DEF CommitsReach
  <2>3. PICK k \in Nat : k = commitIndex'[v]
    BY DEF TypeOK
  <2>4. k = commitIndex[v] \/ (k = c.commit /\ k > commitIndex[v])
    BY <1>3, <1>13, <1>33, <2>2, <2>3 DEF FollowerCommit
  <2>5. \/ k = 0
        \/ \E K \in M : /\ Chosen(A, K) /\ LastTerm(K) <= t /\ k <= Len(K) /\ k <= Len(Y)
                        /\ \A i \in 1..k : Y[i] = K[i]
    <3>1. CASE k = commitIndex[v]
      BY <1>34, <3>1
    <3>2. CASE k = c.commit /\ k > commitIndex[v]
      <4>1. CommitCall(M, A, c)
        BY <1>1 DEF CallsInv
      <4>2. PICK K \in M : Chosen(A, K) /\ LastTerm(K) <= t /\ k <= Len(K)
        BY <1>2, <1>3, <1>33, <3>2, <4>1 DEF CommitCall
      <4>3. Comparable(K, L)
        BY <1>32, <4>2
      <4>4. \A i \in 1..k : K[i] = L[i]
        BY <1>5, <1>33, <2>2, <3>2, <4>2, <4>3 DEF Comparable, Begins
      <4>5. k <= Len(Y) /\ \A i \in 1..k : Y[i] = L[i]
        BY <1>11, <1>33, <2>2, <3>2 DEF Begins
      <4> QED BY <4>2, <4>4, <4>5
    <3> QED BY <2>4, <3>1, <3>2
  <2>6. Len(applied[v]) <= k
    BY <1>33, <2>1, <2>4
  <2>7. \/ k = 0
        \/ \E K \in M : /\ Chosen(A2, K) /\ LastTerm(K) <= t /\ k <= Len(K) /\ k <= Len(Y)
                        /\ \A i \in 1..k : Y[i] = K[i]
    BY <1>22, <2>5, ChosenGrows
  <2> QED BY <1>13, <1>17, <2>1, <2>3, <2>6, <2>7 DEF CommitNode
<1>36. HistoryInv(M, W, A2)'
  BY <1>23, <1>24, <1>26, <1>27, <1>30, <1>31, <1>35 DEF HistoryInv
<1> QED BY <1>36

\* A leader that counts a success its follower answered to an earlier leadership of it:
\* only the node's present state is looked at (ReceiveAppend).
LateRead ==
  \E c \in appendCalls : /\ ReceiveAppend(c) /\ c.success
                         /\ state[c.from] = "Leader" /\ c.replyTerm < currentTerm[c.from]

\* maybeCommit commits what a majority has acknowledged: the match table speaks of the
\* leader's own term.
LEMMA MaybeCommitChosen ==
  ASSUME TypeOK, ElectionInv, LogInv, NEW M, NEW W, NEW A, HistoryInv(M, W, A),
         NEW n \in Node, state[n] = "Leader", NEW match \in [Node -> Nat], match[n] = 0,
         \A p \in Node, K \in M : LastTerm(K) = currentTerm[n] /\ Len(K) <= match[p]
                                    => <<p, K>> \in A,
         NEW k, k = MaybeCommit(n, match), k # commitIndex[n]
  PROVE  /\ k \in Nat /\ k >= commitIndex[n] /\ k <= Len(logEntries[n])
         /\ \E K \in M : /\ Chosen(A, K) /\ LastTerm(K) = currentTerm[n] /\ k <= Len(K)
                         /\ \A i \in 1..k : logEntries[n][i] = K[i]
<1> DEFINE ready == {i \in commitIndex[n] + 1 .. Len(logEntries[n]) :
                       logEntries[n][i].term = currentTerm[n] /\ Held(n, i, match)}
<1>1. /\ commitIndex[n] \in Nat /\ logEntries[n] \in Seq(Entry) /\ Len(logEntries[n]) \in Nat
      /\ currentTerm[n] \in Nat
  <2>1. logEntries[n] \in Seq(Entry)
    BY DEF TypeOK
  <2> QED BY <2>1 DEF TypeOK
<1>2. ready # {} /\ k = CHOOSE i \in ready : \A j \in ready : j <= i
  BY DEF MaybeCommit
<1>3. ready \in SUBSET Nat /\ \A i \in ready : i <= Len(logEntries[n])
  BY <1>1
<1>4. k \in ready
  <2> HIDE DEF ready
  <2>1. \E i \in ready : \A j \in ready : j <= i
    BY <1>1, <1>2, <1>3, Greatest
  <2> QED BY <1>2, <2>1
<1>5. /\ k \in Nat /\ k > commitIndex[n] /\ k <= Len(logEntries[n]) /\ k >= 1
      /\ logEntries[n][k].term = currentTerm[n] /\ Held(n, k, match)
  BY <1>1, <1>4
<1> HIDE DEF ready
<1>6. PICK K : K = SubSeq(logEntries[n], 1, k)
  OBVIOUS
<1>7. /\ K \in Seq(Entry) /\ Len(K) = k /\ \A i \in 1..k : K[i] = logEntries[n][i]
      /\ Begins(K, logEntries[n]) /\ LastTerm(K) = currentTerm[n]
  <2>1. k \in 0..Len(logEntries[n]) /\ k # 0
    BY <1>1, <1>5
  <2>2. TermAt(logEntries[n], k) = currentTerm[n]
    BY <1>5, <2>1 DEF TermAt
  <2> QED BY <1>1, <1>6, <2>1, <2>2, BeginsPrefix
<1>8. K \in M
  BY <1>7, ProposedLogs DEF HistoryInv, NodesInv
<1> DEFINE S == {p \in Node : match[p] >= k}
           Q == S \cup {n}
<1>9. <<n, K>> \in A
  <2>1. <<n, currentTerm[n]>> \in elected
    BY DEF LogInv, LeadersElected
  <2>2. PICK w \in W : w.node = n /\ w.term = currentTerm[n]
    BY <2>1 DEF HistoryInv, WinnersInv
  <2> QED BY <1>7, <1>8, <2>2 DEF HistoryInv, AcksInv
<1>10. \A p \in Q : <<p, K>> \in A
  <2>1. \A p \in S : p \in Node /\ Len(K) <= match[p]
    BY <1>5, <1>7
  <2> QED BY <1>7, <1>8, <1>9, <2>1
<1>11. 2 * Cardinality(Q) > Cardinality(Node) /\ Q \in SUBSET Node
  <2>1. n \notin S /\ S \subseteq Node
    BY <1>5
  <2>2. peers[n] = Node \ {n}
    BY DEF ElectionInv, PeersFixed
  <2>3. IsFiniteSet(Node) /\ Cardinality(Node) \in Nat
    BY NodeAssumption, FS_CardinalityType
  <2>4. Cardinality(peers[n]) + 1 = Cardinality(Node)
    <3>1. Cardinality(Node \ {n}) = Cardinality(Node) - 1
      BY <2>3, FS_RemoveElement
    <3> QED BY <2>2, <2>3, <3>1
  <2>5. 1 + Cardinality(S) > Cardinality(Node) \div 2
    BY <1>5, <2>4 DEF Held
  <2> HIDE DEF S
  <2>6. IsFiniteSet(S) /\ Cardinality(S) \in Nat
    BY <2>1, <2>3, FS_Subset, FS_CardinalityType
  <2>7. Cardinality(S \cup {n}) = Cardinality(S) + 1
    BY <2>1, <2>6, FS_AddElement
  <2> QED BY <2>1, <2>3, <2>5, <2>6, <2>7
<1>12. Chosen(A, K)
  <2> HIDE DEF Q
  <2> QED BY <1>10, <1>11 DEF Chosen
<1>13. \A i \in 1..k : logEntries[n][i] = K[i]
  BY <1>7
<1>14. k <= Len(K) /\ k >= commitIndex[n]
  BY <1>1, <1>5, <1>7
<1> QED BY <1>5, <1>7, <1>8, <1>12, <1>13, <1>14

\* A reply read in time tells the leader what the follower acknowledged in its term.
LEMMA ReceiveHistory ==
  ASSUME TypeOK, TypeOK', ElectionInv, LogInv, NEW M, NEW W, NEW A, HistoryInv(M, W, A),
         NEW c \in appendCalls, ReceiveAppend(c), ~LateRead
  PROVE  HistoryInv(M, W, A)'
<1>1. /\ NodesInv(M, W, A) /\ CallsInv(M, W, A) /\ \A m \in Node : CommitNode(M, A, m)
  BY DEF HistoryInv
<1>2. PICK n \in Node, p \in Node : n = c.from /\ p = c.to
  BY DEF TypeOK, AppendCalls
<1>3. /\ c \in AppendCalls /\ c.stage = "replied" /\ c.replyTerm \in Nat /\ c.match \in Nat
      /\ currentTerm[n] \in Nat
  BY DEF TypeOK, AppendCalls, ReceiveAppend
<1> DEFINE further == c.match > matchIndex[n][p]
           match == IF further THEN [matchIndex[n] EXCEPT ![p] = c.match] ELSE matchIndex[n]
           counted == state[n] = "Leader" /\ c.replyTerm <= currentTerm[n]
<1>4. /\ UNCHANGED <<elected, logEntries, applied, voteCalls, peers>>
      /\ StepDownIfNewer(n, c.replyTerm)
  BY <1>2 DEF ReceiveAppend
<1>5. NodesKept /\ NoneGranted
  BY <1>3, <1>4, StepDownKept, NoVoteGranted
<1>6. \A d \in appendCalls' \ appendCalls : d.stage \in {"acked", "over"}
  <2>1. PICK s \in {"acked", "over"} : ReplaceCall(c, EndedAs(c, s))
    BY DEF ReceiveAppend
  <2> QED BY <1>3, <2>1, ReplaceCallAdds, EndedFields
<1>7. CASE ~(counted /\ c.success)
  <2>1. UNCHANGED <<matchIndex, commitIndex>>
    BY <1>2, <1>7 DEF ReceiveAppend
  <2> QED BY <1>4, <1>5, <1>6, <2>1, DeposingStep
<1>8. CASE counted /\ c.success
  <2>1. state[n] = "Leader" /\ c.replyTerm <= currentTerm[n] /\ c.success
    BY <1>8
  <2>2. c.replyTerm = currentTerm[n]
    <3>1. ~(c.replyTerm < currentTerm[n])
      BY <1>2, <2>1 DEF LateRead
    <3> QED BY <1>3, <2>1, <3>1
  <2>3. /\ matchIndex' = [matchIndex EXCEPT ![n] = match]
        /\ commitIndex' = [commitIndex EXCEPT ![n] =
             IF ReplicatedWith(c) THEN MaybeCommit(n, match) ELSE @]
        /\ UNCHANGED nodeVars
    BY <1>2, <1>3, <1>8, <2>2 DEF ReceiveAppend, StepDownIfNewer
  <2>4. matchIndex \in [Node -> [Node -> Nat]] /\ matchIndex[n] \in [Node -> Nat]
    BY DEF TypeOK
  <2>5. /\ match \in [Node -> Nat]
        /\ \A q \in Node : match[q] = matchIndex[n][q] \/ (q = p /\ match[q] = c.match)
    <3>1. CASE further
      <4> DEFINE f == [matchIndex[n] EXCEPT ![p] = c.match]
      <4>1. match = f
        BY <3>1
      <4>2. /\ f \in [Node -> Nat]
            /\ \A q \in Node : f[q] = matchIndex[n][q] \/ (q = p /\ f[q] = c.match)
        BY <1>3, <2>4
      <4> HIDE DEF f, match
      <4> QED BY <4>1, <4>2
    <3>2. CASE ~further
      <4>1. match = matchIndex[n]
        BY <3>2
      <4> HIDE DEF match
      <4> QED BY <2>4, <4>1
    <3> QED BY <3>1, <3>2
  <2> HIDE DEF match, further, counted
  <2>6. p # n
    BY <1>2 DEF LogInv, LeadersElected
  <2>7. /\ matchIndex'[n] = match /\ \A m \in Node \ {n} : matchIndex'[m] = matchIndex[m]
    BY <2>3, <2>4
  <2>8. LeaderInv(M, W, A, n) /\ \A m \in Node : matchIndex[m][m] = 0
    BY <1>1, <2>1 DEF NodesInv
  <2>9. /\ c.match <= Len(logEntries[n])
        /\ \A K \in M : LastTerm(K) = currentTerm[n] /\ Len(K) <= c.match => <<p, K>> \in A
    BY <1>1, <1>2, <1>3, <2>1, <2>2 DEF CallsInv, RepliedCall, Leads
  <2>10. \A q \in Node : /\ match[q] <= Len(logEntries[n])
                         /\ \A K \in M : LastTerm(K) = currentTerm[n] /\ Len(K) <= match[q]
                                           => <<q, K>> \in A
    BY <2>5, <2>8, <2>9 DEF LeaderInv
  <2>11. UNCHANGED <<state, currentTerm>> /\ match[n] = 0
    BY <2>3, <2>5, <2>6, <2>8 DEF nodeVars
  <2>12. NodesInv(M, W, A)'
    <3>1. \A m \in Node : logEntries'[m] \in M /\ matchIndex'[m][m] = 0
      BY <1>1, <1>4, <2>7, <2>8, <2>11 DEF NodesInv
    <3>2. ASSUME NEW m \in Node, m # n, state[m] = "Leader" PROVE LeaderInv(M, W, A, m)'
      <4>1. LeaderInv(M, W, A, m)
        BY <1>1, <3>2 DEF NodesInv
      <4> QED BY <1>4, <2>7, <2>11, <3>2, <4>1 DEF LeaderInv
    <3>3. LeaderInv(M, W, A, n)'
      BY <1>4, <2>7, <2>8, <2>10, <2>11 DEF LeaderInv
    <3> QED BY <2>11, <3>1, <3>2, <3>3 DEF NodesInv
  <2>13. TermsGrow /\ CandidatesStay
    BY <1>4, <1>5, NodesKeptFacts
  <2>14. \A d \in voteCalls' : CampaignCall(W, A, d)'
    <3>1. A \subseteq A /\ \A a \in A \ A : LastTerm(a[2]) \in Nat
                                           /\ LastTerm(a[2]) >= currentTerm[a[1]]
      OBVIOUS
    <3> QED BY <1>5, <2>13, <3>1, CampaignsKept
  <2>15. \A d \in appendCalls' \ appendCalls :
           SentCall(M, W, d)' /\ RepliedCall(M, A, d)' /\ CommitCall(M, A, d)
    BY <1>6, EndedCall
  <2>16. ASSUME NEW m \in Node PROVE CommitNode(M, A, m)'
    <3>1. CASE commitIndex'[m] = commitIndex[m]
      <4>1. M \subseteq M /\ A \subseteq A /\ M \subseteq Seq(Entry)
        BY DEF HistoryInv, ProposedInv
      <4>2. logEntries'[m] = logEntries[m] /\ applied'[m] = applied[m]
        BY <1>4
      <4> QED BY <1>1, <2>13, <3>1, <4>1, <4>2, CommitNodeKept
    <3>2. CASE commitIndex'[m] # commitIndex[m]
      <4>1. m = n /\ commitIndex'[n] = MaybeCommit(n, match)
        BY <2>3, <3>2 DEF TypeOK
      <4>2. PICK k : k = commitIndex'[n]
        OBVIOUS
      <4>3. /\ k \in Nat /\ k >= commitIndex[n] /\ k <= Len(logEntries[n])
            /\ \E K \in M : /\ Chosen(A, K) /\ LastTerm(K) = currentTerm[n] /\ k <= Len(K)
                            /\ \A i \in 1..k : logEntries[n][i] = K[i]
        <5>1. k = MaybeCommit(n, match) /\ k # commitIndex[n]
          BY <3>2, <4>1, <4>2
        <5> QED BY <2>1, <2>5, <2>10, <2>11, <5>1, MaybeCommitChosen
      <4>4. /\ Len(applied[n]) <= commitIndex[n] /\ Begins(applied[n], logEntries[n])
            /\ Len(applied[n]) \in Nat /\ commitIndex[n] \in Nat
        BY <1>1 DEF CommitNode, TypeOK
      <4>5. Len(applied[n]) <= k
        BY <4>3, <4>4
      <4>6. \E K \in M : /\ Chosen(A, K) /\ LastTerm(K) <= currentTerm[n]
                         /\ k <= Len(K) /\ k <= Len(logEntries[n])
                         /\ \A i \in 1..k : logEntries[n][i] = K[i]
        BY <1>3, <4>3
      <4> QED BY <1>4, <2>11, <4>1, <4>2, <4>4, <4>5, <4>6 DEF CommitNode
    <3> QED BY <3>1, <3>2
  <2>17. \A m \in Node : state'[m] = "Leader" => /\ state[m] = "Leader"
                                                 /\ currentTerm'[m] = currentTerm[m]
    BY <2>11
  <2> QED BY <1>4, <2>12, <2>13, <2>14, <2>15, <2>16, <2>17, UnwrittenStep
<1> QED BY <1>7, <1>8

\* What is applied next is the committed entry of the log.
LEMMA ApplyHistory ==
  ASSUME TypeOK, TypeOK', ElectionInv, NEW M, NEW W, NEW A, HistoryInv(M, W, A),
         NEW n \in Node, Apply(n)
  PROVE  HistoryInv(M, W, A)'
<1>1. /\ UNCHANGED <<nodeVars, elected, logEntries, matchIndex, commitIndex, voteCalls,
                     appendCalls>>
      /\ Len(applied[n]) + 1 <= commitIndex[n]
  BY DEF Apply, leadVars
<1>2. NodesKept /\ NoneGranted
  BY <1>1, NoVoteGranted DEF NodesKept, nodeVars
<1>3. TermsGrow /\ CandidatesStay /\ \A m \in Node : LeadsOn(m)
  BY <1>1, <1>2, NodesKeptFacts
<1>4. \A d \in voteCalls' : CampaignCall(W, A, d)'
  <2>1. A \subseteq A /\ \A a \in A \ A : LastTerm(a[2]) \in Nat
                                         /\ LastTerm(a[2]) >= currentTerm[a[1]]
    OBVIOUS
  <2> QED BY <1>2, <1>3, <2>1, CampaignsKept
<1>5. NodesInv(M, W, A)'
  <2>1. NodesInv(M, W, A) /\ \A m \in Node : logEntries'[m] \in M /\ matchIndex'[m][m] = 0
    BY <1>1 DEF HistoryInv, NodesInv
  <2> QED BY <1>3, <2>1, NodesInvKept
<1>6. ASSUME NEW m \in Node PROVE CommitNode(M, A, m)'
  <2>1. CommitNode(M, A, m) /\ UNCHANGED currentTerm
    BY <1>1 DEF HistoryInv, nodeVars
  <2>2. CASE applied'[m] = applied[m]
    BY <1>1, <2>1, <2>2 DEF CommitNode
  <2>3. CASE applied'[m] # applied[m]
    <3> DEFINE k == Len(applied[n]) + 1
    <3>1. /\ m = n /\ k <= Len(logEntries[n])
          /\ applied'[n] = Append(applied[n], logEntries[n][k])
      BY <2>3 DEF Apply, TypeOK
    <3>2. /\ logEntries[n] \in Seq(Entry) /\ applied[n] \in Seq(Entry)
          /\ Len(applied[n]) \in Nat /\ Len(logEntries[n]) \in Nat
      <4>1. logEntries[n] \in Seq(Entry) /\ applied[n] \in Seq(Entry)
        BY DEF TypeOK
      <4> QED BY <4>1
    <3>3. PICK e \in Entry : e = logEntries[n][k]
      BY <3>1, <3>2
    <3>4. /\ Len(applied'[n]) = k /\ applied'[n][k] = e
          /\ \A i \in 1..Len(applied[n]) : applied'[n][i] = applied[n][i]
      BY <3>1, <3>2, <3>3
    <3>5. Begins(applied[n], logEntries[n])
      BY <2>1, <3>1 DEF CommitNode
    <3>6. Begins(applied'[n], logEntries[n])
      <4>1. \A i \in 1..k : i \in 1..Len(applied[n]) \/ i = k
        BY <3>2
      <4>2. \A i \in 1..k : applied'[n][i] = logEntries[n][i]
        BY <3>3, <3>4, <3>5, <4>1 DEF Begins
      <4> QED BY <3>1, <3>4, <4>2 DEF Begins
    <3>7. Len(applied'[n]) <= commitIndex[n]
      BY <1>1, <3>4
    <3> QED BY <1>1, <2>1, <3>1, <3>6, <3>7 DEF CommitNode
  <2> QED BY <2>2, <2>3
<1>7. \A m \in Node : state'[m] = "Leader" => state[m] = "Leader" /\ currentTerm'[m] = currentTerm[m]
  BY <1>3 DEF LeadsOn
<1> QED BY <1>1, <1>3, <1>4, <1>5, <1>6, <1>7, UnwrittenStep

\* The steps of the replication, as long as replies are read in time.
LEMMA ReplicationHistory ==
  ASSUME ~LateMarshal, TypeOK, TypeOK', ElectionInv, LogInv, CommitsReach,
         NEW M, NEW W, NEW A, HistoryInv(M, W, A), Replication, ~LateRead
  PROVE  \E M2, A2 : HistoryInv(M2, W, A2)'
<1>1. ASSUME HistoryInv(M, W, A)' PROVE \E M2, A2 : HistoryInv(M2, W, A2)'
  BY <1>1
<1>2. ASSUME NEW n \in Node, Propose(n) PROVE \E M2, A2 : HistoryInv(M2, W, A2)'
  BY <1>2, ProposeHistory
<1>3. ASSUME NEW n \in Node, Apply(n) PROVE HistoryInv(M, W, A)'
  BY <1>3, ApplyHistory
<1>4. ASSUME NEW n \in Node, ContactAges(n) PROVE HistoryInv(M, W, A)'
  <2>1. UNCHANGED <<nodeVars, elected, logEntries, matchIndex, commitIndex, applied,
                    voteCalls, appendCalls>>
    BY <1>4 DEF ContactAges, logVars, leadVars
  <2>2. NodesKept /\ NoneGranted
    BY <2>1, NoVoteGranted DEF NodesKept, nodeVars
  <2> QED BY <2>1, <2>2, DeposingStep
<1>5. ASSUME NEW n \in Node, NEW s \in Slot, Broadcast(n, s) PROVE HistoryInv(M, W, A)'
  BY <1>5, BroadcastHistory
<1>6. ASSUME NEW c \in appendCalls, BuildAppend(c) PROVE HistoryInv(M, W, A)'
  BY <1>6, BuildHistory
<1>7. ASSUME NEW c \in appendCalls, HandleAppendEntries(c)
      PROVE  \E M2, A2 : HistoryInv(M2, W, A2)'
  <2> DEFINE v == c.to
             log == logEntries[v]
             matches == PrevMatches(log, c.prevIndex, c.prevTerm)
             lastNew == c.prevIndex + Len(c.entries)
             rt == IF matches THEN c.term ELSE currentTerm[v]
             m == IF matches THEN lastNew ELSE 0
             k == IF matches THEN 0 ELSE Len(log)
             reply == [WithoutRequest(c) EXCEPT !.stage = "replied", !.replyTerm = rt,
                         !.success = matches, !.match = m, !.conflict = k]
             refusal == [reply EXCEPT !.replyTerm = currentTerm[v],
                           !.success = FALSE, !.match = 0, !.conflict = 0]
  <2>1. c \in AppendCalls /\ v \in Node
    BY DEF TypeOK, AppendCalls
  <2>2. /\ reply.stage = "replied" /\ reply.success = matches
        /\ refusal.stage = "replied" /\ refusal.success = FALSE
    BY <2>1 DEF WithoutRequest, AppendCalls
  <2>3. /\ NodesKept /\ NoneGranted
        /\ UNCHANGED <<elected, matchIndex, applied>>
    <3>1. NodesKept /\ UNCHANGED <<voteCalls, leadVars, elected, applied>>
      BY <1>7, HandleAppendEffect DEF HandleAppendEntries, LogInv
    <3> QED BY <3>1, NoVoteGranted DEF leadVars
  <2>4. CASE Outdated(c)
    <3>1. ReplaceCall(c, refusal) /\ UNCHANGED <<logEntries, commitIndex>>
      BY <1>7, <2>4 DEF HandleAppendEntries
    <3> HIDE DEF reply, refusal
    <3>2. \A d \in appendCalls' \ appendCalls : d.stage = "replied" /\ ~d.success
      BY <2>2, <3>1, ReplaceCallAdds
    <3>3. HistoryInv(M, W, A)'
      BY <2>3, <3>1, <3>2, DeposingStep
    <3> QED BY <3>3
  <2>5. CASE ~Outdated(c) /\ ~matches
    <3>1. ReplaceCall(c, reply)
      <4>1. LogWritten(v, CallsWith(c, reply))
        BY <1>7, <2>5 DEF HandleAppendEntries
      <4> HIDE DEF reply
      <4> QED BY <4>1, ReplacedAlone
    <3>2. /\ logEntries' = [logEntries EXCEPT ![v] = @]
          /\ commitIndex' = [commitIndex EXCEPT ![v] = @]
      BY <1>7, <2>5 DEF HandleAppendEntries
    <3>3. UNCHANGED <<logEntries, commitIndex>>
      BY <2>1, <3>2 DEF TypeOK
    <3> HIDE DEF reply, refusal
    <3>4. \A d \in appendCalls' \ appendCalls : d.stage = "replied" /\ ~d.success
      BY <2>2, <2>5, <3>1, ReplaceCallAdds
    <3>5. HistoryInv(M, W, A)'
      BY <2>3, <3>3, <3>4, DeposingStep
    <3> QED BY <3>5
  <2>6. CASE ~Outdated(c) /\ matches
    <3>1. \E A2 : HistoryInv(M, W, A2)'
      BY <1>7, <2>6, AcceptHistory
    <3> QED BY <3>1
  <2> QED BY <2>4, <2>5, <2>6
<1>8. ASSUME NEW c \in appendCalls, ReceiveAppend(c) PROVE HistoryInv(M, W, A)'
  BY <1>8, ReceiveHistory
<1>9. ASSUME NEW c \in appendCalls, FailAppend(c) PROVE HistoryInv(M, W, A)'
  <2>1. UNCHANGED <<nodeVars, elected, logEntries, matchIndex, commitIndex, applied, voteCalls>>
    BY <1>9 DEF FailAppend, logVars, leadVars
  <2>2. NodesKept /\ NoneGranted
    BY <2>1, NoVoteGranted DEF NodesKept, nodeVars
  <2>3. c \in AppendCalls
    BY DEF TypeOK
  <2>4. \A d \in appendCalls' \ appendCalls : d.stage \in {"acked", "over"}
    BY <1>9, <2>3, ReplaceCallAdds, EndedFields DEF FailAppend
  <2> QED BY <2>1, <2>2, <2>4, DeposingStep
<1> QED BY <1>1, <1>2, <1>3, <1>4, <1>5, <1>6, <1>7, <1>8, <1>9 DEF Replication

---------------------------------------------------------------------------
(* Commit indexes *)

\* maybeCommit only moves forward.
LEMMA MaybeCommitGrows ==
  ASSUME TypeOK, NEW n \in Node, NEW match \in [Node -> Nat]
  PROVE  MaybeCommit(n, match) >= commitIndex[n]
<1> DEFINE ready == {i \in commitIndex[n] + 1 .. Len(logEntries[n]) :
                       logEntries[n][i].term = currentTerm[n] /\ Held(n, i, match)}
<1>1. commitIndex[n] \in Nat /\ Len(logEntries[n]) \in Nat
  BY DEF TypeOK
<1>2. CASE ready = {}
  BY <1>1, <1>2 DEF MaybeCommit
<1>3. CASE ready # {}
  <2>1. /\ ready \in SUBSET Nat
        /\ \A i \in ready : i <= Len(logEntries[n]) /\ i > commitIndex[n] /\ i \in Nat
    BY <1>1
  <2>2. MaybeCommit(n, match) = CHOOSE i \in ready : \A j \in ready : j <= i
    BY <1>3 DEF MaybeCommit
  <2> HIDE DEF ready
  <2>3. \E i \in ready : \A j \in ready : j <= i
    BY <1>1, <1>3, <2>1, Greatest
  <2>4. PICK k \in ready : k = MaybeCommit(n, match)
    BY <2>2, <2>3
  <2>5. k \in Nat /\ k > commitIndex[n]
    BY <2>1
  <2> QED BY <1>1, <2>4, <2>5
<1> QED BY <1>2, <1>3

\* No commit index goes back.
CommitsGrow == \A n \in Node : commitIndex'[n] >= commitIndex[n]

\* A follower takes the commit index of a request up to the last new entry, which is no
\* earlier; a leader commits further or not at all.
LEMMA CommitsNeverBack ==
  ASSUME TypeOK, TypeOK', ElectionInv, LogInv, CommitsReach, Next
  PROVE  CommitsGrow
<1>1. \A n \in Node : commitIndex[n] \in Nat
  BY DEF TypeOK
<1>2. ASSUME NEW c \in appendCalls, HandleAppendEntries(c) PROVE CommitsGrow
  <2> DEFINE v == c.to
             matches == PrevMatches(logEntries[v], c.prevIndex, c.prevTerm)
             lastNew == c.prevIndex + Len(c.entries)
  <2>1. \/ UNCHANGED commitIndex
        \/ commitIndex' = [commitIndex EXCEPT ![v] =
             IF matches THEN FollowerCommit(@, c.commit, lastNew) ELSE @]
    BY <1>2 DEF HandleAppendEntries
  <2>2. c.commit <= lastNew /\ c.commit \in Nat /\ v \in Node
    BY <1>2 DEF CommitsReach, HandleAppendEntries, TypeOK, AppendCalls
  <2>3. lastNew \in Nat
    <3>1. c \in AppendCalls
      BY DEF TypeOK
    <3>2. c.prevIndex \in Nat /\ c.entries \in Seq(Entry)
      BY <3>1 DEF AppendCalls
    <3>3. Len(c.entries) \in Nat
      BY <3>2
    <3> QED BY <3>2, <3>3
  <2> HIDE DEF matches, lastNew
  <2>4. FollowerCommit(commitIndex[v], c.commit, lastNew) >= commitIndex[v]
    BY <1>1, <2>2, <2>3 DEF FollowerCommit
  <2>5. \/ UNCHANGED commitIndex
        \/ /\ commitIndex'[v] >= commitIndex[v]
           /\ \A n \in Node \ {v} : commitIndex'[n] = commitIndex[n]
    <3>1. PICK k \in {commitIndex[v], FollowerCommit(commitIndex[v], c.commit, lastNew)} :
            k = (IF matches THEN FollowerCommit(commitIndex[v], c.commit, lastNew) ELSE commitIndex[v])
      OBVIOUS
    <3>2. k >= commitIndex[v]
      BY <1>1, <2>2, <2>4
    <3>3. commitIndex \in [Node -> Nat]
      BY DEF TypeOK
    <3>4. CASE UNCHANGED commitIndex
      BY <3>4
    <3>5. CASE commitIndex' = [commitIndex EXCEPT ![v] = k]
      BY <2>2, <3>2, <3>3, <3>5
    <3> QED BY <2>1, <3>1, <3>4, <3>5
  <2> QED BY <1>1, <2>5 DEF CommitsGrow
<1>3. ASSUME NEW c \in appendCalls, ReceiveAppend(c) PROVE CommitsGrow
  <2> DEFINE n == c.from
             further == c.match > matchIndex[n][c.to]
             match == IF further THEN [matchIndex[n] EXCEPT ![c.to] = c.match] ELSE matchIndex[n]
  <2>1. \/ UNCHANGED commitIndex
        \/ commitIndex' = [commitIndex EXCEPT ![n] =
             IF ReplicatedWith(c) THEN MaybeCommit(n, match) ELSE @]
    BY <1>3 DEF ReceiveAppend
  <2>2. n \in Node /\ c.to \in Node /\ c.match \in Nat
    BY DEF TypeOK, AppendCalls
  <2>3. match \in [Node -> Nat]
    <3>1. matchIndex[n] \in [Node -> Nat]
      BY <2>2 DEF TypeOK
    <3>2. [matchIndex[n] EXCEPT ![c.to] = c.match] \in [Node -> Nat]
      BY <2>2, <3>1
    <3> QED BY <3>1, <3>2
  <2> HIDE DEF match
  <2>4. MaybeCommit(n, match) >= commitIndex[n]
    BY <2>2, <2>3, MaybeCommitGrows
  <2>5. \/ UNCHANGED commitIndex
        \/ /\ commitIndex'[n] >= commitIndex[n]
           /\ \A m \in Node \ {n} : commitIndex'[m] = commitIndex[m]
    <3>1. PICK k \in {commitIndex[n], MaybeCommit(n, match)} :
            k = (IF ReplicatedWith(c) THEN MaybeCommit(n, match) ELSE commitIndex[n])
      OBVIOUS
    <3>2. k >= commitIndex[n]
      BY <1>1, <2>2, <2>4
    <3>3. commitIndex \in [Node -> Nat]
      BY DEF TypeOK
    <3>4. CASE UNCHANGED commitIndex
      BY <3>4
    <3>5. CASE commitIndex' = [commitIndex EXCEPT ![n] = k]
      BY <2>2, <3>2, <3>3, <3>5
    <3> QED BY <2>1, <3>1, <3>4, <3>5
  <2> QED BY <1>1, <2>5 DEF CommitsGrow
<1>4. \/ UNCHANGED commitIndex
      \/ \E c \in appendCalls : HandleAppendEntries(c) \/ ReceiveAppend(c)
  BY DEF Next, Election, StartElection, HandlePreVote, FailPreVote, ReceivePreVote,
         HandleRequestVote, ReceiveVote, FailVote, Replication, Propose, Apply, ContactAges,
         Broadcast, BuildAppend, FailAppend, logVars
<1>5. UNCHANGED commitIndex => CommitsGrow
  BY <1>1 DEF CommitsGrow
<1> QED BY <1>2, <1>3, <1>4, <1>5

\* The promise of every goroutine: what it carries reaches what it says is committed.
LEMMA CommitsReachKept ==
  ASSUME ~LateMarshal, TypeOK, TypeOK', ElectionInv, LogInv, CommitsReach, NEW M, NEW W, NEW A,
         HistoryInv(M, W, A), Next
  PROVE  CommitsReach'
<1>1. CommitsGrow
  BY CommitsNeverBack
<1>2. ASSUME \A d \in appendCalls' \ appendCalls :
               /\ d.stage = "spawned" => d.commit <= d.logLen /\ d.commit <= commitIndex'[d.from]
               /\ d.stage = "sent" => d.commit <= d.prevIndex + Len(d.entries)
      PROVE  CommitsReach'
  <2> SUFFICES ASSUME NEW c \in appendCalls
               PROVE  /\ c.stage = "spawned" => c.commit <= c.logLen
                                                /\ c.commit <= commitIndex'[c.from]
                      /\ c.stage = "sent" => c.commit <= c.prevIndex + Len(c.entries)
    BY <1>2 DEF CommitsReach
  <2>1. c.from \in Node /\ c.commit \in Nat /\ c.logLen \in Nat
    BY DEF TypeOK, AppendCalls
  <2>2. commitIndex[c.from] \in Nat /\ commitIndex'[c.from] \in Nat
    BY <2>1 DEF TypeOK
  <2> QED BY <1>1, <2>1, <2>2 DEF CommitsGrow, CommitsReach
<1>3. ASSUME \A d \in appendCalls' \ appendCalls : d.stage \notin {"spawned", "sent"}
      PROVE  CommitsReach'
  BY <1>2, <1>3
<1>4. \A n \in Node : commitIndex[n] \in Nat /\ commitIndex[n] <= Len(logEntries[n])
  BY CommitInLog DEF HistoryInv, TypeOK
<1>5. ASSUME NEW n \in Node, NEW s \in Slot, Broadcast(n, s) PROVE CommitsReach'
  <2>1. /\ UNCHANGED commitIndex
        /\ appendCalls' = appendCalls \cup {AppendCall(n, p, s) : p \in peers[n]}
    BY <1>5 DEF Broadcast, logVars
  <2>2. ASSUME NEW d \in appendCalls' \ appendCalls
        PROVE  /\ d.stage = "spawned" => d.commit <= d.logLen /\ d.commit <= commitIndex'[d.from]
               /\ d.stage = "sent" => d.commit <= d.prevIndex + Len(d.entries)
    <3>1. PICK p \in peers[n] : d = AppendCall(n, p, s)
      BY <2>1
    <3>2. /\ d.from = n /\ d.stage = "spawned" /\ d.commit = commitIndex[n]
          /\ d.logLen = Len(logEntries[n])
      BY <3>1 DEF AppendCall
    <3> QED BY <1>4, <2>1, <3>2
  <2> QED BY <1>2, <2>2
<1>6. ASSUME NEW c \in appendCalls, BuildAppend(c) PROVE CommitsReach'
  <2> DEFINE n == c.from
             log == logEntries[n]
             ni == IF nextIndex[n][c.to] = 0 THEN 1 ELSE nextIndex[n][c.to]
             sent == [c EXCEPT !.stage = "sent", !.prevIndex = ni - 1,
                        !.prevTerm = IF ni - 1 <= Len(log) THEN TermAt(log, ni - 1) ELSE 0,
                        !.entries = IF ni <= c.logLen THEN SubSeq(log, ni, Len(log)) ELSE <<>>,
                        !.logLen = 0]
             panics == ni <= c.logLen /\ ni > Len(log) + 1
  <2>1. c \in AppendCalls /\ n \in Node /\ c.to \in Node /\ c.logLen \in Nat /\ c.commit \in Nat
    BY DEF TypeOK, AppendCalls
  <2>2. log \in Seq(Entry) /\ Len(log) \in Nat /\ ni \in Nat /\ ni >= 1
    <3>1. log \in Seq(Entry) /\ nextIndex[n] \in [Node -> Nat]
      BY <2>1 DEF TypeOK
    <3>2. nextIndex[n][c.to] \in Nat
      BY <2>1, <3>1
    <3> QED BY <3>1, <3>2
  <2>3. CASE panics
    <3>1. ReplaceCall(c, EndedAs(c, "over"))
      BY <1>6, <2>3 DEF BuildAppend
    <3>2. \A d \in appendCalls' \ appendCalls : d.stage \notin {"spawned", "sent"}
      BY <2>1, <3>1, ReplaceCallAdds, EndedFields
    <3> QED BY <1>3, <3>2
  <2>4. CASE ~panics
    <3>1. ReplaceCall(c, sent)
      BY <1>6, <2>4 DEF BuildAppend
    <3>2. /\ sent.stage = "sent" /\ sent.commit = c.commit /\ sent.prevIndex = ni - 1
          /\ sent.entries = (IF ni <= c.logLen THEN SubSeq(log, ni, Len(log)) ELSE <<>>)
      BY <2>1 DEF AppendCalls
    <3>3. c.commit <= c.logLen /\ c.commit <= commitIndex[n]
      BY <1>6 DEF BuildAppend, CommitsReach
    <3>4. commitIndex[n] \in Nat /\ commitIndex[n] <= Len(log)
      BY <1>4, <2>1
    <3>5. appendCalls' \subseteq appendCalls \cup {sent}
      BY <3>1, ReplaceCallAdds
    <3>6. ~(ni <= c.logLen /\ ni > Len(log) + 1)
      BY <2>4
    <3> HIDE DEF sent, panics, ni, log
    <3>7. CASE ni <= c.logLen
      <4>1. Len(SubSeq(log, ni, Len(log))) = Len(log) - ni + 1
        BY <2>1, <2>2, <3>6, <3>7
      <4> QED BY <1>2, <2>1, <2>2, <3>2, <3>3, <3>4, <3>5, <3>7, <4>1
    <3>8. CASE ~(ni <= c.logLen)
      <4>1. c.commit <= ni - 1 + 0
        BY <2>1, <2>2, <3>3, <3>8
      <4>2. sent.entries = <<>> /\ Len(sent.entries) = 0
        BY <3>2, <3>8
      <4> QED BY <1>2, <3>2, <3>5, <4>1, <4>2
    <3> QED BY <3>7, <3>8
  <2> QED BY <2>3, <2>4
<1>7. ASSUME NEW c \in appendCalls, HandleAppendEntries(c) PROVE CommitsReach'
  <2>1. LeadersElected
    BY DEF LogInv
  <2>2. PICK d : /\ ReplaceCall(c, d) \/ LogWritten(c.to, CallsWith(c, d))
                 /\ d.stage \in {"replied", "acked", "over"}
    BY <1>7, <2>1, HandleAppendEffect
  <2>3. ReplaceCall(c, d)
    BY <2>2, ReplacedAlone
  <2> QED BY <1>3, <2>2, <2>3, ReplaceCallAdds
<1>8. ASSUME NEW c \in appendCalls, ReceiveAppend(c) \/ FailAppend(c) PROVE CommitsReach'
  <2>1. PICK s \in {"acked", "over"} : ReplaceCall(c, EndedAs(c, s))
    BY <1>8 DEF ReceiveAppend, FailAppend
  <2>2. c \in AppendCalls
    BY DEF TypeOK
  <2> QED BY <1>3, <2>1, <2>2, ReplaceCallAdds, EndedFields
<1>9. UNCHANGED appendCalls => CommitsReach'
  BY <1>3
<1>10. Election => UNCHANGED appendCalls
  BY DEF Election, StartElection, HandlePreVote, FailPreVote, ReceivePreVote,
         HandleRequestVote, ReceiveVote, FailVote
<1>11. (\E n \in Node : Propose(n) \/ Apply(n) \/ ContactAges(n)) => UNCHANGED appendCalls
  BY WrittenAlone DEF Propose, Apply, ContactAges
<1> QED BY <1>5, <1>6, <1>7, <1>8, <1>9, <1>10, <1>11 DEF Next, Replication

---------------------------------------------------------------------------
(* The cluster in which no late reply is counted *)

\* The members of a cluster in which a leader counts only what was answered in its own
\* term: ReceiveAppend does not look at the term of the reply, so it is an assumption.
TimelySpec == Spec /\ [][~LateRead]_vars

\* There is a history of proposed logs, won elections and acknowledgements that explains
\* every log, vote, request and reply there is.
SafeInv == CommitsReach /\ \E M, W, A : HistoryInv(M, W, A)

\* At first the history is empty: only the empty log, no election, nothing acknowledged.
LEMMA SafeInit == Init => SafeInv
<1> SUFFICES ASSUME Init PROVE SafeInv
  OBVIOUS
<1> DEFINE M == {<<>>}
<1>1. /\ \A n \in Node : /\ logEntries[n] = <<>> /\ state[n] = "Follower"
                         /\ matchIndex[n][n] = 0 /\ commitIndex[n] = 0 /\ applied[n] = <<>>
      /\ voteCalls = {} /\ appendCalls = {} /\ elected = {}
  BY DEF Init
<1>2. CommitsReach
  BY <1>1 DEF CommitsReach
<1>3. ProposedInv(M, {})
  <2>1. M \subseteq Seq(Entry) /\ <<>> \in M
    OBVIOUS
  <2>2. \A L \in M : L = <<>> /\ Len(L) = 0 /\ LastTerm(L) = 0
    BY DEF LastTerm, TermAt
  <2>3. \A L \in M : \A i \in 0..Len(L) : SubSeq(L, 1, i) \in M
    OBVIOUS
  <2>4. Comparable(<<>>, <<>>)
    BY DEF Comparable, Begins
  <2>5. \A K, L \in M : K = L /\ LastTerm(K) <= LastTerm(L)
    BY <2>2
  <2> HIDE DEF M
  <2>6. \A K, L \in M : Comparable(K, L)
    BY <2>2, <2>4
  <2> QED BY <2>1, <2>2, <2>3, <2>5, <2>6 DEF ProposedInv
<1>4. \A K : ~Escaped({}, K)
  BY DEF Escaped
<1>5. WinnersInv(M, {})
  BY <1>1 DEF WinnersInv
<1>6. AcksInv(M, {}, {})
  BY <1>4 DEF AcksInv
<1>7. NodesInv(M, {}, {})
  BY <1>1 DEF NodesInv
<1>8. CallsInv(M, {}, {})
  BY <1>1 DEF CallsInv
<1>9. \A n \in Node : CommitNode(M, {}, n)
  BY <1>1 DEF CommitNode, Begins
<1> HIDE DEF M
<1>10. HistoryInv(M, {}, {})
  BY <1>3, <1>5, <1>6, <1>7, <1>8, <1>9 DEF HistoryInv
<1> QED BY <1>2, <1>10 DEF SafeInv

\* Every step extends the history.
LEMMA SafeStep ==
  ASSUME ~LateMarshal, TypeOK, TypeOK', ElectionInv, ElectionInv', LogInv, SafeInv,
         [Next]_vars, [~LateRead]_vars
  PROVE  SafeInv'
<1>1. PICK M, W, A : HistoryInv(M, W, A)
  BY DEF SafeInv
<1>2. CommitsReach
  BY DEF SafeInv
<1>3. CASE UNCHANGED vars
  <2>1. UNCHANGED <<nodeVars, elected, logEntries, matchIndex, commitIndex, applied,
                    voteCalls, appendCalls>>
    BY <1>3 DEF vars, nodeVars, logVars, leadVars, viewVars
  <2>2. NodesKept /\ NoneGranted
    BY <2>1, NoVoteGranted DEF NodesKept, nodeVars
  <2>3. \A d \in appendCalls' \ appendCalls :
          d.stage \in {"acked", "over"} \/ (d.stage = "replied" /\ ~d.success)
    BY <2>1
  <2>4. HistoryInv(M, W, A)'
    BY <1>1, <2>1, <2>2, <2>3, DeposingStep
  <2>5. CommitsReach'
    BY <1>2, <2>1 DEF CommitsReach
  <2> QED BY <2>4, <2>5 DEF SafeInv
<1>4. CASE Election
  <2>1. CommitsReach'
    BY <1>1, <1>2, <1>4, CommitsReachKept DEF Next
  <2>2. \E W2 : HistoryInv(M, W2, A)'
    BY <1>1, <1>4, ElectionHistory
  <2> QED BY <2>1, <2>2 DEF SafeInv
<1>5. CASE Replication /\ ~UNCHANGED vars
  <2>1. CommitsReach'
    BY <1>1, <1>2, <1>5, CommitsReachKept DEF Next
  <2>2. ~LateRead
    BY <1>5
  <2>3. \E M2, A2 : HistoryInv(M2, W, A2)'
    BY <1>1, <1>2, <1>5, <2>2, ReplicationHistory
  <2> QED BY <2>1, <2>3 DEF SafeInv
<1> QED BY <1>3, <1>4, <1>5 DEF Next

\* The history exists in every state of a cluster in which no late reply is counted and
\* every request is marshalled as soon as it is built.
THEOREM HistoryExists == ASSUME ~LateMarshal PROVE TimelySpec => []SafeInv
<1>1. (TypeOK /\ TypeOK' /\ ElectionInv /\ ElectionInv' /\ LogInv /\ SafeInv
       /\ [Next]_vars /\ [~LateRead]_vars) => SafeInv'
  BY SafeStep
<1> QED BY <1>1, SafeInit, TypeCorrect, ElectionInvariant, LogInvariant, PTL
           DEF TimelySpec, Spec

\* Of two logs that majorities acknowledged, one begins the other: the winner of the later
\* term, in whose term the longer one was proposed, had the earlier one.
LEMMA ChosenComparable ==
  ASSUME NEW M, NEW W, NEW A, ProposedInv(M, W), WinnersInv(M, W), AcksInv(M, W, A),
         NEW K \in M, NEW L \in M, Chosen(A, K), Chosen(A, L), LastTerm(K) <= LastTerm(L)
  PROVE  Comparable(K, L)
<1>1. K \in Seq(Entry) /\ L \in Seq(Entry)
  BY DEF ProposedInv
<1>2. LastTerm(K) \in Nat /\ LastTerm(L) \in Nat
  BY <1>1, LastTermType
<1>3. CASE LastTerm(K) = LastTerm(L)
  BY <1>3 DEF ProposedInv
<1>4. CASE LastTerm(K) < LastTerm(L)
  <2>1. L # <<>>
    BY <1>2, <1>4 DEF LastTerm, TermAt
  <2>2. PICK w \in W : w.term = LastTerm(L) /\ Begins(w.log, L)
    BY <2>1 DEF ProposedInv
  <2>3. ~Escaped(W, K)
    BY ChosenKept
  <2>4. Begins(K, w.log) /\ w.log \in Seq(Entry)
    BY <1>2, <1>4, <2>2, <2>3 DEF Escaped, WinnersInv, ProposedInv
  <2> QED BY <1>1, <2>2, <2>4, BeginsOrder DEF Comparable
<1> QED BY <1>2, <1>3, <1>4

\* A committed entry is the one of a chosen log at its position.
LEMMA CommittedChosen ==
  ASSUME TypeOK, NEW M, NEW W, NEW A, HistoryInv(M, W, A), NEW n \in Node,
         NEW i \in 1..commitIndex[n]
  PROVE  \E K \in M : /\ Chosen(A, K) /\ i <= Len(K) /\ i <= Len(logEntries[n])
                      /\ logEntries[n][i] = K[i] /\ K \in Seq(Entry)
<1>1. commitIndex[n] \in Nat /\ Len(logEntries[n]) \in Nat
  BY DEF TypeOK
<1>2. PICK K \in M : /\ Chosen(A, K) /\ commitIndex[n] <= Len(K)
                     /\ commitIndex[n] <= Len(logEntries[n])
                     /\ \A j \in 1..commitIndex[n] : logEntries[n][j] = K[j]
  BY <1>1 DEF HistoryInv, CommitNode
<1>3. K \in Seq(Entry) /\ Len(K) \in Nat
  BY DEF HistoryInv, ProposedInv
<1> QED BY <1>1, <1>2, <1>3

\* The history makes applied entries agree and committed entries held by a majority.
LEMMA SafeLogs ==
  ASSUME TypeOK, SafeInv
  PROVE  StateMachineSafety /\ CommittedOnMajority
<1>1. PICK M, W, A : HistoryInv(M, W, A)
  BY DEF SafeInv
<1>2. ProposedInv(M, W) /\ WinnersInv(M, W) /\ AcksInv(M, W, A)
  BY <1>1 DEF HistoryInv
<1>3. StateMachineSafety
  <2> SUFFICES ASSUME NEW m \in Node, NEW n \in Node, NEW i \in 1..Len(applied[m]),
                      i <= Len(applied[n])
               PROVE  applied[m][i] = applied[n][i]
    BY DEF StateMachineSafety
  <2>1. /\ Len(applied[m]) \in Nat /\ Len(applied[n]) \in Nat
        /\ commitIndex[m] \in Nat /\ commitIndex[n] \in Nat
    BY DEF TypeOK
  <2>2. /\ Len(applied[m]) <= commitIndex[m] /\ Begins(applied[m], logEntries[m])
        /\ Len(applied[n]) <= commitIndex[n] /\ Begins(applied[n], logEntries[n])
    BY <1>1 DEF HistoryInv, CommitNode
  <2>3. i \in 1..commitIndex[m] /\ i \in 1..commitIndex[n] /\ i \in 1..Len(applied[n])
    BY <2>1, <2>2
  <2>4. PICK K \in M : /\ Chosen(A, K) /\ i <= Len(K) /\ logEntries[m][i] = K[i]
                       /\ K \in Seq(Entry)
    BY <1>1, <2>3, CommittedChosen
  <2>5. PICK L \in M : /\ Chosen(A, L) /\ i <= Len(L) /\ logEntries[n][i] = L[i]
                       /\ L \in Seq(Entry)
    BY <1>1, <2>3, CommittedChosen
  <2>6. LastTerm(K) \in Nat /\ LastTerm(L) \in Nat
    BY <2>4, <2>5, LastTermType
  <2>7. Comparable(K, L) \/ Comparable(L, K)
    <3>1. CASE LastTerm(K) <= LastTerm(L)
      BY <1>2, <2>4, <2>5, <3>1, ChosenComparable
    <3>2. CASE LastTerm(L) <= LastTerm(K)
      BY <1>2, <2>4, <2>5, <3>2, ChosenComparable
    <3> QED BY <2>6, <3>1, <3>2
  <2>8. K[i] = L[i]
    BY <2>1, <2>3, <2>4, <2>5, <2>7 DEF Comparable, Begins
  <2>9. applied[m][i] = logEntries[m][i] /\ applied[n][i] = logEntries[n][i]
    BY <2>2, <2>3 DEF Begins
  <2> QED BY <2>4, <2>5, <2>8, <2>9
<1>4. CommittedOnMajority
  <2> SUFFICES ASSUME NEW n \in Node, NEW i \in 1..commitIndex[n]
               PROVE  /\ i <= Len(logEntries[n])
                      /\ 2 * Cardinality({m \in Node : /\ i <= Len(logEntries[m])
                                                       /\ logEntries[m][i] = logEntries[n][i]})
                           > Cardinality(Node)
    BY DEF CommittedOnMajority
  <2> DEFINE S == {m \in Node : /\ i <= Len(logEntries[m])
                                /\ logEntries[m][i] = logEntries[n][i]}
  <2>1. PICK K \in M : /\ Chosen(A, K) /\ i <= Len(K) /\ i <= Len(logEntries[n])
                       /\ logEntries[n][i] = K[i] /\ K \in Seq(Entry)
    BY <1>1, CommittedChosen
  <2>2. PICK Q \in SUBSET Node : /\ 2 * Cardinality(Q) > Cardinality(Node)
                                 /\ \A v \in Q : <<v, K>> \in A
    BY <2>1 DEF Chosen
  <2>3. ~Escaped(W, K)
    BY <1>2, <2>1, ChosenKept
  <2>4. ASSUME NEW v \in Q PROVE v \in S
    <3>1. <<v, K>> \in A /\ <<v, K>>[1] = v /\ <<v, K>>[2] = K
      BY <2>2
    <3>2. Kept(W, v, K)
      BY <1>2, <3>1 DEF AcksInv
    <3>3. Begins(K, logEntries[v])
      BY <2>3, <3>2 DEF Kept
    <3>4. v \in Node /\ Len(K) \in Nat /\ commitIndex[n] \in Nat
      BY <2>1, <2>2 DEF TypeOK
    <3>5. i \in Nat /\ i >= 1 /\ Len(logEntries[v]) \in Nat
      BY <3>4 DEF TypeOK
    <3> QED BY <2>1, <3>3, <3>4, <3>5 DEF Begins
  <2>5. Q \subseteq S /\ S \subseteq Node
    BY <2>4
  <2> HIDE DEF S
  <2>6. IsFiniteSet(S) /\ IsFiniteSet(Q)
    BY <2>5, NodeAssumption, FS_Subset
  <2>7. Cardinality(Q) <= Cardinality(S)
    BY <2>5, <2>6, FS_Subset
  <2>8. /\ Cardinality(Q) \in Nat /\ Cardinality(S) \in Nat /\ Cardinality(Node) \in Nat
    BY <2>6, NodeAssumption, FS_CardinalityType
  <2>9. 2 * Cardinality(S) > Cardinality(Node)
    BY <2>2, <2>7, <2>8
  <2> QED BY <2>1, <2>9 DEF S
<1> QED BY <1>3, <1>4

\* No two members ever apply different entries at one position (applyCommitted), whatever
\* the size of the cluster, as long as no late reply is counted and every request is
\* marshalled as soon as it is built.
THEOREM AppliedAgree == ASSUME ~LateMarshal PROVE TimelySpec => []StateMachineSafety
<1>1. TypeOK /\ SafeInv => StateMachineSafety
  BY SafeLogs
<1> QED BY <1>1, HistoryExists, TypeCorrect, PTL DEF TimelySpec

\* What a member takes for committed (maybeCommit, HandleAppendEntries) is in the logs of
\* a majority, under the same two conditions.
THEOREM CommittedHeld == ASSUME ~LateMarshal PROVE TimelySpec => []CommittedOnMajority
<1>1. TypeOK /\ SafeInv => CommittedOnMajority
  BY SafeLogs
<1> QED BY <1>1, HistoryExists, TypeCorrect, PTL DEF TimelySpec

\* No step takes a commit index back or removes an entry of a leader, under the same two
\* conditions.
THEOREM CommitsStay == ASSUME ~LateMarshal PROVE TimelySpec => NothingTakenBack
<1>1. (TypeOK /\ TypeOK' /\ ElectionInv /\ LogInv /\ SafeInv /\ [Next]_vars)
        => [\A n \in Node : commitIndex'[n] >= commitIndex[n] /\ OnlyAppended(n)]_vars
  <2> SUFFICES ASSUME TypeOK, TypeOK', ElectionInv, LogInv, SafeInv, Next
               PROVE  \A n \in Node : commitIndex'[n] >= commitIndex[n] /\ OnlyAppended(n)
    OBVIOUS
  <2>1. CommitsReach
    BY DEF SafeInv
  <2>2. CommitsGrow
    BY <2>1, CommitsNeverBack
  <2>3. \A n \in Node : OnlyAppended(n)
    BY LeadersAppend DEF LogInv
  <2> QED BY <2>2, <2>3 DEF CommitsGrow
<1> QED BY <1>1, HistoryExists, TypeCorrect, ElectionInvariant, LogInvariant, PTL
           DEF TimelySpec, Spec, NothingTakenBack

===============================================================================
