# GoProxify: verification project

TLA+ models of the parts of GoProxify whose correctness depends on concurrency,
failure and ordering, the TLC runs that check them on small instances, and TLAPS
proofs of their main safety properties for every size. `PROJECT.json` maps every
definition to the lines it models and lists runs, findings, hazards and theorems.

## The system

GoProxify is one binary with three roles. The **Administration** keeps users,
settings and certificates and pushes configuration; a **gateway** (Edge) proxies
traffic and can live without the Administration from what it has on disk; an
**Agent** reports the containers of a host to gateways. Gateways form
high-availability groups without a coordinator (ADR 0014): each one pulls from its
peers every fifteen seconds and merges what is newer. Several Administrations elect
a leader with a Raft of their own.

### Inventory

| Component | State | Operations | Hard behaviour | Properties that make it correct |
|---|---|---|---|---|
| Raft (`edge/raft`, used by `admin/ha`) | term, vote, log, commit index, nextIndex, matchIndex, pre-vote round | election, vote, AppendEntries, commit, apply, restart | one goroutine per RPC, replies after the term is over, requests that share the log's array, restart without a disk | one leader per term, logs agree, nothing committed is lost, every round ends |
| Configured proxies of a group (`edge/proxy_replica.go`, `proxyfiles.go`, `proxyapi.go`, `proxystore/tombstones.go`) | files, tombstones, routing table, its cached copy | promote, delete, pull, merge, restart | a merge works on copies taken earlier; three stores with three locks; crash between two | newest wins, deletions stay, the table follows the files, members converge |
| Proxy file store (`edge/proxystore`) | directory, index, listing | write, rename, delete, list | directory changed outside the lock of the index | the listing is the directory, a deletion deletes |
| Revision pipeline (`edge/proxypipeline`) | revision files, production | create, dry run, promote, reject | read-modify-write without a lock, check before use | no two proxies claim one host, nothing unvalidated, nothing rejected in production |
| Routing table (`edge/router`) | routes by identifier, owner of each host | upsert, delete, replace | readers without the lock, objects shared with their callers | a host kept is never unserved, owners claim what they serve |
| Agent sources and full state (`agent/docker`, `agent/statepub`, `edge/agentstate*.go`, `agenthandlers.go`) | known containers; generation and last state | events, scans, accept, apply, prune, push, pull | events and states overtake each other, calls fail, gateways restart | routes follow the containers |
| WebSocket hub (`edge/ws`, `agent/wsclient`) | connections, pending Agents, secrets, tokens | join, approve, revoke, rotate, reconnect | a goroutine per connection, a loop per rotation | a connected Agent is reachable, an approved one can return |
| Agents' secrets in a group (`agent_replica.go`, `ws/agenthmacstore.go`) | secret, date, tombstone; its file | set, delete, merge, push, pull, save | push and pull cross, saves share a file | a last-writer register; members agree; revoked stays revoked |
| Administration links and pushed settings (`admin/edgews`, `edge/wshandlers.go`, `edge/pushed_replica.go`) | queue, connection, journal | push, synchronise, journal, pull | reconnection, lost writes, peers with an older document | a gateway ends with the last document |
| Executor of a group (`executor.go`) | peers seen, rules reported | choose, forward, report | members see each other alive at different times | a firing is reported, and once |
| Bans (`ban_gossip.go`, `bansdb`, `internalapi.go`) | rows, unbans, the blocking store | decide, gossip, pull, unban, reload | an unban overtakes its ban | a ban spreads, the store follows the rows, an unban is not undone |
| Load balancing and health checks (`edge/proxy`) | verdicts, quarantines, circuits | probe, try, fail over, reconfigure | a late probe, a late answer | the rotation follows the backends, one probe at a time |
| Deployment engine (`deploy`) | objects made | plan, create, start, undo | failure in the middle, cancellation, two deployments | all or nothing, and nothing taken that was there before or is in use |
| Admin HA forwarding (`admin/ha`), peer health (`peer_health.go`) | leader last heard of; failures per peer | forward; probe, back off | stale leader; back-off | not modelled yet |
| Disk cache of responses (`edge/proxy/diskcache.go`, `dispatch.go`) | a file per variant of a URL, the list of headers variants depend on, flights, keys being revalidated | look up, share a flight, fetch and store, revalidate, purge | requests wait for one of them; the list changes under way; a new configuration has its own locks on the same files | nobody is given another variant or a private answer, nobody is left waiting |
| Certificates, backups, automation, alerting, portal and ECH replicas, quotas | entries, schedules, stores | evict, renew, run, merge | retries | not modelled yet |
| Firewall, threat scores, surface, request path, UI, CLI, importers | scores; none | — | data, not control | not modelled |

Components interact by HTTP calls between gateways (pulls and pushes of sealed
documents), WebSocket messages between Administration, gateways and Agents, and, in
one process, by stores with a mutex each. Nothing spans two stores.

### Plan

Done: Raft; ProxyReplica, ProxyStore, ProxyPipeline; RoutingTable, AgentState,
AgentLink, SecretStore and AdminPush with their abstract specification LastWriter
(JournalRegister), RuleExecutor, Bans, Upstream, Deploy, DiskCache. Every safety property
of the passing runs has a theorem.

Left, in this order: HA forwarding composed with Raft, and a change of Raft's
membership; ProxyReplica shown to implement a register like LastWriter, with the
exceptions of NothingLost; the portal's and the ECH stores; peer health with its
back-off; certificates.

## Modules

| Module | Models | State | Actions |
|---|---|---|---|
| `Raft` | `edge/raft/raft.go` | one variable per field of Node; `voteCalls`, `appendCalls`: the RPC goroutines; `preVote`: the round under way | one per critical section of `n.mu` or RPC handler; `LogWritten`: what a write of a log does to requests that are yet to be marshalled |
| `ProxyReplica` | a proxy identifier on all members | `file`, `tomb`, `table`, `cache` per member; `calls`: API handlers; `sync`: the synchronisation goroutine | one per access to a store |
| `ProxyStore` | `proxystore/store.go` | `file`: the directory; `idIndex`, `listCache`; `ops`: writes and deletions; `build`: a rebuild under `idMu` | one per access to the directory or critical section of `idMu` |
| `ProxyPipeline` | `proxypipeline` | `status`, `dryRun` in the revision files; `prod`; `calls` | one per read, check or write of a file |
| `RoutingTable` | `router/table.go` and its callers | `object`: Route objects; `routes`, `byHost`; `mu`; `task`: writers | one per access to the map of hosts |
| `AgentState` | the way from Docker's events to the routes of all gateways | the Agent's `known`, `due`, `last`, the event it is `handling` and its `scans`; a gateway's `accepted`, `kept`, `pool`, and `calls`; `missed`: what Docker failed to tell | one per half of an event, step of a scan (snapshot, list, one forgotten, its report, tracking, publication), route applied, end of a state, pull |
| `AgentLink` | an Agent's connections to a gateway | `conn`: each connection and its goroutine; the hub's maps; `store`; `loops` | one per critical section of the hub |
| `SecretStore` | `agenthmacstore.go` and its exchange | `entry`, `disk`, `saves`, `timer`, `posts`; `entering`, `linked`, `revoking`: the Agent's connections; `lapsed`: those left without a secret | one per store operation, message, step of a save, check and registration of a connection, half of a revocation |
| `LastWriter` | what a replicated store promises for one key | `writings`, `held`, `recalls` | write, learn, recall (a restart) |
| `AdminPush` | one document from the Administration's database to all gateways | `client`, `pushes`, `wire`; `applied`, `journal` | one per step of Send, of connect and of the gateway's handlers |
| `JournalRegister` | the journals of AdminPush, as the register of LastWriter | `entered`: history of the entries put in a journal | those of AdminPush |
| `RuleExecutor` | `executor.go` | `seen`, `firing`, `requests`, `recent`, `reports` | choice, forward, answer or time-out, report |
| `Bans` | one address in a group and at the Administration | `row`, `unbanned`, `blocked`, `reading`; `orderBox`, `reportBox` | one per handler, message and half of a reload |
| `Upstream` | one route's backends | `verdict`, `streak`, `quarantine`, `circuit`, `checks`, `request` | measure and verdict of a check, arrival of a request, each call and, later, what is recorded of it |
| `Deploy` | `deploy/engine.go`, with Docker | `host`, `uses`: Docker; `apply`: each deployment | one per call to Docker |
| `DiskCache` | `proxy/diskcache.go`, one URL of one route | `task`: requests and revalidations; `stored`, `varyFile`: the files; `flights`, `refreshing` | lookup, entry into a flight, answer, the two writes, end; a file purged; a new configuration |
| `MC...` | instances; MCFiles, MCComponents, MCRecovery and MCProtection put several parts side by side, MCRaftLate has two schedules of Raft, one of three members and one of five | | |
| `Raft_proofs`, `ProxyReplica_proofs`, `SecretStore_proofs` | theorems about the module of that name | | |
| `AdminPush_proofs` | theorems about AdminPush, JournalRegister | | |
| `Recovery_proofs` | theorems about AgentState, MCRecovery | | |
| `Components_proofs` | theorems about RoutingTable, AgentLink, Deploy, RuleExecutor, ProxyPipeline, MCComponents | | |
| `Protection_proofs` | theorems about Bans, Upstream, MCProtection | | |
| `Files_proofs` | theorems about ProxyStore, DiskCache, MCFiles | | |

The three proxy modules look at one component from three sides. ProxyReplica takes
WriteProd and DeleteProdByID as atomic; ProxyStore opens them up; ProxyPipeline
shows what makes a revision reach WriteProd at all. Identifiers do not interact in
ProxyReplica; they do in the other two, through hosts and file names. In the same
way SecretStore and AgentLink look at an Agent's secret from the group and from one
gateway, and AgentState and RoutingTable at a discovered route.

`SecretStore` is shown to implement `LastWriter` (NewestWins): an entry is mapped to
the later of its stamp and its tombstone with the secret, if any, as its value. The
register counts restarts, so that nothing else may take a member back. `JournalRegister`
shows the same of the journals of pushed documents, which survive restarts: a journal's
entry is mapped to its instant and document, and the history `entered` gives the writings
no gateway has any more.

Operators named `X_something` are plausible faults of `X`: each makes one property
fail, which shows that the property depends on the code.

### Abstractions

- Time. Raft's timers may fire at any moment; `lastLeaderContact` is never, stale or
  fresh. In ProxyReplica and SecretStore versions and deletions are stamps of one
  clock: members are assumed synchronised, and two edits never to have the same
  instant. The code compares clocks of different machines and has no other order. In
  Bans the clock has seconds, as the rows have, and several events may share one.
  Quarantines, windows and pings end at any moment.
- Calls. A Raft RPC is never duplicated (an HTTP POST is not retried) but is
  delayed, lost and overtaken freely. Its entries are a slice of the caller's log until
  they are marshalled: when that log is written meanwhile, each entry that was not read
  before shows the new contents, and one read during the write a mixture (LogWritten;
  excluded by LateMarshal FALSE). Whether a write fits the array or moves the log is left
  open. A pull fails at any point; the peer only reads.
  Messages of one WebSocket arrive in order and are lost with it.
- Disk. A rename is atomic. Errors of the disk and of SQLite are left out, except that
  a missing file is handled as in the code, and two saves of the secrets that overlap
  may leave either copy or a file cut short, and the second may fail, for they share one
  temporary file; a merge whose save failed closes no connection.
- Data. A log entry is its term and proposer, a proxy version its stamp, a host a
  number in the order of file names; the checks of a route's own fields are a set. A
  secret is the number of its creation, a document one of two contents, a container
  its route. Generations are numbers; the code's clock-based floor only makes them
  larger.
- Disk cache. One URL, and one request header that an answer depends on or not. Requests
  of one configuration are ordered by its mutex; those of two share the files only, and a
  file read or written while the other writes it may be one that cannot be parsed. A purge
  removes its files one by one, whatever its selector. Requests that bypass the cache take
  no part.
- Docker (external) keeps objects by name, takes a volume that exists as created, makes a
  missing one along with the container that mounts it, refuses a network or container that
  exists, and does not remove what is in use. For the Agent, it may fail to list or to
  inspect, and its stream of events may break.

## Runs

Bounds are named constants; deadlock is not checked where the bounds stop the
system.

| Run | Shows | Bounds |
|---|---|---|
| `raft_election` | TypeOK, OneLeaderPerTerm, ElectionInv, PreVoteEnds (liveness): heartbeats reset votes, calls fail | 3 nodes, 1 term, everyone a candidate |
| `raft_replication` | StateMachineSafety, CommittedOnMajority, NothingTakenBack | 3 nodes, 2 leaders in turn, 1 position both write, requests marshalled at any time |
| `raft_restart` | a disagreement, below | one restart in one term |
| `raft_late_reply` | a disagreement, below | 3 nodes, 5 terms, 2 positions, one schedule of elections and broadcasts |
| `proxies_restart` | TypeOK, MergeInv, DeletedStaysDeleted, NothingLost, AdoptsNewer, NeverGoesBack, NewestReachesAll (liveness), with a restart at any step | 2 members, 2 edits, 1 restart, edits and merges of a member apart |
| `proxies_converge` | Converges (liveness), edits and merges overlapping | 2 members, 2 edits |
| `proxies_overlap` | a disagreement | |
| `files_overlap` | ProxyStore: ListingFresh, everything overlapping; DiskCache: RightVariant, RequestsEnd (liveness); the type invariants | an HTTP and a TCP proxy of one host, 4 operations; 2 requests, 2 values of the header, 1 tick, 1 reconfiguration or file purged, at most one expired answer left by an earlier process |
| `components` | RoutingTable: OwnersClaim, HostNeverDropped; AgentLink: ReachableWhileRead, AgentCanReturnUnlessCut; Deploy: FailureLeavesNothing, OthersKept; RuleExecutor: ReportedOnce; ProxyPipeline: NoConflict, OnlyValidated; the type invariants | 2 writers, 3 identifiers, 2 hosts, 3 route objects; 3 connections, 1 order besides a pre-approval, 2 rotations, 2 faults; 2 deployments with a common network and a common volume, 3 failed calls; 3 members, 2 upsets; 2 local revisions of 2 proxies for one host, 1 adopted, 4 calls |
| `recovery` | AgentState: RoutesFollow; SecretStore: NewestWins (refinement), MembersAgree; AdminPush: JournalIsApplied, DocumentReaches; the type invariants | 2 gateways; 2 changes of a container, 2 faults; 2 writings, 1 restart, an Agent that connects to one gateway (Reached); 2 edits, 1 break |
| `protection` | Bans: BlockedIsStored, BanSpreads; Upstream: OneProbe, RotationFollows; the type invariants | 2 gateways, 1 ban, 1 unban or list, 1 outage, 2 seconds; 2 backends, one of which may break or come back once (Fragile), 2 requests, thresholds 1 up and 2 down, 1 reconfiguration |
| `link_rotation` | a disagreement | 2 connections, 1 rotation, 1 cut |

`files_overlap` and the last three passing runs hold several parts that share no variable. `focus`
chooses which one a behaviour moves, so that the states explored are the sum of the
parts' and not their product; the others stay in an initial state in which none of
their fair steps is enabled.

Why the bounds are enough to be interesting: in one term three candidates can vote,
be told of the winner, forget the vote and vote again; two terms let an old leader's
calls meet its successor; two edits are a version and a deletion of it, or two
versions, on different members, in either order; four calls are two dry runs and two
promotions, or one and a deletion of what stands in the way. Three route objects are a
configured route, a discovered one that claims its host, and a second version of
either; three connections are a first approval, a reconnection and one that
overlaps the end of its predecessor; three failed calls break a creation and two
removals of its rollback; two writings are an approval and a revocation on
different gateways; two edits with a break are a document that waits in the queue
while the connection is made again; two requests are a leader and one that waits for
it, or a revalidation and a request of the next configuration (RightVariant was also
checked with three requests and no reconfiguration, 5.2 million states). They do not make the results general: the
theorems do, where there are any.

### Fairness

Goroutines that can run do run (the Go scheduler): weak fairness of every step of a
call, a handler or a synchronisation goroutine. A pull of ProxyReplica needs more: a
peer asked in every round answers in the end, strong fairness of its answer, since
the ticker asks again for ever. In the other modules weak fairness is enough: a lost
call counts against a bound, and a pull is one step. Raft's PreVoteEnds needs only
that each call is answered or times out, which the HTTP client's deadline guarantees.
AgentState: events are read, a scan that is due (stateTimer, or dirty every twenty
seconds) is made. AdminPush: connectLoop dials again. Upstream: checks repeat at
their interval, and a quarantine ends. DiskCache: a backend answers or its connection
breaks in the end (the transport bounds the connection and the headers; a body is
taken to end). Nothing is assumed of edits, failures,
restarts, requests or orders of an operator.

### Disagreements found

Four have a run whose property TLC violates; the finding in `PROJECT.json` quotes the
text that promises it.

- `raft_restart`: term and vote are not kept on disk; a restarted member votes twice.
- `raft_late_reply`: the answer to a request of an earlier term is counted in the
  present one, and a leader commits what it alone holds; it takes three members, five
  terms and a goroutine that waits for the node's mutex through two elections.
- `proxies_overlap`: a merge overwrites a version promoted after it listed the files.
- `link_rotation`: a secret rotated when the connection has just broken locks the
  Agent out; the FAQ says the old one stays valid until the next connection.

The others are stated as properties of their modules. Each is refuted by TLC with the
constants given here, the other ones as in the module's run:

| Property | What happens | How to see it |
|---|---|---|
| `Raft!ProposalsReachAll` | a follower with two conflicting last entries is never repaired (`raft.go:621`) | MCRaft with `DivergenceSpec`, 3 nodes, MaxTerm 3, MaxLog 2, Electable <- EachOnce, one slot, LateVotes, Lossy and LateMarshal FALSE |
| `Raft!LogMatching`, `Raft!StateMachineSafety` with LateMarshal | a request holds a slice of the leader's log and is marshalled after the unlock (`raft.go:467`, `transport.go:49`); a HandleAppendEntries of the next term overwrites the array (`raft.go:635`), and the request of the old term brings the new term's second entry to a log whose first entry is the old one's. That member can lead, and applies another first entry than the rest | MCRaftLate with `SharedSpec`, 5 nodes, MaxTerm and MaxLog 3, Slot {1, 2}, LateVotes and LateMarshal TRUE, Lossy FALSE; nothing is found with LateMarshal FALSE |
| `ProxyReplica!RoutedFromFiles` | a process stopped within half a second of a deletion routes the deleted proxy again (`proxyfiles.go:57`) | as `proxies_restart`, MaxPulls 1 |
| `ProxyStore!DeleteRemoves` | a listing during a change of host makes a later deletion leave the file (`store.go:403`) | MCFiles, 1 proxy, 2 hosts, HostOf <- AnyHost, Serial TRUE |
| `ProxyStore!ListingFresh` with a change of host | a listing made between the index entry of the new file and the removal of the old one keeps both; nothing drops it afterwards (`store.go:403`) | as above |
| `ProxyStore!OnlyDeletedGoes` | the deletion of a TCP or UDP proxy removes `<host>.yaml` without looking whose it is (`store.go:367`, `store.go:428`): an HTTP proxy of the same host, which a dry run allows beside it (`dryrun.go:180`), loses its file | as `files_overlap` |
| `ProxyPipeline!RejectBlocksPromote` | a rejection concurrent with a dry run or a promotion is lost (`pipeline.go:150`) | 1 revision, 3 calls |
| `RoutingTable!OwnersClaim` with Relabel | an alias withdrawn by a label is still served: the announcement changes the object that Upsert then compares with itself (`agenthandlers.go:639`) | Relabel = TRUE |
| `AgentState!RoutesFollow` with Overlap, or FailoverSpec | a state accepted earlier and still being applied undoes a newer one; an Agent that moves to a member which kept an older pool (`agentstate.go:157`) | Overlap = TRUE; or SPECIFICATION FailoverSpec |
| `AgentState!RoutesAlwaysFollow` | `dirty` is cleared before the scan, and a failed list does not set it again (`discovery.go:175`, `discovery.go:196`); a failed inspection drops the start (`discovery.go:339`); events are not read again after the stream broke (`discovery.go:148`); and without any failure, a stop of a container that a scan has listed and that is not known yet is ignored, and the scan publishes it (`discovery.go:378`). The comment at `discovery.go:165` promises that no change during a cut is lost | AgentSpec as in `recovery`, MaxFault 1; or MaxFault 0, MaxChange 3 |
| `Deploy!OnlyOwnRemoved` | two plans find one volume missing, and Docker takes the second creation as done; a rollback removes the volume the other deployment made (`engine.go:138`, `engine.go:221`, `engine.go:341`), against the comment at `engine.go:174` | as `components` |
| `AgentLink!ReachableWhileRead` with Late | a goroutine delayed past the Agent's next connection takes its place in the map (`hub.go:332`) | Late = TRUE |
| `AgentLink!AgentCanReturnUnlessCut` with Crossing | an Agent approved before its goroutine registers has two rotation loops (`hub.go:355`, `hub.go:473`); when their rotations cross the Agent keeps the older secret and the gateway the newer | Crossing = TRUE, 2 connections, 2 rotations, no cut |
| `AgentLink!ApprovedHasSecret` | a secret made for an Agent with a consumed token is stored, and the connection keeps the empty one read before (`hub.go:301`) | AuthToken = TRUE |
| `SecretStore!NoneLapses` | a connection outlives its secret: a merge whose save fails returns before DisconnectAgents (`agent_replica.go:155`), which two overlapping saves of one `.tmp` bring about (`agenthmacstore.go:210`); or the secret goes between the check of a connection and its registration (`hub.go:263`, `hub.go:332`), or an Agent connects between the two halves of RevokeAgent | SecretSpec as in `recovery` |
| `SecretStore!SavedIsCurrent` | two saves that overlap leave an older copy, or a file cut short (`agenthmacstore.go:193`) | as `recovery` |
| `AdminPush!ConnectedIsCurrent` | a gateway that has the newest document adopts an older one from a peer that received it later, until the newest reaches that peer (`pushed_replica.go:296`) | as `recovery` |
| `AdminPush!DocumentReaches` with PushOverlap | pushes of two edits overtake each other and the older one is last, on the link or after the synchronisation of a new one; a failed write on an old connection also forgets the new one (`client.go:133`, `client.go:305`) | PushOverlap = TRUE |
| `RuleExecutor!FiringNotLost` | an executor without a link to the Administration answers all the same, against the comment at `executor.go:27` | as `components` |
| `Bans!UnbanHolds` | a ban merged after an unban is dated by its arrival and is younger, against the comment at `db.go:186` | BansSpec, 2 gateways, 1 ban, 1 unban, no outage, MaxTime 2 |
| `Upstream!QuarantinedWasDown` | quarantineDuration gives fifteen seconds to every error that is not temporary, a reset or an end of file (`healthcheck.go:279`): a client that leaves puts a backend that works in quarantine, against the comment at `handler.go:550` | UpstreamSpec, 1 backend, 1 request, MaxFlip 0 |
| `DiskCache!OneRevalidation` | after a change of configuration the new DiskCache revalidates a key that the old one is still revalidating; `docs/api_specs.md:317` promises one request (`dispatch.go:426`) | as `files_overlap` |
| `DiskCache!ErrorKeepsEntry` | an error replaces an entry that could stand in for it: the entry compared is the one looked up under the earlier Vary, against the comment at `diskcache.go:401` | as `files_overlap` |
| `DiskCache!RevalidationHarmless` | a backend that breaks off its answer ends the process: the panic of ReverseProxy is not recovered in the goroutine of a revalidation (`diskcache.go:490`) | as `files_overlap` |

## Proofs

Every theorem holds for all values of the constants that satisfy the assumptions of the
module (`NodeAssumption`, `BoundAssumption`, `MemberAssumption`, `SecretAssumption`,
`DeployAssumption` and so on); the ones named in an `ASSUME ... PROVE` are said here. In
each case the property is not inductive by itself, and an invariant is proved first;
each of these was checked by TLC on the run's constants before, but for Raft's
HistoryInv, which is about all histories at once and beyond TLC. A proof has one
step per action, and under it one per conjunct the action can disturb.

**Raft.** `Spec` has neither restarts nor topology changes: with restarts
OneLeaderPerTerm is false (`raft_restart`). *Election*: `stepDown` forgets a vote, so
that a node has voted is not in its state any more. ElectionInv keeps it in the calls
instead: a granted call binds its voter to follow that term with that vote or to have
left it (GrantKept), no voter granted two candidates (GrantOnce), and each winner is
backed by a majority that can give its term to nobody else (ElectedClosed). Two
majorities meet, so a second winner needs a grant from a member of the first
(`OneLeader`). *Log*: LogInv looks at the links of logs and of the requests
under way, an entry with the term of the one before it. Position and term determine a
link, every link comes from a winner of its term, and a leader has all links of its
term; so a request never brings a leader another entry of its own term, and a follower
that finds the previous entry has everything before it. LogsMatch follows by going
down the links. LeadersOnlyAppend needs that no request of a leader's own term reaches
it: HandleAppendEntries does not look at the state of the node. The election's theorems
and LeadersOnlyAppend have no condition, for a request keeps its term whatever it comes to
carry (LeadersElected is inductive by itself); LogInvariant, LogsMatch and the theorems on
commits assume `~LateMarshal`, that every request is marshalled as soon as it is built,
which the code does not guarantee and without which LogMatching and StateMachineSafety are
false (Disagreements found). *Commits*: `AppliedAgree`, `CommittedHeld` and `CommitsStay` (StateMachineSafety,
CommittedOnMajority, NothingTakenBack) are about `TimelySpec`, the same system without
the steps of LateRead: a leader counts a success that its follower answered to an earlier
leadership of it. broadcastAppendEntries does count it, so this is an assumption about the
network, not about the code, and a necessary one: without it `raft_late_reply` finds an
entry committed that no majority has. The argument is that there is a history that
explains the state (`HistoryExists`): M, the logs leaders have had; W, the elections won,
each with the log it was won with and its voters; A, who acknowledged which log of its
leader's term. HistoryInv(M, W, A) says that

- the logs of one term are one log as it grew, and grew from the log its leader was
  elected with (ProposedInv, WinnersInv);
- who acknowledged a log still has it, or a later leader was elected without it; then
  some later leader was elected by a majority none of which had acknowledged it
  (AcksInv). Voters compare logs, so a granted vote carries all that the voter
  acknowledged to the candidate (CampaignCall);
- a leader's match table counts acknowledgements of its own term only, and so do the
  successes on their way to it (LeaderInv, RepliedCall): here LateRead is excluded;
- what a node or a request takes for committed begins a log that a majority acknowledged
  (CommitNode, CommitCall).

Two majorities meet, so no leader is ever elected without such a log: two of them are
comparable and all who acknowledged one still have it. A request built from a log that was cut
below its nextIndex names a previous entry of term 0; nobody matches it
(BogusRefused). That commitIndex never goes back rests on CommitsReach, what a request says
is committed it also carries: HandleAppendEntries compares leaderCommit with what it has,
but may then assign the last new index, which is smaller.

**Proxies of a group.** TypeCorrect for any number of members and edits; the others
assume that edits and merges of a member exclude each other (`~Concurrent`), which is
where the code falls short (`proxies_overlap`); restarts are included. MergeInv says
that what a merge holds is what its member has, and that each pending write is later
than both; DeletedStaysDeleted and AdoptsNewer follow. NothingLost needs KnownInv: what
was answered is kept by a member, by a deletion under way or by one that was stopped,
and so is every document a merge has fetched, because a merge that removes a file
counts on the peer that told it. KnowledgeGrows (NeverGoesBack) is the step-wise side of
it: what a member knows, with the deletions whose file it has removed and which are about
to be recorded, never goes back, but for a restart in that moment.

MembersSettle (MembersAlike) has no condition, so it covers the overlaps too: where a merge
would adopt, remove and learn nothing, whichever member asks, all have one version. All
comparisons of a merge are strict: a version and a deletion of one instant would be left side
by side. That there are none is OneEdit, which is inductive: no stamp is that of a version
and of a deletion, on any member, in any call or document under way.

**Pipeline.** PipelineInv adds to NoConflict and OnlyValidated that a file says validated
only after a dry run did, although dry runs and rejections write back what they read,
that the mutex of Promote has one holder, and that what its holder has checked still
conflicts with nothing (CheckedStill): only another promotion could change that.

**Proxy files.** ListingInv: where the listing, or the one a rebuild is about to make,
differs from the directory, the operation that changed it is not over. It assumes
that no proxy changes its host or type (`NoRename`); with a change ListingFresh is false,
see above. What a TCP or UDP proxy clears at the obsolete path, its own file or another
proxy's, is included: the operation tells of it at its end. That a proxy's file only leaves
under its own deletion is not a theorem, since it is false (OnlyDeletedGoes, above).

**Disk cache.** CacheInv: every file holds an answer that may be stored under its own key,
and every task holds what fits its request. RightVariant follows without conditions, new
configurations, purges and broken answers included.

**Routing table.** TableInv attributes each exception to the ownership of hosts to a writer
that is about to mend it: a host still to be stored, still to be taken from the old
version, or whose object an announcement has changed in place. HostKept has no condition.
HostsOwned assumes that announcements withdraw no alias (`~Relabel`): with Relabel it is
false. For it TableInv has the task's `kept`, the keys of the new version as
upsertLocked read them: the object may be changed by an announcement after that.

**Agent's link.** LinkInv: only the connection the Agent has can still be entering, and the
one that is read is in the map. It assumes that no goroutine registers after the next
connection has (`~Late`): with Late ReachableWhileRead is false.
AgentReturns (AgentCanReturnUnlessCut) needs to know which secret the Agent will have, not
only which one it has: the one a rotation is about to send, else the last message on its
connection, else its own (EndsWith). ReturnInv says that, unless a secret was made that the
Agent was not told or the operator revoked it, there is one secret x of the gateway (Agreed): what is
stored is x, or x is about to be; every connection still entering or in the map has x or
none; the Agent will have x, or none yet. An approval makes a secret only for an Agent that has none
(FirstSecret), since the one whose connection it finds waiting showed its token. It assumes
`~Late`, and that two loops of a connection do not rotate at the same time (`~Crossing`):
an Agent approved before its goroutine registers has two loops, whose tickers start
milliseconds apart, and with Crossing the property is false. ReturnInv was checked on its own with 3
connections, 2 orders, 2 rotations and 2 faults (2.3 million states) before. LinkTypes has no
condition. That the number of a secret stays in its type is not a matter of types: a
connection makes at most one secret, and so do an order and a rotation, which IssueBound
counts down.

**Agent states.** AgentInv: a generation stands for one set of routes wherever it is kept or
being applied (OneState), and the newest one accepted is kept or being applied (NewestKept);
both also hold when the Agent moves to another member (FailoverSpec). StatesSettle follows: gateways that have nothing to ask of each
other keep one state for their peers. What they *route* to is another matter, since a state
is applied route by route: InTurn says that a gateway applies the newest state it has
accepted, that this is newer than the one it keeps, and that what is applied of it stays
until its end prunes the rest. It needs that a gateway applies one state at a time
(`~Overlap`; otherwise RoutesFollow is false, see above) and that no event of the Agent
reaches it. FollowersRoute and FollowersSettle are about such gateways, and about
AgentSpec, in which the Agent keeps its gateway.

**Deployment engine.** DeployInv says of every deployment where its objects are to be
found (the journal while it runs, what is to be undone in a rollback), that a journal
ends with its containers and a rollback begins with them, which is the order
Docker accepts, and that only a volume can be in it twice. Deployments may name the same
networks and volumes. A network has one maker, since Docker refuses a second. A volume that
exists is taken as created: when two plans find it missing, both journal it, and what is in
a journal may then be another's. The invariant therefore says that what a deployment holds for
its own it made, or is a volume another deployment made, and OthersKept has that exception
and no other: what was there before the deployments, and what a container uses, stays.

**Executor.** ExecInv: what is handled or done was reported; as long as nothing has gone
wrong all members choose the first one, and it alone reports.

**Bans, backends.** StoreInv: a reload under way puts in place what is stored, unless another
is due after it. ProbeInv: until a probe's time is over the circuit is half-open with that
deadline or open as long at least. OneProbe and ProbeInv were also checked with four requests
on one backend over five instants, so that two requests let through earlier end during one
probe (195 000 states).

**Documents of the Administration.** PushTypes, JournalsSettle and JournalsRefine have no
condition. OneDocument says that an instant stands for one entry wherever it is journalled or
about to be merged; with it, gateways none of which has anything newer to ask of another have
one document. RegisterInv adds the entries journalled before, which makes the journals a
register whose last writing wins. That the gateways also *use* it (GatewaysSettle) needs
JournalIsApplied. PushInv: a document used and not journalled is about to
be, by the handler, by a merge or, after a restart between the two, by the synchronisation
that follows the next connection; for the last a connection being synchronised must not be
forgotten by another goroutine's failed write, so PushInvariant, JournalTells and
GatewaysSettle assume that the goroutines of one client do not overlap (`~PushOverlap`), as
the run does.

**Agents' secrets.** The store keeps its types, and it implements the register of LastWriter
(Refines). LinkSafe (LinkedHasSecret) says when a connection outlives its secret: the save of
the removal failed, or the secret went between the check of the connection and its
registration, or the connection came between the halves of a revocation. Then it is in
`lapsed`; in any other case a merge that has removed the secret is still saving, and closes the
connection after. That nothing lapses is NoneLapses, which is false. The refinement
needs to know of every copy, not only of the ones in memory: CopiesInv says that each
entry, file, save under way and push amounts to one writing, with its secret and its
removal in order, and that a file is never later than the store; DatesInv that no two
writings share a date. MergeHeld is the heart of it: a merge keeps what there was or
takes the later writing whole. Dates are those of one clock, as in the model. From DatesInv
also SecretsSettle: members that have nothing to take from each other agree.

**Parts side by side.** FilesTypes, ComponentsTypes, RecoveryTypes and ProtectionTypes: a step
of the composition is a step of one part and a stutter of the others, so the parts'
invariants carry over.

Properties that only a theorem states were checked by TLC first, with `Concurrent`,
`Overlap`, `PushOverlap`, `Late`, `Crossing` TRUE where the theorem has no such condition:
OneEdit and MembersAlike with 2 members, 3 edits (13.7 million states), these and
NeverGoesBack with 3 edits, 1 restart and edits and merges apart (2.0 million), the
invariants of the Agent's states, secrets and documents as in `recovery` (473 000),
RegisterInv and JournalKeepsNewest with generations and instants cut at 2 and 5 (575 000), IssueBound in two
settings (0.7 and 0.9 million).

### Only model-checked

- StateMachineSafety, CommittedOnMajority and NothingTakenBack when a leader may count a
  late reply: `raft_replication` finds nothing within its two terms, `raft_late_reply`
  breaks CommittedOnMajority within five; and when a request is marshalled late, where
  `raft_replication` (LateMarshal TRUE) covers logs of one entry.
- All liveness: PreVoteEnds, NewestReachesAll, Converges, RequestsEnd, RoutesFollow,
  MembersAgree, DocumentReaches, BanSpreads, RotationFollows. Fairness and ENABLED are
  beyond the prover.
- Properties that TLC refutes have no theorem without the condition that makes them true
  (`~Concurrent`, `~Overlap`, `~PushOverlap`, `~Relabel`, `~Late`, `~Crossing`, `NoRename`,
  `~LateMarshal`, TimelySpec); the conditions are the schedules of the table of disagreements, and no
  weaker one was tried.

## Not modelled

Beyond the components marked not modelled in the inventory: encryption and
authentication of documents, file formats and their migration, routes the gateway
generates itself (their overlays follow another path), proxies of two members that
share a host (a merge does not check), errors of the disk, changes of Raft's
membership (nothing in the product makes one) and clusters of one, the
thirty-day retention of tombstones, clock skew, Raft's durations and its back-off
after failed rounds, the expiry of bans, hedged requests and sticky sessions,
listening ports and wildcards of the table, sources of Agents other than Docker.

Most of the repository's 180 000 lines are outside what a model checker can say
something about: the API of the Administration (`admin/api`, `admin/mcp`) reads and
writes rows of one database, the user interface and the command line present them,
importers and exporters convert files, the firewall, the threat scores and the
surface analysis compute numbers from patterns over large inputs. The models cover
the parts that keep state which several actors change.
