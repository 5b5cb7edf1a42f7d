-------------------------------- MODULE AgentLink --------------------------------
(***************************************************************************)
(* How an Agent joins a gateway and keeps its link: the WebSocket hub        *)
(* (internal/edge/ws/hub.go), its join tokens (jointokenstore.go) and the    *)
(* Agent's client (internal/agent/wsclient/client.go).  One Agent, whose     *)
(* identifier is its name.                                                  *)
(*                                                                         *)
(* A secret is the number of its creation.  Each connection has a goroutine *)
(* in the gateway (ServeAgent); an approval runs in that goroutine or in     *)
(* the one of the operator's call, and a rotation in a loop of its own.      *)
(***************************************************************************)
EXTENDS Naturals, Sequences

CONSTANTS
  MaxConn,     \* bound: connections
  MaxOrder,    \* bound: approvals and revocations by the operator
  MaxRotate,   \* bound: rotations
  MaxCut,      \* bound: connections cut and restarts
  AuthToken,   \* tokenChecker: the Agent has a valid token of the gateway
  Late,        \* TRUE: a goroutine may register once the Agent has connected again
  Crossing     \* TRUE: two loops of one connection may rotate at the same time

ASSUME LinkAssumption ==
  /\ MaxConn \in Nat /\ MaxOrder \in Nat /\ MaxRotate \in Nat /\ MaxCut \in Nat
  /\ AuthToken \in BOOLEAN /\ Late \in BOOLEAN /\ Crossing \in BOOLEAN

VARIABLES
  secret,      \* Client.hmacSecret, on the Agent's disk too; 0 if none
  token,       \* Client.joinToken is set
  link,        \* Client.conn: a connection, 0 if none
  conn,        \* agentConn and the goroutine of each connection
  store,       \* hmacStore, on the gateway's disk; 0 if none
  used,        \* joinStore: the token is consumed
  pending,     \* pendingAgents: a connection, 0 if none
  preApproved, \* preApproved
  agentConns,  \* agentConns: a connection, 0 if none
  operator,    \* the operator's call
  loops,       \* hmacRotateLoop goroutines
  issued,      \* secrets made so far
  orders, rotations, cuts,
  revoked,     \* history: the last order on the Agent was to revoke it
  lost         \* history: a secret was made that the Agent was not told, or not in time

linkVars == <<secret, token, link, conn, store, used, pending, preApproved, agentConns,
              operator, loops, issued, orders, rotations, cuts, revoked, lost>>
agentEnd == <<secret, token, link>>
hubMaps == <<pending, preApproved, agentConns>>
linkBounds == <<orders, rotations, cuts, revoked>>

---------------------------------------------------------------------------
(* Data *)

Conn == 1..MaxConn
Secret == 1..(MaxConn + MaxOrder + MaxRotate)

\* pc: where the goroutine is; shown: the secret of its header, 0 for a token; up: it has
\* not seen an error; box: messages to the Agent.
ConnState == [pc : {"none", "serve", "pend", "look", "record", "commit", "persist",
                    "register", "read", "done"},
              shown : Secret \cup {0}, hmac : Secret \cup {0}, approved : BOOLEAN,
              up : BOOLEAN, box : Seq([type : {"approve", "rotate_hmac"}, hmac : Secret \cup {0}])]
NoConn == [pc |-> "none", shown |-> 0, hmac |-> 0, approved |-> FALSE, up |-> FALSE, box |-> <<>>]

\* The operator's call: an approval, with the connection it found.
Call0 == [pc |-> "idle", of |-> 0]
Loop == [of : Conn, forever : BOOLEAN, send : Secret \cup {0}]

\* A message is written to a connection the gateway believes up; the Agent may be gone.
Sent(c, type, h) == Append(conn[c].box, [type |-> type, hmac |-> h])
Unheard(c) == link # c

LinkInit ==
  /\ secret = 0 /\ token = TRUE /\ link = 0
  /\ conn = [c \in Conn |-> NoConn]
  /\ store = 0 /\ used = FALSE
  /\ pending = 0 /\ preApproved \in BOOLEAN /\ agentConns = 0
  /\ operator = Call0 /\ loops = {} /\ issued = 0
  /\ orders = 0 /\ rotations = 0 /\ cuts = 0
  /\ revoked = FALSE /\ lost = FALSE

---------------------------------------------------------------------------
(* A connection *)

\* connect, a second or more after the last one: the secret if there is one, else the
\* token.
Connect(c) ==
  /\ Late \/ \A d \in Conn : conn[d].pc \in {"none", "read", "done"}
  /\ link = 0 /\ (secret # 0 \/ token)
  /\ conn[c].pc = "none" /\ \A d \in Conn : d < c => conn[d].pc # "none"
  /\ conn' = [conn EXCEPT ![c] = [NoConn EXCEPT !.pc = "serve", !.shown = secret, !.up = TRUE]]
  /\ link' = c
  /\ UNCHANGED <<secret, token, store, used, hubMaps, operator, loops, issued, linkBounds, lost>>

\* Closed by the gateway: nothing more reaches the Agent, and the goroutine ends.
Refuse(c) == /\ conn' = [conn EXCEPT ![c].pc = "done", ![c].up = FALSE]
             /\ link' = IF link = c THEN 0 ELSE link

\* The secret a connection is compared with: the current connection's, else the store's.
StoredHMAC == IF agentConns # 0 /\ conn[agentConns].hmac # 0 THEN conn[agentConns].hmac ELSE store

\* ServeAgent with a secret.
ServeHMAC(c) ==
  /\ conn[c].pc = "serve" /\ conn[c].shown # 0
  /\ \/ /\ conn[c].shown = StoredHMAC
        /\ conn' = [conn EXCEPT ![c].pc = "register", ![c].hmac = StoredHMAC, ![c].approved = TRUE]
        /\ UNCHANGED link
     \/ /\ conn[c].shown # StoredHMAC
        /\ Refuse(c)
  /\ UNCHANGED <<secret, token, store, used, hubMaps, operator, loops, issued, linkBounds, lost>>

\* ServeAgent with a token that is not consumed: the Agent waits for approval.
ServeJoin(c) ==
  /\ conn[c].pc = "serve" /\ conn[c].shown = 0 /\ ~used
  /\ used' = TRUE
  /\ pending' = c
  /\ conn' = [conn EXCEPT ![c].pc = "pend"]
  /\ UNCHANGED <<agentEnd, store, preApproved, agentConns, operator, loops, issued, linkBounds, lost>>

\* With a consumed token: the secret kept for the Agent is sent to it again.  Without one
\* and with a valid token of the gateway a new one is stored; the connection still takes
\* the value read before.
ServeConsumed(c) ==
  /\ conn[c].pc = "serve" /\ conn[c].shown = 0 /\ used
  /\ IF store # 0 \/ AuthToken
     THEN /\ conn' = [conn EXCEPT ![c].pc = "register", ![c].hmac = store, ![c].approved = TRUE]
          /\ store' = IF store = 0 THEN issued + 1 ELSE store
          /\ issued' = IF store = 0 THEN issued + 1 ELSE issued
          /\ UNCHANGED link
     ELSE Refuse(c) /\ UNCHANGED <<store, issued>>
  /\ UNCHANGED <<secret, token, used, hubMaps, operator, loops, linkBounds, lost>>

\* A pre-approval is consumed, and the goroutine approves its own Agent.
ConsumePreApproval(c) ==
  /\ conn[c].pc = "pend"
  /\ conn' = [conn EXCEPT ![c].pc = IF preApproved /\ ~conn[c].approved THEN "look" ELSE "register"]
  /\ preApproved' = (preApproved /\ conn[c].approved)
  /\ UNCHANGED <<agentEnd, store, used, pending, agentConns, operator, loops, issued, linkBounds, lost>>

\* The connection enters the map; an approved one is given its loop, and its secret if
\* it came with a token.
Register(c) ==
  /\ conn[c].pc = "register"
  /\ agentConns' = c
  /\ conn' = [conn EXCEPT ![c].pc = "read",
                          ![c].box = IF conn[c].approved /\ conn[c].shown = 0 /\ conn[c].up
                                     THEN Sent(c, "approve", conn[c].hmac) ELSE @]
  /\ loops' = IF conn[c].approved THEN loops \cup {[of |-> c, forever |-> FALSE, send |-> 0]} ELSE loops
  /\ UNCHANGED <<agentEnd, store, used, pending, preApproved, operator, issued, linkBounds, lost>>

\* readAgentLoop ends once it sees an error, at the latest at a ping.
Notice(c) ==
  /\ conn[c].up /\ link # c
  /\ conn' = [conn EXCEPT ![c].up = FALSE]
  /\ UNCHANGED <<agentEnd, store, used, hubMaps, operator, loops, issued, linkBounds, lost>>

\* Fault: whatever the entry is, it goes.
UnregisterAgent_any(c) ==
  /\ conn[c].pc = "read" /\ ~conn[c].up
  /\ agentConns' = 0
  /\ pending' = IF pending = c THEN 0 ELSE pending
  /\ conn' = [conn EXCEPT ![c].pc = "done"]
  /\ loops' = {l \in loops : l.of # c \/ l.forever}
  /\ UNCHANGED <<agentEnd, store, used, preApproved, operator, issued, linkBounds, lost>>

\* The end of ServeAgent; unregisterAgent leaves the entry of a successor alone.
UnregisterAgent(c) ==
  /\ conn[c].pc = "read" /\ ~conn[c].up
  /\ agentConns' = IF agentConns = c THEN 0 ELSE agentConns
  /\ pending' = IF pending = c THEN 0 ELSE pending
  /\ conn' = [conn EXCEPT ![c].pc = "done"]
  /\ loops' = {l \in loops : l.of # c \/ l.forever}
  /\ UNCHANGED <<agentEnd, store, used, preApproved, operator, issued, linkBounds, lost>>

\* handleIncoming of the Agent: approve and rotate_hmac.
Receive(c) ==
  /\ link = c /\ conn[c].box # <<>>
  /\ secret' = Head(conn[c].box).hmac
  /\ token' = (token /\ Head(conn[c].box).type # "approve")
  /\ conn' = [conn EXCEPT ![c].box = Tail(@)]
  /\ UNCHANGED <<link, store, used, hubMaps, operator, loops, issued, linkBounds, lost>>

---------------------------------------------------------------------------
(* Approval, by the operator (d = 0) or by the connection's own goroutine (d)   *)

At(d) == IF d = 0 THEN operator.pc ELSE conn[d].pc
Target(d) == IF d = 0 THEN operator.of ELSE d
\* The next step of the caller; a goroutine goes on to register.
Goto(d, pc, c, cs) ==
  IF d = 0 THEN conn' = cs /\ operator' = [pc |-> pc, of |-> c]
  ELSE conn' = [cs EXCEPT ![d].pc = IF pc = "idle" THEN "register" ELSE pc] /\ UNCHANGED operator

OrderApproval ==
  /\ operator.pc = "idle" /\ orders < MaxOrder
  /\ orders' = orders + 1
  /\ operator' = [operator EXCEPT !.pc = "look"]
  /\ UNCHANGED <<agentEnd, conn, store, used, hubMaps, loops, issued, rotations, cuts, revoked, lost>>

\* ApproveAgent: nothing for an approved connection, else the one that waits.
ApproveLook(d) ==
  LET done == agentConns # 0 /\ conn[agentConns].approved IN
  /\ At(d) = "look"
  /\ preApproved' = (preApproved /\ ~done)
  /\ Goto(d, IF done THEN "idle" ELSE IF pending # 0 THEN "commit" ELSE "record",
          IF done THEN 0 ELSE pending, conn)
  /\ UNCHANGED <<agentEnd, store, used, pending, agentConns, loops, issued, linkBounds, lost>>

\* None waits: the approval is kept for later.
ApproveRecord(d) ==
  /\ At(d) = "record"
  /\ preApproved' = TRUE
  /\ Goto(d, "idle", 0, conn)
  /\ UNCHANGED <<agentEnd, store, used, pending, agentConns, loops, issued, linkBounds, lost>>

\* The secret is made and sent; it is stored after that, unless it could not be sent.
ApproveCommit(d) ==
  LET c == Target(d) IN
  /\ At(d) = "commit"
  /\ preApproved' = FALSE
  /\ IF conn[c].approved
     THEN Goto(d, "idle", 0, conn) /\ UNCHANGED <<pending, issued, revoked, lost>>
     ELSE /\ issued' = issued + 1 /\ revoked' = FALSE
          /\ pending' = IF pending = c THEN 0 ELSE pending
          /\ lost' = (lost \/ Unheard(c))
          /\ Goto(d, IF conn[c].up THEN "persist" ELSE "idle", IF conn[c].up THEN c ELSE 0,
                  [conn EXCEPT ![c].hmac = issued + 1, ![c].approved = TRUE,
                               ![c].box = IF conn[c].up THEN Sent(c, "approve", issued + 1) ELSE @])
  /\ UNCHANGED <<agentEnd, store, used, agentConns, loops, orders, rotations, cuts>>

\* Fault: the secret is only sent.
ApprovePersist_not(d) ==
  LET c == Target(d) IN
  /\ At(d) = "persist"
  /\ loops' = loops \cup {[of |-> c, forever |-> TRUE, send |-> 0]}
  /\ Goto(d, "idle", 0, conn)
  /\ UNCHANGED <<agentEnd, store, used, hubMaps, issued, linkBounds, lost>>

\* The store, and a loop no context ends.
ApprovePersist(d) ==
  LET c == Target(d) IN
  /\ At(d) = "persist"
  /\ store' = conn[c].hmac
  /\ loops' = loops \cup {[of |-> c, forever |-> TRUE, send |-> 0]}
  /\ Goto(d, "idle", 0, conn)
  /\ UNCHANGED <<agentEnd, used, hubMaps, issued, linkBounds, lost>>

\* RevokeAgent: the maps and the store, and the connection found is closed.
RevokeAgent ==
  LET c == IF agentConns # 0 THEN agentConns ELSE pending IN
  /\ operator.pc = "idle" /\ orders < MaxOrder
  /\ orders' = orders + 1 /\ revoked' = TRUE
  /\ preApproved' = FALSE /\ agentConns' = 0 /\ pending' = 0
  /\ store' = 0
  /\ conn' = IF c = 0 THEN conn ELSE [conn EXCEPT ![c].up = FALSE]
  /\ link' = IF link = c THEN 0 ELSE link
  /\ UNCHANGED <<secret, token, used, operator, loops, issued, rotations, cuts, lost>>

---------------------------------------------------------------------------
(* Rotation *)

\* An hour after the loop began: the new secret is stored, then sent.  No approval lasts
\* that long.
RotateSet(l) ==
  /\ l.send = 0 /\ rotations < MaxRotate
  /\ operator.pc # "persist" /\ \A d \in Conn : conn[d].pc # "persist"
  /\ Crossing \/ \A k \in loops : k.of = l.of => k.send = 0
  /\ rotations' = rotations + 1 /\ issued' = issued + 1
  /\ conn' = [conn EXCEPT ![l.of].hmac = issued + 1]
  /\ store' = issued + 1
  /\ loops' = (loops \ {l}) \cup {[l EXCEPT !.send = issued + 1]}
  /\ lost' = (lost \/ Unheard(l.of))
  /\ UNCHANGED <<agentEnd, used, hubMaps, operator, orders, cuts, revoked>>

RotateSend(l) ==
  /\ l.send # 0
  /\ IF conn[l.of].up
     THEN /\ conn' = [conn EXCEPT ![l.of].box = Sent(l.of, "rotate_hmac", l.send)]
          /\ loops' = (loops \ {l}) \cup {[l EXCEPT !.send = 0]}
     ELSE loops' = loops \ {l} /\ UNCHANGED conn
  /\ UNCHANGED <<agentEnd, store, used, hubMaps, operator, issued, linkBounds, lost>>

---------------------------------------------------------------------------
(* Faults *)

InFlight(c) == c # 0 /\ (conn[c].box # <<>> \/ \E l \in loops : l.of = c /\ l.send # 0)

\* The connection breaks; the Agent's end sees it first.
CutLink ==
  /\ link # 0 /\ cuts < MaxCut
  /\ cuts' = cuts + 1
  /\ lost' = (lost \/ InFlight(link))
  /\ link' = 0
  /\ UNCHANGED <<secret, token, conn, store, used, hubMaps, operator, loops, issued, orders, rotations, revoked>>

\* The Agent restarts: its configuration has the token again.
RestartAgent ==
  /\ cuts < MaxCut
  /\ cuts' = cuts + 1
  /\ lost' = (lost \/ InFlight(link))
  /\ link' = 0 /\ token' = TRUE
  /\ UNCHANGED <<secret, conn, store, used, hubMaps, operator, loops, issued, orders, rotations, revoked>>

\* The gateway restarts with its secrets and the consumed tokens.
RestartHub ==
  /\ cuts < MaxCut
  /\ cuts' = cuts + 1
  /\ lost' = (lost \/ InFlight(link) \/ operator.pc = "persist"
                   \/ \E d \in Conn : conn[d].pc = "persist")
  /\ link' = 0
  /\ conn' = [c \in Conn |-> IF conn[c].pc = "none" THEN NoConn
                             ELSE [NoConn EXCEPT !.pc = "done"]]
  /\ pending' = 0 /\ preApproved' = FALSE /\ agentConns' = 0
  /\ operator' = Call0 /\ loops' = {}
  /\ UNCHANGED <<secret, token, store, used, issued, orders, rotations, revoked>>

LinkNext ==
  \/ \E c \in Conn : \/ Connect(c) \/ ServeHMAC(c) \/ ServeJoin(c) \/ ServeConsumed(c)
                     \/ ConsumePreApproval(c) \/ Register(c) \/ Notice(c)
                     \/ UnregisterAgent(c) \/ Receive(c)
  \/ OrderApproval \/ RevokeAgent
  \/ \E d \in Conn \cup {0} : ApproveLook(d) \/ ApproveRecord(d) \/ ApproveCommit(d) \/ ApprovePersist(d)
  \/ \E l \in loops : RotateSet(l) \/ RotateSend(l)
  \/ CutLink \/ RestartAgent \/ RestartHub

LinkSpec == LinkInit /\ [][LinkNext]_linkVars

---------------------------------------------------------------------------
(* Properties *)

LinkTypeOK ==
  /\ secret \in Secret \cup {0} /\ token \in BOOLEAN /\ link \in Conn \cup {0}
  /\ conn \in [Conn -> ConnState]
  /\ store \in Secret \cup {0} /\ used \in BOOLEAN
  /\ pending \in Conn \cup {0} /\ preApproved \in BOOLEAN /\ agentConns \in Conn \cup {0}
  /\ operator \in [pc : {"idle", "look", "record", "commit", "persist"}, of : Conn \cup {0}]
  /\ loops \subseteq Loop
  /\ issued \in Secret \cup {0}
  /\ orders \in 0..MaxOrder /\ rotations \in 0..MaxRotate /\ cuts \in 0..MaxCut
  /\ revoked \in BOOLEAN /\ lost \in BOOLEAN

\* An Agent whose connection is being read can be reached: the map has that connection,
\* whatever older connections of it end in between.
ReachableWhileRead ==
  \A c \in Conn : link = c /\ conn[c].pc = "read" /\ conn[c].up => agentConns = c

\* The gateway accepts the Agent's secret, or is about to store it, or is telling the Agent
\* another.
Accepted ==
  \/ secret = StoredHMAC
  \/ InFlight(link)
  \/ operator.pc = "persist" \/ \E d \in Conn : conn[d].pc = "persist"

\* An Agent with a secret, for which the gateway has stored one, can come back with it,
\* even if a rotation was cut short.  Nothing is said of one that the operator revoked.
AgentCanReturn == secret # 0 /\ store # 0 /\ ~revoked => Accepted

\* Every Agent with a secret that was not revoked can come back, through restarts of both
\* sides, as long as no secret was made that the Agent was not told.
AgentCanReturnUnlessCut == lost \/ (secret # 0 /\ ~revoked => Accepted)

\* An approved connection has a secret to check the next one with.
ApprovedHasSecret == \A c \in Conn : conn[c].approved => conn[c].hmac # 0

---------------------------------------------------------------------------
(* ReachableWhileRead, made inductive when no goroutine registers late *)

\* The numbers of secrets without their bounds.
LinkShape ==
  /\ secret \in Nat /\ store \in Nat /\ issued \in Nat /\ link \in Conn \cup {0}
  /\ conn \in [Conn -> [pc : {"none", "serve", "pend", "look", "record", "commit", "persist",
                              "register", "read", "done"},
                        shown : Nat, hmac : Nat, approved : BOOLEAN, up : BOOLEAN,
                        box : Seq([type : {"approve", "rotate_hmac"}, hmac : Nat])]]
  /\ loops \subseteq [of : Conn, forever : BOOLEAN, send : Nat]
  /\ pending \in Conn \cup {0}
  /\ operator \in [pc : {"idle", "look", "record", "commit", "persist"}, of : Conn \cup {0}]
  /\ operator.pc \in {"commit", "persist"} => operator.of # 0

\* Between its beginning and its entry in the map.
Entering(c) == conn[c].pc \notin {"none", "read", "done"}

\* Only the connection the Agent has can still be entering.
EntersAlone == \A c, d \in Conn : link = c /\ Entering(d) => d = c

LinkInv == LinkShape /\ EntersAlone /\ ReachableWhileRead

---------------------------------------------------------------------------
(* AgentCanReturnUnlessCut, made inductive when rotations of a connection do not cross    *)

\* An approval whose secret is to be stored.
Persisting(d) == At(d) = "persist"
NonePersists == \A d \in Conn \cup {0} : ~Persisting(d)

\* Connections that have not begun, are being served, or are in the map.
Stages ==
  /\ agentConns \in Conn \cup {0} /\ (agentConns # 0 => conn[agentConns].pc = "read")
  /\ \A c \in Conn : conn[c].pc \in {"none", "serve"} =>
       conn[c].hmac = 0 /\ ~conn[c].approved /\ conn[c].box = <<>>
  /\ \A c \in Conn : link = c => conn[c].up /\ conn[c].pc \notin {"none", "done"}
  /\ \A d \in Conn \cup {0} : Persisting(d) => conn[Target(d)].approved
  /\ pending # 0 => used /\ conn[pending].pc \notin {"none", "serve"}
  /\ operator.pc \in {"commit", "persist"} =>
       used /\ conn[operator.of].pc \notin {"none", "serve"}
  /\ \A c \in Conn : conn[c].pc \in {"pend", "look", "record", "commit", "persist"} => used

\* A loop belongs to an approved connection, and one loop at most of each has a secret to
\* send.
LoopsInv ==
  /\ \A l \in loops : conn[l.of].approved
  /\ \A k, l \in loops : k.of = l.of /\ k.send # 0 /\ l.send # 0 => k = l

\* Before the first secret is made.
NoSecretYet ==
  /\ secret = 0 /\ store = 0 /\ loops = {} /\ NonePersists
  /\ \A c \in Conn : /\ conn[c].shown = 0 /\ conn[c].hmac = 0
                     /\ ~conn[c].approved /\ conn[c].box = <<>>

\* An Agent on a connection that waits for its approval is the first with a secret.
FirstSecret ==
  /\ issued = 0 => NoSecretYet
  /\ ~used => issued = 0
  /\ \A c \in Conn : ~lost /\ link = c /\ ~conn[c].approved /\ conn[c].pc # "serve"
                       => issued = 0

\* The secret that the Agent will have once it has read what is sent to it.
EndsWith(h) ==
  IF \E l \in loops : l.of = link /\ l.send # 0
  THEN \A l \in loops : l.of = link /\ l.send # 0 => l.send = h
  ELSE IF link # 0 /\ conn[link].box # <<>>
  THEN conn[link].box[Len(conn[link].box)].hmac = h
  ELSE secret = h

\* The gateway's secret x is the store's, or the one about to be stored; every connection
\* that counts has it or none, and the Agent will have it or none.
Agreed(x, h) ==
  /\ EndsWith(h) /\ h \in {0, x}
  /\ NonePersists => store = x
  /\ \A d \in Conn \cup {0} : Persisting(d) =>
       /\ conn[Target(d)].hmac = x /\ h = x /\ x # 0 /\ store \in {0, x}
       /\ \A c \in Conn : Entering(c) /\ conn[c].shown = 0 => conn[c].hmac = x
       /\ Target(d) = link /\ agentConns \notin {0, link} => conn[agentConns].hmac = 0
  /\ \A c \in Conn : (agentConns = c \/ Entering(c)) /\ conn[c].hmac # 0 => conn[c].hmac = x
  /\ \A l \in loops : l.of = link /\ agentConns \notin {0, link} => conn[agentConns].hmac = 0

ReturnInv ==
  /\ LinkInv /\ Stages /\ LoopsInv /\ FirstSecret
  /\ ~lost /\ ~revoked => \E x \in 0..issued : \E h \in {0, x} : Agreed(x, h)

=================================================================================
