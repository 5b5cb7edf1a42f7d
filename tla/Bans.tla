---------------------------------- MODULE Bans ----------------------------------
(***************************************************************************)
(* One address banned and unbanned in a group of gateways: the ban a gateway *)
(* decides (threatBanCallback), what peers tell each other                   *)
(* (internal/edge/ban_gossip.go), the rows each keeps                        *)
(* (internal/edge/bansdb/db.go), the store that blocks requests              *)
(* (reloadBanStore), and the orders of the Administration                    *)
(* (internal/admin/edgews/manager.go).  Bans do not expire here.             *)
(***************************************************************************)
EXTENDS Naturals, Sequences, FiniteSets

CONSTANTS
  Guard,       \* gateways of the group
  Watcher,     \* those the address sends its requests to
  MaxBan,      \* bound: bans decided
  MaxUnban,    \* bound: unbans and lists sent by the Administration
  MaxOutage,   \* bound: links cut and gateways restarted
  MaxTime      \* bound: the clock, in seconds

ASSUME BansAssumption ==
  /\ Watcher \subseteq Guard
  /\ MaxBan \in Nat /\ MaxUnban \in Nat /\ MaxOutage \in Nat /\ MaxTime \in Nat \ {0}

VARIABLES
  clock,
  row,         \* bans.created_at of the address, 0 if there is no row
  unbanned,    \* unbans.at, 0 if none
  blocked,     \* BanStore: the address is refused
  reload,      \* a goroutine has yet to call reloadBanStore
  reading,     \* what reloadBanStore read and has yet to put in place
  offers,      \* a peer's ban is about to be merged
  adminRow,    \* security_bans has it
  adminUnban,  \* when the history last says unbanned, 0 if never
  adminLink,   \* the gateway's link to the Administration
  orderBox,    \* messages to the gateway, under way or waiting for the link
  reportBox,   \* gateways whose ban is on its way to the Administration
  lastOrder,   \* the last decision on the address
  banned, unbans, outages

banVars == <<clock, row, unbanned, blocked, reload, reading, offers, adminRow, adminUnban,
             adminLink, orderBox, reportBox, lastOrder, banned, unbans, outages>>
rowVars == <<row, unbanned>>
storeVars == <<blocked, reload, reading>>
adminVars == <<adminRow, adminUnban, adminLink, orderBox, reportBox>>
banBounds == <<banned, unbans, outages>>

---------------------------------------------------------------------------
(* Data *)

\* at: the date of an unban that is replayed, 0 for one given now; list: whether the list
\* of bans has the address.
UnbanMsg(at) == [type |-> "unban_ips", at |-> at, list |-> FALSE]
ListMsg == [type |-> "push_bans", at |-> 0, list |-> adminRow]

Later(a, b) == IF a > b THEN a ELSE b
Earlier(a, b) == IF a < b THEN a ELSE b

BansInit ==
  /\ clock = 1
  /\ row = [g \in Guard |-> 0] /\ unbanned = [g \in Guard |-> 0]
  /\ blocked = [g \in Guard |-> FALSE]
  /\ reload = [g \in Guard |-> FALSE] /\ reading = [g \in Guard |-> {}]
  /\ offers = [g \in Guard |-> FALSE]
  /\ adminRow = FALSE /\ adminUnban = 0
  /\ adminLink = [g \in Guard |-> TRUE] /\ orderBox = [g \in Guard |-> <<>>]
  /\ reportBox = {} /\ lastOrder = "none"
  /\ banned = 0 /\ unbans = 0 /\ outages = 0

\* Time passes; before there is a ban it makes no difference.
Tick ==
  /\ clock < MaxTime /\ banned > 0
  /\ clock' = clock + 1
  /\ UNCHANGED <<rowVars, storeVars, offers, adminVars, lastOrder, banBounds>>

---------------------------------------------------------------------------
(* A gateway *)

\* upsert replaces the row: it is as old as this moment, whoever banned first.
Upserted(g) == [row EXCEPT ![g] = clock]

\* threatBanCallback: the peers that can be reached are told, the row is written, the
\* Administration told if there is a link to it; the reload follows.
Decide(g) ==
  /\ g \in Watcher /\ ~blocked[g] /\ banned < MaxBan
  /\ banned' = banned + 1 /\ lastOrder' = "ban"
  /\ \E reached \in SUBSET (Guard \ {g}) : offers' = [p \in Guard |-> offers[p] \/ p \in reached]
  /\ row' = Upserted(g)
  /\ reload' = [reload EXCEPT ![g] = TRUE]
  /\ reportBox' = IF adminLink[g] THEN reportBox \cup {g} ELSE reportBox
  /\ UNCHANGED <<clock, unbanned, blocked, reading, adminRow, adminUnban, adminLink, orderBox, unbans, outages>>

\* Fault: peers are asked only while the Administration cannot be.
PullBans_offline(g, p) ==
  /\ p # g /\ row[p] # 0 /\ ~offers[g] /\ ~adminLink[g]
  /\ unbanned[g] = 0 \/ row[p] > unbanned[g]
  /\ offers' = [offers EXCEPT ![g] = TRUE]
  /\ UNCHANGED <<clock, rowVars, storeVars, adminVars, lastOrder, banBounds>>

\* syncBansFromPeer, up to the merge: a ban not younger than a known unban is left out.
PullBans(g, p) ==
  /\ p # g /\ row[p] # 0 /\ ~offers[g]
  /\ unbanned[g] = 0 \/ row[p] > unbanned[g]
  /\ offers' = [offers EXCEPT ![g] = TRUE]
  /\ UNCHANGED <<clock, rowVars, storeVars, adminVars, lastOrder, banBounds>>

\* mergePeerBans, for a peer's message (handleBansGossip) or after syncBansFromPeer.
MergePeerBans(g) ==
  /\ offers[g]
  /\ offers' = [offers EXCEPT ![g] = FALSE]
  /\ IF row[g] = 0
     THEN row' = Upserted(g) /\ reload' = [reload EXCEPT ![g] = TRUE]
     ELSE UNCHANGED <<row, reload>>
  /\ UNCHANGED <<clock, unbanned, blocked, reading, adminVars, lastOrder, banBounds>>

\* Fault: without the lock an older reading may be put in place last.
ReloadRead_nolock(g) ==
  /\ reload[g]
  /\ reload' = [reload EXCEPT ![g] = FALSE]
  /\ reading' = [reading EXCEPT ![g] = @ \cup {row[g] # 0}]
  /\ UNCHANGED <<clock, rowVars, blocked, offers, adminVars, lastOrder, banBounds>>

\* reloadBanStore reads the rows and puts them in place, under bansMu.
ReloadRead(g) ==
  /\ reload[g] /\ reading[g] = {}
  /\ reload' = [reload EXCEPT ![g] = FALSE]
  /\ reading' = [reading EXCEPT ![g] = {row[g] # 0}]
  /\ UNCHANGED <<clock, rowVars, blocked, offers, adminVars, lastOrder, banBounds>>

ReloadReplace(g) ==
  /\ \E b \in reading[g] :
       /\ blocked' = [blocked EXCEPT ![g] = b]
       /\ reading' = [reading EXCEPT ![g] = @ \ {b}]
  /\ UNCHANGED <<clock, rowVars, reload, offers, adminVars, lastOrder, banBounds>>

\* handleWSAdminMessage: applyUnbans takes away what is not younger than the unban, whose
\* date is that of its arrival unless it is replayed; applyBans writes the list again.
TakeOrder(g) ==
  LET m == Head(orderBox[g])
      at == IF m.at = 0 THEN clock ELSE Earlier(m.at, clock) IN
  /\ adminLink[g] /\ orderBox[g] # <<>>
  /\ orderBox' = [orderBox EXCEPT ![g] = Tail(@)]
  /\ IF m.type = "unban_ips"
     THEN /\ row' = [row EXCEPT ![g] = IF @ <= at THEN 0 ELSE @]
          /\ unbanned' = [unbanned EXCEPT ![g] = Later(@, at)]
     ELSE /\ row' = IF m.list THEN Upserted(g) ELSE row
          /\ UNCHANGED unbanned
  /\ reload' = [reload EXCEPT ![g] = TRUE]
  /\ UNCHANGED <<clock, blocked, reading, offers, adminRow, adminUnban, adminLink, reportBox,
                 lastOrder, banBounds>>

\* A gateway restarts: loadBansFromDisk.
RestartGuard(g) ==
  /\ outages < MaxOutage /\ outages' = outages + 1
  /\ blocked' = [blocked EXCEPT ![g] = (row[g] # 0)]
  /\ reload' = [reload EXCEPT ![g] = FALSE] /\ reading' = [reading EXCEPT ![g] = {}]
  /\ offers' = [offers EXCEPT ![g] = FALSE]
  /\ adminLink' = [adminLink EXCEPT ![g] = FALSE]
  /\ orderBox' = [orderBox EXCEPT ![g] = IF adminLink[g] THEN <<>> ELSE @]
  /\ reportBox' = reportBox \ {g}
  /\ UNCHANGED <<clock, rowVars, adminRow, adminUnban, lastOrder, banned, unbans>>

---------------------------------------------------------------------------
(* The Administration *)

\* handleThreatBan.
HandleThreatBan(g) ==
  /\ g \in reportBox
  /\ reportBox' = reportBox \ {g}
  /\ adminRow' = TRUE
  /\ UNCHANGED <<clock, rowVars, storeVars, offers, adminUnban, adminLink, orderBox, lastOrder, banBounds>>

\* An operator unbans the address; PushUnban sends the unban, then the list.
OrderUnban ==
  /\ adminRow /\ unbans < MaxUnban
  /\ unbans' = unbans + 1 /\ lastOrder' = "unban"
  /\ adminRow' = FALSE /\ adminUnban' = clock
  /\ orderBox' = [g \in Guard |-> orderBox[g] \o <<UnbanMsg(0), [ListMsg EXCEPT !.list = FALSE]>>]
  /\ UNCHANGED <<clock, rowVars, storeVars, offers, adminLink, reportBox, banned, outages>>

\* PushBans, for a ban of another address.
PushBans ==
  /\ unbans < MaxUnban /\ unbans' = unbans + 1
  /\ orderBox' = [g \in Guard |-> Append(orderBox[g], ListMsg)]
  /\ UNCHANGED <<clock, rowVars, storeVars, offers, adminRow, adminUnban, adminLink, reportBox,
                 lastOrder, banned, outages>>

CutAdmin(g) ==
  /\ adminLink[g] /\ outages < MaxOutage /\ outages' = outages + 1
  /\ adminLink' = [adminLink EXCEPT ![g] = FALSE]
  /\ orderBox' = [orderBox EXCEPT ![g] = <<>>]
  /\ reportBox' = reportBox \ {g}
  /\ UNCHANGED <<clock, rowVars, storeVars, offers, adminRow, adminUnban, lastOrder, banned, unbans>>

\* A new link: pushAllToEntry replays the unbans, then sends the list; what waited follows.
Relink(g) ==
  /\ ~adminLink[g]
  /\ adminLink' = [adminLink EXCEPT ![g] = TRUE]
  /\ orderBox' = [orderBox EXCEPT ![g] =
       (IF adminUnban = 0 THEN <<>> ELSE <<UnbanMsg(adminUnban)>>) \o <<ListMsg>> \o @]
  /\ UNCHANGED <<clock, rowVars, storeVars, offers, adminRow, adminUnban, reportBox, lastOrder, banBounds>>

BansNext ==
  \/ Tick
  \/ \E g \in Guard : \/ Decide(g) \/ MergePeerBans(g) \/ ReloadRead(g) \/ ReloadReplace(g)
                      \/ TakeOrder(g) \/ RestartGuard(g) \/ HandleThreatBan(g)
                      \/ CutAdmin(g) \/ Relink(g)
                      \/ \E p \in Guard : PullBans(g, p)
  \/ OrderUnban \/ PushBans

\* Goroutines go on, messages on a link arrive, a link is made again, and peers are asked
\* every fifteen seconds.
BansFairness ==
  \A g \in Guard : /\ WF_banVars(MergePeerBans(g) \/ \E p \in Guard : PullBans(g, p))
                   /\ WF_banVars(ReloadRead(g) \/ ReloadReplace(g))
                   /\ WF_banVars(TakeOrder(g) \/ Relink(g))

BansSpec == BansInit /\ [][BansNext]_banVars /\ BansFairness

---------------------------------------------------------------------------
(* Properties *)

BansTypeOK ==
  /\ clock \in 1..MaxTime
  /\ row \in [Guard -> 0..MaxTime] /\ unbanned \in [Guard -> 0..MaxTime]
  /\ blocked \in [Guard -> BOOLEAN] /\ reload \in [Guard -> BOOLEAN]
  /\ reading \in [Guard -> SUBSET BOOLEAN] /\ offers \in [Guard -> BOOLEAN]
  /\ adminRow \in BOOLEAN /\ adminUnban \in 0..MaxTime
  /\ adminLink \in [Guard -> BOOLEAN]
  /\ orderBox \in [Guard -> Seq([type : {"unban_ips", "push_bans"}, at : 0..MaxTime, list : BOOLEAN])]
  /\ reportBox \subseteq Guard
  /\ lastOrder \in {"none", "ban", "unban"}
  /\ banned \in 0..MaxBan /\ unbans \in 0..MaxUnban /\ outages \in 0..MaxOutage

\* A ban one gateway decides blocks the address on all of them in the end, if nobody
\* unbans it, whatever messages, links and gateways fail in between.
BanSpreads == <>[](banned > 0 /\ adminUnban = 0 => \A g \in Guard : blocked[g])

\* What blocks requests is what is stored, once no reload is due or under way: a store
\* built from an older reading is not left in place.
BlockedIsStored ==
  \A g \in Guard : ~reload[g] /\ reading[g] = {} => (blocked[g] <=> row[g] # 0)

\* A reload under way puts in place what is stored, unless another is due after it.
StoreInv ==
  \A g \in Guard :
    /\ \A b, c \in reading[g] : b = c
    /\ ~reload[g] => IF reading[g] = {} THEN blocked[g] <=> row[g] # 0
                     ELSE TRUE \in reading[g] <=> row[g] # 0

\* When the last decision was to unban, no gateway blocks the address in the end: no
\* peer brings the ban back.
UnbanHolds == <>[](lastOrder = "unban" => \A g \in Guard : ~blocked[g])

=================================================================================
