---------------------------- MODULE Protection_proofs ----------------------------
(***************************************************************************)
(* Proofs about Bans and Upstream: what blocks requests is what is stored,   *)
(* and a broken backend is probed by one request at a time, for any gateways *)
(* and backends.                                                            *)
(***************************************************************************)
EXTENDS MCProtection, TLAPS, FiniteSetTheorems

---------------------------------------------------------------------------
(* Bans *)

BanMsg == [type : {"unban_ips", "push_bans"}, at : 0..MaxTime, list : BOOLEAN]

\* BansTypeOK in three parts: numbers, truth values and messages.
BanNumbers ==
  /\ clock \in 1..MaxTime
  /\ row \in [Guard -> 0..MaxTime] /\ unbanned \in [Guard -> 0..MaxTime]
  /\ adminUnban \in 0..MaxTime
  /\ banned \in 0..MaxBan /\ unbans \in 0..MaxUnban /\ outages \in 0..MaxOutage
BanFlags ==
  /\ blocked \in [Guard -> BOOLEAN] /\ reload \in [Guard -> BOOLEAN]
  /\ reading \in [Guard -> SUBSET BOOLEAN] /\ offers \in [Guard -> BOOLEAN]
  /\ adminRow \in BOOLEAN /\ adminLink \in [Guard -> BOOLEAN]
  /\ reportBox \subseteq Guard
  /\ lastOrder \in {"none", "ban", "unban"}
BanMail == orderBox \in [Guard -> Seq(BanMsg)]

LEMMA BanParts == BansTypeOK <=> BanNumbers /\ BanFlags /\ BanMail
BY DEF BansTypeOK, BanNumbers, BanFlags, BanMail, BanMsg

LEMMA BansTypeInit == BansInit => BansTypeOK
<1> SUFFICES ASSUME BansInit PROVE BanNumbers /\ BanFlags /\ BanMail
  BY BanParts
<1>1. BanNumbers
  BY BansAssumption DEF BansInit, BanNumbers
<1>2. BanFlags
  BY DEF BansInit, BanFlags
<1>3. BanMail
  BY DEF BansInit, BanMail
<1> QED BY <1>1, <1>2, <1>3

LEMMA BanNumbersStep == BansTypeOK /\ BansNext => BanNumbers'
<1> SUFFICES ASSUME BanNumbers, BanMail, BansNext PROVE BanNumbers'
  BY BanParts
<1> USE BansAssumption DEF BanNumbers
<1>1. CASE UNCHANGED <<clock, rowVars, adminUnban, banBounds>>
  BY <1>1 DEF rowVars, banBounds
<1>2. CASE Tick
  BY <1>2 DEF Tick, rowVars, adminVars, banBounds
<1>3. ASSUME NEW g \in Guard, Decide(g) PROVE BanNumbers'
  BY <1>3 DEF Decide, Upserted
<1>4. ASSUME NEW g \in Guard, MergePeerBans(g) PROVE BanNumbers'
  BY <1>4 DEF MergePeerBans, Upserted, adminVars, banBounds
<1>5. ASSUME NEW g \in Guard, TakeOrder(g) PROVE BanNumbers'
  <2> DEFINE m == Head(orderBox[g])
             at == IF m.at = 0 THEN clock ELSE Earlier(m.at, clock)
  <2>1. m \in BanMsg
    BY <1>5 DEF TakeOrder, BanMail
  <2>2. at \in 0..MaxTime
    BY <2>1 DEF BanMsg, Earlier
  <2>3. \/ /\ row' = [row EXCEPT ![g] = IF @ <= at THEN 0 ELSE @]
           /\ unbanned' = [unbanned EXCEPT ![g] = Later(@, at)]
        \/ row' = [row EXCEPT ![g] = clock] /\ unbanned' = unbanned
        \/ row' = row /\ unbanned' = unbanned
    BY <1>5 DEF TakeOrder, Upserted
  <2> HIDE DEF at
  <2>4. row' \in [Guard -> 0..MaxTime] /\ unbanned' \in [Guard -> 0..MaxTime]
    BY <2>2, <2>3 DEF Later
  <2> QED BY <1>5, <2>4 DEF TakeOrder, banBounds
<1>6. ASSUME NEW g \in Guard, RestartGuard(g) \/ CutAdmin(g) PROVE BanNumbers'
  BY <1>6 DEF RestartGuard, CutAdmin, rowVars
<1>7. CASE OrderUnban
  BY <1>7 DEF OrderUnban, rowVars
<1>8. CASE PushBans
  BY <1>8 DEF PushBans, rowVars
<1>9. ASSUME NEW g \in Guard,
             \/ ReloadRead(g) \/ ReloadReplace(g) \/ HandleThreatBan(g) \/ Relink(g)
             \/ \E p \in Guard : PullBans(g, p)
      PROVE  BanNumbers'
  BY <1>1, <1>9 DEF ReloadRead, ReloadReplace, HandleThreatBan, Relink, PullBans, adminVars
<1> QED BY <1>2, <1>3, <1>4, <1>5, <1>6, <1>7, <1>8, <1>9 DEF BansNext

LEMMA BanFlagsStep == BansTypeOK /\ BansNext => BanFlags'
<1> SUFFICES ASSUME BanFlags, BansNext PROVE BanFlags'
  BY BanParts
<1> USE DEF BanFlags
<1>1. CASE Tick
  BY <1>1 DEF Tick, storeVars, adminVars
<1>2. ASSUME NEW g \in Guard, Decide(g) PROVE BanFlags'
  BY <1>2 DEF Decide
<1>3. ASSUME NEW g \in Guard, MergePeerBans(g) PROVE BanFlags'
  BY <1>3 DEF MergePeerBans, adminVars
<1>4. ASSUME NEW g \in Guard, ReloadRead(g) PROVE BanFlags'
  BY <1>4 DEF ReloadRead, adminVars
<1>5. ASSUME NEW g \in Guard, ReloadReplace(g) PROVE BanFlags'
  BY <1>5 DEF ReloadReplace, adminVars
<1>6. ASSUME NEW g \in Guard, TakeOrder(g) PROVE BanFlags'
  BY <1>6 DEF TakeOrder
<1>7. ASSUME NEW g \in Guard, RestartGuard(g) PROVE BanFlags'
  BY <1>7 DEF RestartGuard
<1>8. ASSUME NEW g \in Guard, HandleThreatBan(g) PROVE BanFlags'
  BY <1>8 DEF HandleThreatBan, storeVars
<1>9. ASSUME NEW g \in Guard, CutAdmin(g) PROVE BanFlags'
  BY <1>9 DEF CutAdmin, storeVars
<1>10. ASSUME NEW g \in Guard, Relink(g) PROVE BanFlags'
  BY <1>10 DEF Relink, storeVars
<1>11. ASSUME NEW g \in Guard, NEW p \in Guard, PullBans(g, p) PROVE BanFlags'
  BY <1>11 DEF PullBans, storeVars, adminVars
<1>12. CASE OrderUnban
  BY <1>12 DEF OrderUnban, storeVars
<1>13. CASE PushBans
  BY <1>13 DEF PushBans, storeVars
<1> QED BY <1>1, <1>2, <1>3, <1>4, <1>5, <1>6, <1>7, <1>8, <1>9, <1>10, <1>11, <1>12, <1>13
        DEF BansNext

LEMMA BanMailStep == BansTypeOK /\ BansNext => BanMail'
<1> SUFFICES ASSUME BanNumbers, BanFlags, BanMail, BansNext PROVE BanMail'
  BY BanParts
<1> USE DEF BanMail
<1>m. /\ \A at \in 0..MaxTime : UnbanMsg(at) \in BanMsg
      /\ ListMsg \in BanMsg /\ [ListMsg EXCEPT !.list = FALSE] \in BanMsg
  <2>1. \A at \in 0..MaxTime, l \in BOOLEAN, t \in {"unban_ips", "push_bans"} :
          [type |-> t, at |-> at, list |-> l] \in BanMsg
    BY DEF BanMsg
  <2>2. 0 \in 0..MaxTime /\ adminRow \in BOOLEAN
    BY BansAssumption DEF BanFlags
  <2>3. ListMsg \in BanMsg
    BY <2>1, <2>2 DEF ListMsg
  <2>4. \A m \in BanMsg : [m EXCEPT !.list = FALSE] \in BanMsg
    BY DEF BanMsg
  <2> QED BY <2>1, <2>3, <2>4 DEF UnbanMsg
<1>1. CASE UNCHANGED orderBox
  BY <1>1
<1>2. ASSUME NEW g \in Guard, TakeOrder(g) PROVE BanMail'
  <2>1. Tail(orderBox[g]) \in Seq(BanMsg)
    BY <1>2 DEF TakeOrder
  <2> QED BY <1>2, <2>1 DEF TakeOrder
<1>3. ASSUME NEW g \in Guard, RestartGuard(g) \/ CutAdmin(g) PROVE BanMail'
  <2>1. \/ orderBox' = [orderBox EXCEPT ![g] = <<>>]
        \/ orderBox' = [orderBox EXCEPT ![g] = IF adminLink[g] THEN <<>> ELSE @]
    BY <1>3 DEF RestartGuard, CutAdmin
  <2>2. <<>> \in Seq(BanMsg)
    OBVIOUS
  <2> QED BY <2>1, <2>2
<1>4. ASSUME NEW g \in Guard, Relink(g) PROVE BanMail'
  <2> DEFINE replay == IF adminUnban = 0 THEN <<>> ELSE <<UnbanMsg(adminUnban)>>
             list == <<ListMsg>>
  <2>1. replay \in Seq(BanMsg) /\ list \in Seq(BanMsg)
    BY <1>m DEF BanNumbers
  <2>2. orderBox' = [orderBox EXCEPT ![g] = replay \o list \o @]
    BY <1>4 DEF Relink
  <2>3. replay \o list \o orderBox[g] \in Seq(BanMsg)
    <3> HIDE DEF replay, list
    <3> QED BY <2>1
  <2> QED BY <2>2, <2>3
<1>5. CASE OrderUnban
  <2>1. <<UnbanMsg(0), [ListMsg EXCEPT !.list = FALSE]>> \in Seq(BanMsg)
    BY <1>m, BansAssumption
  <2>2. \A g \in Guard : orderBox[g] \o <<UnbanMsg(0), [ListMsg EXCEPT !.list = FALSE]>> \in Seq(BanMsg)
    BY <2>1
  <2> QED BY <1>5, <2>2 DEF OrderUnban
<1>6. CASE PushBans
  BY <1>6, <1>m DEF PushBans
<1>7. ASSUME NEW g \in Guard,
             \/ Decide(g) \/ MergePeerBans(g) \/ ReloadRead(g) \/ ReloadReplace(g)
             \/ HandleThreatBan(g) \/ \E p \in Guard : PullBans(g, p)
      PROVE  BanMail'
  BY <1>1, <1>7 DEF Decide, MergePeerBans, ReloadRead, ReloadReplace, HandleThreatBan, PullBans,
                    adminVars
<1>8. CASE Tick
  BY <1>1, <1>8 DEF Tick, adminVars
<1> QED BY <1>2, <1>3, <1>4, <1>5, <1>6, <1>7, <1>8 DEF BansNext

LEMMA BansTypeStep == BansTypeOK /\ [BansNext]_banVars => BansTypeOK'
<1>1. BansTypeOK /\ BansNext => BansTypeOK'
  <2>1. BanNumbers' /\ BanFlags' /\ BanMail' => BansTypeOK'
    BY DEF BansTypeOK, BanNumbers, BanFlags, BanMail, BanMsg
  <2> QED BY <2>1, BanNumbersStep, BanFlagsStep, BanMailStep
<1>2. BansTypeOK /\ UNCHANGED banVars => BansTypeOK'
  BY DEF BansTypeOK, banVars
<1> QED BY <1>1, <1>2

\* The rows, flags and messages of every gateway keep their types.
THEOREM BansTypes == BansSpec => []BansTypeOK
BY BansTypeInit, BansTypeStep, PTL DEF BansSpec

LEMMA StoreInvInit == BansInit => StoreInv
BY DEF BansInit, StoreInv

LEMMA StoreInvStep == BansTypeOK /\ StoreInv /\ [BansNext]_banVars => StoreInv'
<1> SUFFICES ASSUME BansTypeOK, StoreInv, [BansNext]_banVars PROVE StoreInv'
  OBVIOUS
<1>t. /\ row \in [Guard -> 0..MaxTime] /\ clock \in 1..MaxTime
      /\ blocked \in [Guard -> BOOLEAN] /\ reload \in [Guard -> BOOLEAN]
      /\ reading \in [Guard -> SUBSET BOOLEAN]
  BY DEF BansTypeOK
\* Steps that touch none of it.
<1>1. CASE UNCHANGED <<row, storeVars>>
  BY <1>1 DEF StoreInv, storeVars
\* Steps that change the rows of a gateway have it reload them.
<1>2. ASSUME NEW g \in Guard,
             /\ reload' = [reload EXCEPT ![g] = TRUE]
             /\ \A x \in Guard \ {g} : row'[x] = row[x]
             /\ UNCHANGED <<blocked, reading>>
      PROVE  StoreInv'
  BY <1>2, <1>t DEF StoreInv
<1>3. ASSUME NEW g \in Guard, Decide(g) PROVE StoreInv'
  BY <1>2, <1>3, <1>t DEF Decide, Upserted
<1>4. ASSUME NEW g \in Guard, MergePeerBans(g) PROVE StoreInv'
  BY <1>1, <1>2, <1>4, <1>t DEF MergePeerBans, Upserted, storeVars
<1>5. ASSUME NEW g \in Guard, TakeOrder(g) PROVE StoreInv'
  BY <1>2, <1>5, <1>t DEF TakeOrder, Upserted
<1>6. ASSUME NEW g \in Guard, ReloadRead(g) PROVE StoreInv'
  BY <1>6, <1>t DEF StoreInv, ReloadRead, rowVars
<1>7. ASSUME NEW g \in Guard, ReloadReplace(g) PROVE StoreInv'
  <2>1. PICK b \in reading[g] : /\ blocked' = [blocked EXCEPT ![g] = b]
                                /\ reading' = [reading EXCEPT ![g] = @ \ {b}]
    BY <1>7 DEF ReloadReplace
  <2>2. row' = row /\ reload' = reload
    BY <1>7 DEF ReloadReplace, rowVars
  <2>3. reading[g] = {b} /\ b \in BOOLEAN
    <3>1. \A c \in reading[g] : c = b
      BY DEF StoreInv
    <3>2. reading[g] \subseteq BOOLEAN
      BY <1>t
    <3> QED BY <3>1, <3>2
  <2>4. blocked'[g] = b /\ reading'[g] = {}
    BY <2>1, <2>3, <1>t
  <2>5. ~reload[g] => (b <=> row[g] # 0)
    <3>1. ~reload[g] => (TRUE \in reading[g] <=> row[g] # 0)
      BY <2>3 DEF StoreInv
    <3>2. b <=> TRUE \in reading[g]
      BY <2>3
    <3> QED BY <3>1, <3>2
  <2>6. \A x \in Guard \ {g} : blocked'[x] = blocked[x] /\ reading'[x] = reading[x]
    BY <2>1, <1>t
  <2> SUFFICES ASSUME NEW x \in Guard
               PROVE  /\ \A y, z \in reading'[x] : y = z
                      /\ ~reload'[x] => IF reading'[x] = {} THEN blocked'[x] <=> row'[x] # 0
                                        ELSE TRUE \in reading'[x] <=> row'[x] # 0
    BY DEF StoreInv
  <2>7. CASE x = g
    BY <2>2, <2>4, <2>5, <2>7
  <2>8. CASE x # g
    BY <2>2, <2>6, <2>8 DEF StoreInv
  <2> QED BY <2>7, <2>8
<1>8. ASSUME NEW g \in Guard, RestartGuard(g) PROVE StoreInv'
  BY <1>8, <1>t DEF StoreInv, RestartGuard, rowVars
<1>9. ASSUME NEW g \in Guard, HandleThreatBan(g) \/ CutAdmin(g) \/ Relink(g) \/ \E p \in Guard : PullBans(g, p)
      PROVE  StoreInv'
  BY <1>1, <1>9 DEF HandleThreatBan, CutAdmin, Relink, PullBans, rowVars
<1>10. CASE Tick \/ OrderUnban \/ PushBans
  BY <1>1, <1>10 DEF Tick, OrderUnban, PushBans, rowVars
<1>11. CASE UNCHANGED banVars
  BY <1>1, <1>11 DEF banVars, storeVars
<1> QED BY <1>3, <1>4, <1>5, <1>6, <1>7, <1>8, <1>9, <1>10, <1>11 DEF BansNext

\* The store that blocks requests is what the rows say, once no reload is due or under
\* way: reloadBanStore reads and replaces under one lock, and whatever changes the rows has
\* another reload follow.
THEOREM StoreFollows == BansSpec => []BlockedIsStored
<1>1. StoreInv => BlockedIsStored
  BY DEF StoreInv, BlockedIsStored
<1> QED BY <1>1, StoreInvInit, StoreInvStep, BansTypes, PTL DEF BansSpec

---------------------------------------------------------------------------
(* Load balancing *)

\* UpstreamTypeOK in two parts: the checks, and the breaker with the requests.
CheckTypes ==
  /\ works \in [Backend -> BOOLEAN] /\ quarantine \in [Backend -> BOOLEAN]
  /\ verdict \in [Backend -> BOOLEAN] /\ streak \in [Backend -> (-Down)..Up]
  /\ conf \in 0..MaxConf /\ checks \subseteq Check
  /\ \A c \in checks : c.conf <= conf
  /\ \A b \in Backend : \E c \in checks : {d \in checks : d.of = b /\ d.conf = conf} = {c}
  /\ flips \in 0..MaxFlip
BreakerTypes ==
  /\ circuit \in [Backend -> Circuit]
  /\ request \in [Request -> Attempts]
  /\ \A q \in Request : request[q].pc \in Underway => request[q].todo # <<>>
  /\ time \in 1..MaxClock

LEMMA UpstreamParts == UpstreamTypeOK <=> CheckTypes /\ BreakerTypes
BY DEF UpstreamTypeOK, CheckTypes, BreakerTypes

\* The thresholds and the bounds.
LEMMA UpstreamBounds ==
  /\ Up \in Nat /\ Up >= 1 /\ Down \in Nat /\ Down >= 1 /\ Threshold \in Nat /\ Threshold >= 1
  /\ Timeout \in Nat /\ Timeout >= 1 /\ MaxClock \in Nat /\ MaxClock >= 1
  /\ MaxFlip \in Nat /\ MaxConf \in Nat
BY UpstreamAssumption

LEMMA CheckInit == UpstreamInit => CheckTypes
<1> SUFFICES ASSUME UpstreamInit PROVE CheckTypes
  OBVIOUS
<1> DEFINE first(b) == [of |-> b, conf |-> 0, pc |-> "wait", ok |-> TRUE]
<1>1. works \in [Backend -> BOOLEAN] /\ verdict \in [Backend -> BOOLEAN]
      /\ quarantine \in [Backend -> BOOLEAN]
  BY DEF UpstreamInit
<1>2. streak \in [Backend -> (-Down)..Up] /\ conf \in 0..MaxConf /\ flips \in 0..MaxFlip
  BY UpstreamBounds DEF UpstreamInit
<1>3. checks = {first(b) : b \in Backend} /\ conf = 0
  BY DEF UpstreamInit
<1>4. \A b \in Backend : first(b) \in Check /\ first(b).of = b /\ first(b).conf = 0
  BY UpstreamBounds DEF Check
<1> HIDE DEF first
<1>5. \A c \in checks : c \in Check /\ c.conf <= conf
  BY <1>3, <1>4
<1>6. ASSUME NEW b \in Backend
      PROVE  \E c \in checks : {d \in checks : d.of = b /\ d.conf = conf} = {c}
  BY <1>3, <1>4
<1> QED BY <1>1, <1>2, <1>5, <1>6 DEF CheckTypes

LEMMA BreakerInit == UpstreamInit => BreakerTypes
<1> SUFFICES ASSUME UpstreamInit PROVE BreakerTypes
  OBVIOUS
<1>1. circuit \in [Backend -> Circuit]
  BY UpstreamBounds DEF UpstreamInit, Circuit
<1>2. request \in [Request -> Attempts] /\ \A q \in Request : request[q].pc \notin Underway
  BY DEF UpstreamInit, Attempts, NoProbe, Underway
<1>3. time \in 1..MaxClock
  BY UpstreamBounds DEF UpstreamInit
<1> QED BY <1>1, <1>2, <1>3 DEF BreakerTypes

\* One goroutine takes the place of another of the same backend and configuration.
LEMMA ReplacedCheck ==
  ASSUME CheckTypes, NEW c \in checks, NEW d \in Check, d.of = c.of, d.conf = c.conf,
         Replaced(c, d), conf' = conf
  PROVE  /\ checks' \subseteq Check
         /\ \A e \in checks' : e.conf <= conf'
         /\ \A b \in Backend : \E e \in checks' : {f \in checks' : f.of = b /\ f.conf = conf'} = {e}
<1>1. checks' = (checks \ {c}) \cup {d}
  BY DEF Replaced
<1>2. ASSUME NEW b \in Backend
      PROVE  \E e \in checks' : {f \in checks' : f.of = b /\ f.conf = conf'} = {e}
  <2>1. PICK e \in checks : {f \in checks : f.of = b /\ f.conf = conf} = {e}
    BY DEF CheckTypes
  <2>2. CASE e = c
    <3>1. {f \in checks' : f.of = b /\ f.conf = conf'} = {d}
      BY <1>1, <2>1, <2>2
    <3> QED BY <1>1, <3>1
  <2>3. CASE e # c
    <3>1. ~(c.of = b /\ c.conf = conf)
      BY <2>1, <2>3
    <3>2. {f \in checks' : f.of = b /\ f.conf = conf'} = {e}
      BY <1>1, <2>1, <2>3, <3>1
    <3> QED BY <1>1, <2>3, <3>2
  <2> QED BY <2>2, <2>3
<1> QED BY <1>1, <1>2 DEF CheckTypes

LEMMA CheckStep == UpstreamTypeOK /\ UpstreamNext => CheckTypes'
<1> SUFFICES ASSUME UpstreamTypeOK, CheckTypes, BreakerTypes, UpstreamNext PROVE CheckTypes'
  BY UpstreamParts
<1>0. Fragile \subseteq Backend
  BY UpstreamAssumption
<1>1. ASSUME NEW b \in Backend, Flip(b) PROVE CheckTypes'
  BY <1>1, UpstreamBounds DEF CheckTypes, Flip, healthVars
<1>2. ASSUME NEW b \in Backend, QuarantineEnds(b) PROVE CheckTypes'
  BY <1>2 DEF CheckTypes, QuarantineEnds
<1>3. CASE Pass
  BY <1>3 DEF CheckTypes, Pass, healthVars
<1>4. CASE Reconfigure
  <2> DEFINE new(b) == [of |-> b, conf |-> conf + 1, pc |-> "wait", ok |-> TRUE]
             old == {c \in checks : c.pc # "wait"}
  <2>1. conf' = conf + 1 /\ conf' \in 0..MaxConf /\ checks' = old \cup {new(b) : b \in Backend}
    BY <1>4, UpstreamBounds DEF Reconfigure, CheckTypes
  <2>2. \A b \in Backend : new(b) \in Check /\ new(b).of = b /\ new(b).conf = conf'
    BY <2>1 DEF Check
  <2>3. \A c \in old : c \in Check /\ c.conf < conf'
    <3>1. \A c \in checks : c.conf \in 0..MaxConf /\ c.conf <= conf /\ c \in Check
      BY DEF CheckTypes, Check
    <3> QED BY <2>1, <3>1 DEF CheckTypes
  <2> HIDE DEF new, old
  <2>4. \A c \in checks' : c \in Check /\ c.conf <= conf'
    <3>1. \A c \in old : c \in Check /\ c.conf <= conf'
      BY <2>1, <2>3 DEF Check
    <3> QED BY <2>1, <2>2, <3>1
  <2>5. ASSUME NEW b \in Backend
        PROVE  \E c \in checks' : {d \in checks' : d.of = b /\ d.conf = conf'} = {c}
    <3>1. \A c \in old : c.conf # conf'
      BY <2>1, <2>3 DEF Check
    <3>2. {d \in checks' : d.of = b /\ d.conf = conf'} = {new(b)}
      BY <2>1, <2>2, <3>1
    <3> QED BY <2>1, <3>2
  <2> QED BY <1>4, <2>1, <2>4, <2>5 DEF CheckTypes, Reconfigure
<1>5. ASSUME NEW c \in checks, Measure(c) PROVE CheckTypes'
  <2> DEFINE d == [c EXCEPT !.pc = "apply", !.ok = works[c.of]]
  <2>1. c \in Check /\ works \in [Backend -> BOOLEAN]
    BY DEF CheckTypes
  <2>2. d \in Check /\ d.of = c.of /\ d.conf = c.conf
    BY <2>1 DEF Check
  <2>3. Replaced(c, d) /\ conf' = conf
    BY <1>5 DEF Measure
  <2> HIDE DEF d
  <2>4. /\ checks' \subseteq Check
        /\ \A e \in checks' : e.conf <= conf'
        /\ \A b \in Backend : \E e \in checks' : {f \in checks' : f.of = b /\ f.conf = conf'} = {e}
    BY <2>2, <2>3, ReplacedCheck
  <2> QED BY <1>5, <2>4 DEF CheckTypes, Measure
<1>6. ASSUME NEW c \in checks, ApplyCheck(c) PROVE CheckTypes'
  <2> DEFINE n == NextStreak(c.of, c.ok)
             d == [c EXCEPT !.pc = "wait", !.ok = TRUE]
  <2>0. c \in Check /\ c.of \in Backend /\ c.conf \in 0..MaxConf
    BY DEF CheckTypes, Check
  <2>1. n \in (-Down)..Up
    BY <2>0, UpstreamBounds DEF NextStreak, CheckTypes
  <2>2. /\ checks' \subseteq Check
        /\ \A e \in checks' : e.conf <= conf'
        /\ \A b \in Backend : \E e \in checks' : {f \in checks' : f.of = b /\ f.conf = conf'} = {e}
    <3>0. conf' = conf
      BY <1>6 DEF ApplyCheck
    <3>1. CASE c.conf = conf
      <4>1. d \in Check /\ d.of = c.of /\ d.conf = c.conf
        BY <2>0 DEF Check
      <4>2. Replaced(c, d)
        BY <1>6, <3>1 DEF ApplyCheck
      <4> HIDE DEF d
      <4> QED BY <3>0, <4>1, <4>2, ReplacedCheck
    <3>2. CASE c.conf # conf
      <4>1. checks' = checks \ {c}
        BY <1>6, <3>2 DEF ApplyCheck
      <4>2. ASSUME NEW b \in Backend
            PROVE  \E e \in checks' : {f \in checks' : f.of = b /\ f.conf = conf'} = {e}
        <5>1. PICK e \in checks : {f \in checks : f.of = b /\ f.conf = conf} = {e}
          BY DEF CheckTypes
        <5>2. e # c /\ {f \in checks' : f.of = b /\ f.conf = conf'} = {e}
          BY <3>0, <3>2, <4>1, <5>1
        <5> QED BY <4>1, <5>2
      <4> QED BY <3>0, <4>1, <4>2 DEF CheckTypes
    <3> QED BY <3>1, <3>2
  <2>3. streak' \in [Backend -> (-Down)..Up]
    <3>1. streak' = [streak EXCEPT ![c.of] = n]
      BY <1>6 DEF ApplyCheck
    <3> HIDE DEF n
    <3> QED BY <2>0, <2>1, <3>1 DEF CheckTypes
  <2>4. verdict' \in [Backend -> BOOLEAN]
    <3>1. PICK v \in BOOLEAN : verdict' = [verdict EXCEPT ![c.of] = v]
      <4>1. \/ verdict' = [verdict EXCEPT ![c.of] = TRUE]
            \/ verdict' = [verdict EXCEPT ![c.of] = FALSE]
            \/ verdict' = [verdict EXCEPT ![c.of] = verdict[c.of]]
        BY <1>6 DEF ApplyCheck
      <4>2. verdict[c.of] \in BOOLEAN
        BY <2>0 DEF CheckTypes
      <4> QED BY <4>1, <4>2
    <3> QED BY <3>1 DEF CheckTypes
  <2>5. quarantine' \in [Backend -> BOOLEAN]
    <3> DEFINE v == quarantine[c.of] /\ n < Up
    <3>1. quarantine' = [quarantine EXCEPT ![c.of] = v] /\ v \in BOOLEAN
      BY <1>6 DEF ApplyCheck
    <3> HIDE DEF v
    <3> QED BY <3>1 DEF CheckTypes
  <2> QED BY <1>6, <2>2, <2>3, <2>4, <2>5 DEF CheckTypes, ApplyCheck
<1>7. ASSUME NEW q \in Request, NEW order, Arrive(q, order) PROVE CheckTypes'
  BY <1>7 DEF CheckTypes, Arrive, healthVars
<1>8. ASSUME NEW q \in Request, Succeed(q) PROVE CheckTypes'
  BY <1>8 DEF CheckTypes, Succeed
<1>9. ASSUME NEW q \in Request, FailAttempt(q) PROVE CheckTypes'
  <2> DEFINE b == Head(request[q].todo)
  <2>1. PICK long \in BOOLEAN : quarantine' = [quarantine EXCEPT ![b] = quarantine[b] \/ long]
    BY <1>9 DEF FailAttempt, Quarantines
  <2> HIDE DEF b
  <2>2. quarantine' \in [Backend -> BOOLEAN]
    BY <2>1 DEF CheckTypes
  <2> QED BY <1>9, <2>2 DEF CheckTypes, FailAttempt
<1>10. ASSUME NEW q \in Request, Do(q) PROVE CheckTypes'
  BY <1>10 DEF CheckTypes, Do, healthVars
<1> QED BY <1>0, <1>10, <1>1, <1>2, <1>3, <1>4, <1>5, <1>6, <1>7, <1>8, <1>9 DEF UpstreamNext

\* What Allow, RecordSuccess and RecordFailure make of a circuit.
LEMMA CircuitSteps ==
  ASSUME BreakerTypes, NEW b \in Backend
  PROVE  /\ AfterAllow(b) \in Circuit
         /\ AfterSuccess(b) \in Circuit /\ AfterSuccess(b).state = "closed"
         /\ AfterFailure(b) \in Circuit /\ AfterFailure(b).state # "half"
         /\ AfterFailure(b).state = "open" =>
              \/ AfterFailure(b).openUntil = time + Timeout
              \/ circuit[b].state = "open" /\ AfterFailure(b).openUntil = circuit[b].openUntil
<1>1. circuit[b] \in Circuit /\ time \in Nat
  BY UpstreamBounds DEF BreakerTypes
<1>s. time + Timeout \in Nat /\ circuit[b].failures \in 0..Threshold
  BY <1>1, UpstreamBounds DEF Circuit
<1>2. AfterAllow(b) \in Circuit
  <2>1. \A r \in Circuit, t \in Nat : [r EXCEPT !.state = "half", !.probeUntil = t] \in Circuit
    BY DEF Circuit
  <2> QED BY <1>1, <1>s, <2>1 DEF AfterAllow
<1>3. AfterSuccess(b) \in Circuit /\ AfterSuccess(b).state = "closed"
  <2>1. \A r \in Circuit : [r EXCEPT !.state = "closed", !.failures = 0] \in Circuit
    <3>1. 0 \in 0..Threshold
      BY UpstreamBounds
    <3>2. \A n \in 0..Threshold, r \in Circuit : [r EXCEPT !.state = "closed", !.failures = n] \in Circuit
      BY DEF Circuit
    <3> QED BY <3>1, <3>2
  <2>2. \A r \in Circuit : [r EXCEPT !.state = "closed", !.failures = 0].state = "closed"
    BY DEF Circuit
  <2> QED BY <1>1, <2>1, <2>2 DEF AfterSuccess
<1>4. AfterFailure(b) \in Circuit /\ AfterFailure(b).state # "half"
  <2> DEFINE n == IF circuit[b].failures < Threshold THEN circuit[b].failures + 1 ELSE Threshold
             t == time + Timeout
  <2>1. n \in 0..Threshold /\ t \in Nat
    BY <1>s, UpstreamBounds
  <2>2. \/ AfterFailure(b) = [circuit[b] EXCEPT !.failures = n, !.state = "open", !.openUntil = t]
        \/ AfterFailure(b) = [circuit[b] EXCEPT !.failures = n] /\ circuit[b].state # "half"
    BY DEF AfterFailure
  <2> HIDE DEF n, t
  <2>3. \A r \in Circuit : /\ [r EXCEPT !.failures = n, !.state = "open", !.openUntil = t] \in Circuit
                           /\ [r EXCEPT !.failures = n, !.state = "open", !.openUntil = t].state = "open"
    BY <2>1 DEF Circuit
  <2>4. \A r \in Circuit : [r EXCEPT !.failures = n] \in Circuit
                           /\ [r EXCEPT !.failures = n].state = r.state
    BY <2>1 DEF Circuit
  <2>5. CASE AfterFailure(b) = [circuit[b] EXCEPT !.failures = n, !.state = "open", !.openUntil = t]
    BY <1>1, <2>3, <2>5
  <2>6. CASE AfterFailure(b) = [circuit[b] EXCEPT !.failures = n] /\ circuit[b].state # "half"
    BY <1>1, <2>4, <2>6
  <2> QED BY <2>2, <2>5, <2>6
<1>5. AfterFailure(b).state = "open" =>
        \/ AfterFailure(b).openUntil = time + Timeout
        \/ circuit[b].state = "open" /\ AfterFailure(b).openUntil = circuit[b].openUntil
  BY <1>1, UpstreamBounds DEF AfterFailure, Circuit
<1> QED BY <1>2, <1>3, <1>4, <1>5

LEMMA OrderType ==
  ASSUME NEW order \in SetToSeqs(LetThrough)
  PROVE  order \in Seq(Backend)
<1>1. LetThrough \subseteq Backend
  BY DEF LetThrough, Healthy
<1>2. IsFiniteSet(LetThrough) /\ Cardinality(LetThrough) \in Nat
  BY <1>1, UpstreamAssumption, FS_Subset, FS_CardinalityType
<1>3. order \in [1..Cardinality(LetThrough) -> LetThrough]
  BY DEF SetToSeqs
<1> QED BY <1>1, <1>2, <1>3

LEMMA EndedAttempts ==
  ASSUME BreakerTypes, NEW q \in Request
  PROVE  Ended(q) \in Attempts /\ Ended(q).pc \notin Underway /\ Ended(q).probe = NoProbe
<1>1. request[q] \in Attempts
  BY DEF BreakerTypes
<1>2. NoProbe \in [Backend -> Nat] /\ <<>> \in Seq(Backend)
  BY DEF NoProbe
<1> DEFINE r == request[q]
           t == <<>>
           f == NoProbe
           e == [r EXCEPT !.pc = "done", !.todo = t, !.probe = f]
<1>3. Ended(q) = e
  BY DEF Ended
<1> HIDE DEF r, t, f
<1>4. r \in Attempts /\ t \in Seq(Backend) /\ f \in [Backend -> Nat]
  BY <1>1, <1>2 DEF r, t, f
<1>5. e \in Attempts
  BY <1>4 DEF Attempts
<1>6. e.pc = "done" /\ e.probe = f
  BY <1>4 DEF Attempts
<1> QED BY <1>3, <1>5, <1>6 DEF f, Underway

\* The backend a request tries, and what is left of the request when that fails.
LEMMA Trying ==
  ASSUME BreakerTypes, NEW q \in Request, request[q].pc \in Underway
  PROVE  /\ Head(request[q].todo) \in Backend
         /\ Tail(request[q].todo) \in Seq(Backend)
         /\ Len(request[q].todo) # 1 => Tail(request[q].todo) # <<>>
<1>1. request[q].todo \in Seq(Backend) /\ request[q].todo # <<>>
  BY DEF BreakerTypes, Attempts
<1> DEFINE t == request[q].todo
<1> HIDE DEF t
<1>2. t \in Seq(Backend) /\ t # <<>>
  BY <1>1 DEF t
<1>3. Head(t) \in Backend /\ Tail(t) \in Seq(Backend)
  BY <1>2
<1>4. Len(t) # 1 => Tail(t) # <<>>
  <2>1. Len(Tail(t)) = Len(t) - 1 /\ Len(t) \in Nat
    BY <1>2
  <2>2. Len(<<>>) = 0
    OBVIOUS
  <2> DEFINE n == Len(t)
             m == Len(Tail(t))
  <2>3. m = n - 1 /\ n \in Nat
    BY <2>1
  <2>4. Tail(t) = <<>> => m = 0
    BY <2>2, Zenon
  <2> HIDE DEF n, m
  <2>5. Tail(t) = <<>> => n = 1
    BY <2>3, <2>4
  <2> QED BY <2>5 DEF n
<1> QED BY <1>3, <1>4 DEF t

\* What a failed attempt makes of its request: it is over, or goes on with the next backend.
LEMMA AfterAttempt ==
  ASSUME BreakerTypes, NEW q \in Request, FailAttempt(q)
  PROVE  \E r \in Attempts :
           /\ request' = [request EXCEPT ![q] = r]
           /\ r.pc \in Underway => r.todo # <<>>
           /\ \A b \in Backend : r.probe[b] \in {0, request[q].probe[b]}
<1> DEFINE b == Head(request[q].todo)
           over == Ended(q)
           on == [request[q] EXCEPT !.pc = "try", !.todo = Tail(request[q].todo),
                                    !.probe = [request[q].probe EXCEPT ![b] = 0]]
<1>1. b \in Backend /\ Tail(request[q].todo) \in Seq(Backend)
      /\ (Len(request[q].todo) # 1 => Tail(request[q].todo) # <<>>)
  BY Trying DEF FailAttempt, Underway
<1>2. over \in Attempts /\ over.pc \notin Underway /\ \A a \in Backend : over.probe[a] = 0
  BY EndedAttempts DEF NoProbe
<1>3. request[q] \in Attempts
  BY DEF BreakerTypes
<1>4. on \in Attempts /\ on.todo = Tail(request[q].todo)
      /\ \A a \in Backend : on.probe[a] \in {0, request[q].probe[a]}
  <2> HIDE DEF b
  <2> QED BY <1>1, <1>3 DEF Attempts, Underway
<1>5. \/ request' = [request EXCEPT ![q] = over]
      \/ request' = [request EXCEPT ![q] = on] /\ Len(request[q].todo) # 1
  <2>1. PICK x \in BOOLEAN : request' = [request EXCEPT ![q] =
          IF x \/ Len(request[q].todo) = 1 THEN over ELSE on]
    <3> USE DEF over, on, b
    <3> QED BY DEF FailAttempt
  <2> HIDE DEF over, on
  <2>3. CASE x \/ Len(request[q].todo) = 1
    BY <2>1, <2>3
  <2>4. CASE ~(x \/ Len(request[q].todo) = 1)
    BY <2>1, <2>4
  <2> QED BY <2>3, <2>4
<1> HIDE DEF over, on, b
<1> QED BY <1>1, <1>2, <1>4, <1>5

\* What a call makes of its request: answered, failed, or over at once.
LEMMA AfterCall ==
  ASSUME BreakerTypes, NEW q \in Request, Do(q)
  PROVE  \E r \in Attempts :
           /\ request' = [request EXCEPT ![q] = r]
           /\ r.pc \in Underway => r.todo # <<>>
           /\ \A b \in Backend : r.probe[b] \in {0, request[q].probe[b]}
<1> DEFINE fine == [request[q] EXCEPT !.pc = "fine"]
           failed == [request[q] EXCEPT !.pc = "failed"]
           over == Ended(q)
<1>1. request[q] \in Attempts /\ request[q].todo # <<>>
  BY DEF BreakerTypes, Do, Underway
<1>2. over \in Attempts /\ over.pc \notin Underway /\ \A a \in Backend : over.probe[a] = 0
  BY EndedAttempts DEF NoProbe
<1>3. /\ fine \in Attempts /\ fine.todo # <<>> /\ fine.probe = request[q].probe
      /\ failed \in Attempts /\ failed.todo # <<>> /\ failed.probe = request[q].probe
  BY <1>1 DEF Attempts, Underway
<1>4. \/ request' = [request EXCEPT ![q] = fine]
      \/ request' = [request EXCEPT ![q] = failed]
      \/ request' = [request EXCEPT ![q] = over]
  BY DEF Do
<1> HIDE DEF fine, failed, over
<1> QED BY <1>2, <1>3, <1>4

LEMMA BreakerStep == UpstreamTypeOK /\ UpstreamNext => BreakerTypes'
<1> SUFFICES ASSUME BreakerTypes, UpstreamNext PROVE BreakerTypes'
  BY UpstreamParts
<1>1. CASE UNCHANGED <<circuit, request, time>>
  BY <1>1 DEF BreakerTypes
<1>2. CASE Pass
  BY <1>2, UpstreamBounds DEF BreakerTypes, Pass
<1>3. ASSUME NEW q \in Request, NEW order \in SetToSeqs(LetThrough), Arrive(q, order)
      PROVE  BreakerTypes'
  <2> DEFINE r == [pc |-> "try", todo |-> order,
                   probe |-> [b \in Backend |-> IF b \in LetThrough /\ circuit[b].state # "closed"
                                                THEN time + Timeout ELSE 0]]
             s == IF order = <<>> THEN Ended(q) ELSE r
  <2>1. r \in Attempts /\ r.todo = order
    BY OrderType, UpstreamBounds DEF Attempts, BreakerTypes, Underway
  <2>2. s \in Attempts /\ (s.pc \in Underway => s.todo # <<>>)
    <3> HIDE DEF r
    <3> QED BY <2>1, EndedAttempts
  <2>3. request' = [request EXCEPT ![q] = s]
    BY <1>3 DEF Arrive
  <2>4. circuit' = [b \in Backend |-> IF b \in LetThrough THEN AfterAllow(b) ELSE circuit[b]]
    BY <1>3 DEF Arrive
  <2>5. circuit' \in [Backend -> Circuit]
    BY <2>4, CircuitSteps DEF BreakerTypes
  <2> HIDE DEF s
  <2> QED BY <1>3, <2>2, <2>3, <2>5 DEF BreakerTypes, Arrive
<1>4. ASSUME NEW q \in Request, Succeed(q) PROVE BreakerTypes'
  <2>1. PICK b \in Backend : circuit' = [circuit EXCEPT ![b] = AfterSuccess(b)]
    BY <1>4, Trying DEF Succeed, Underway
  <2>2. circuit' \in [Backend -> Circuit]
    BY <2>1, CircuitSteps DEF BreakerTypes
  <2> QED BY <1>4, <2>2, EndedAttempts DEF BreakerTypes, Succeed
<1>5. ASSUME NEW q \in Request, FailAttempt(q) PROVE BreakerTypes'
  <2>1. PICK b \in Backend : circuit' = [circuit EXCEPT ![b] = AfterFailure(b)]
    BY <1>5, Trying DEF FailAttempt, Underway
  <2>2. circuit' \in [Backend -> Circuit]
    BY <2>1, CircuitSteps DEF BreakerTypes
  <2>3. PICK r \in Attempts : request' = [request EXCEPT ![q] = r] /\ (r.pc \in Underway => r.todo # <<>>)
    BY <1>5, AfterAttempt
  <2> QED BY <1>5, <2>2, <2>3 DEF BreakerTypes, FailAttempt
<1>6. ASSUME NEW b \in Backend, Flip(b) \/ QuarantineEnds(b) PROVE BreakerTypes'
  BY <1>1, <1>6 DEF Flip, QuarantineEnds
<1>7. ASSUME NEW c \in checks, Measure(c) \/ ApplyCheck(c) PROVE BreakerTypes'
  BY <1>1, <1>7 DEF Measure, ApplyCheck
<1>8. CASE Reconfigure
  BY <1>1, <1>8 DEF Reconfigure
<1>9. ASSUME NEW q \in Request, Do(q) PROVE BreakerTypes'
  <2>1. PICK r \in Attempts : request' = [request EXCEPT ![q] = r] /\ (r.pc \in Underway => r.todo # <<>>)
    BY <1>9, AfterCall
  <2> QED BY <1>9, <2>1 DEF BreakerTypes, Do
<1>10. Fragile \subseteq Backend
  BY UpstreamAssumption
<1> QED BY <1>2, <1>3, <1>4, <1>5, <1>6, <1>7, <1>8, <1>9, <1>10 DEF UpstreamNext

LEMMA UpstreamTypeStep == UpstreamTypeOK /\ [UpstreamNext]_upstreamVars => UpstreamTypeOK'
<1>1. CheckTypes' /\ BreakerTypes' => UpstreamTypeOK'
  BY DEF UpstreamTypeOK, CheckTypes, BreakerTypes
<1>2. UpstreamTypeOK /\ UNCHANGED upstreamVars => UpstreamTypeOK'
  BY DEF UpstreamTypeOK, upstreamVars
<1> QED BY <1>1, <1>2, CheckStep, BreakerStep

LEMMA UpstreamTypeInit == UpstreamInit => UpstreamTypeOK
BY CheckInit, BreakerInit, UpstreamParts

\* The verdicts, the circuits and the attempts keep their types, and every backend has one
\* goroutine that checks it with the present configuration.
THEOREM UpstreamTypes == UpstreamSpec => []UpstreamTypeOK
BY UpstreamTypeInit, UpstreamTypeStep, PTL DEF UpstreamSpec

\* The part of ProbeInv about one probe of one backend.
ProbeHolds(q, b) ==
  /\ request[q].probe[b] <= time + Timeout
  /\ circuit[b].state = "half" => request[q].probe[b] <= circuit[b].probeUntil
  /\ circuit[b].state = "open" => request[q].probe[b] <= circuit[b].openUntil
  /\ \A p \in Request : Probing(p, b) => p = q

LEMMA ProbeStep == ProbeInv /\ [UpstreamNext]_upstreamVars => ProbeInv'
<1> SUFFICES ASSUME ProbeInv, [UpstreamNext]_upstreamVars,
                    NEW q \in Request, NEW b \in Backend, Probing(q, b)'
             PROVE  ProbeHolds(q, b)'
  BY UpstreamTypeStep DEF ProbeInv, ProbeHolds
<1>t. UpstreamTypeOK /\ BreakerTypes /\ time \in Nat /\ Timeout \in Nat
  BY UpstreamParts, UpstreamBounds DEF ProbeInv, BreakerTypes
<1>n. BreakerTypes'
  BY <1>t, BreakerStep DEF BreakerTypes, upstreamVars
<1>f. \A p \in Request, a \in Backend :
        /\ request[p].probe[a] \in Nat /\ circuit[a].probeUntil \in Nat /\ circuit[a].openUntil \in Nat
        /\ circuit[a].state \in {"closed", "open", "half"}
  BY <1>t DEF BreakerTypes, Attempts, Circuit
<1>h. \A p \in Request, a \in Backend : Probing(p, a) => ProbeHolds(p, a)
  BY DEF ProbeInv, ProbeHolds
\* Nothing about this backend changes.
<1>1. ASSUME circuit'[b] = circuit[b], time' = time \/ time' = time + 1,
             \A p \in Request : request'[p].probe[b] \in {0, request[p].probe[b]}
      PROVE  ProbeHolds(q, b)'
  <2>1. \A p \in Request : Probing(p, b)' => Probing(p, b) /\ request'[p].probe[b] = request[p].probe[b]
    BY <1>1, <1>t, <1>f DEF Probing
  <2>2. Probing(q, b) /\ request'[q].probe[b] = request[q].probe[b]
    BY <2>1
  <2>3. ProbeHolds(q, b)
    BY <2>2, <1>h
  <2> QED BY <1>1, <2>1, <2>2, <2>3, <1>t, <1>f DEF ProbeHolds
\* The circuit is closed, or opened from now on.
<1>2. ASSUME time' = time,
             \/ circuit'[b].state = "closed"
             \/ circuit'[b].state = "open" /\ circuit'[b].openUntil = time + Timeout,
             \A p \in Request : request'[p].probe[b] \in {0, request[p].probe[b]}
      PROVE  ProbeHolds(q, b)'
  <2>1. \A p \in Request : Probing(p, b)' => Probing(p, b) /\ request'[p].probe[b] = request[p].probe[b]
    BY <1>2, <1>t, <1>f DEF Probing
  <2>2. Probing(q, b) /\ request'[q].probe[b] = request[q].probe[b]
    BY <2>1
  <2>3. ProbeHolds(q, b)
    BY <2>2, <1>h
  <2> QED BY <1>2, <2>1, <2>2, <2>3, <1>t, <1>f DEF ProbeHolds
<1>3. CASE UNCHANGED <<circuit, request>> /\ (time' = time \/ time' = time + 1)
  BY <1>1, <1>3
<1>4. ASSUME NEW p \in Request, NEW order \in SetToSeqs(LetThrough), Arrive(p, order)
      PROVE  ProbeHolds(q, b)'
  <2>0. time' = time
    BY <1>4 DEF Arrive
  <2>1. \A x \in Request \ {p} : request'[x] = request[x]
    BY <1>4, <1>t DEF Arrive, BreakerTypes
  <2>2. \/ request'[p].probe[b] = 0
        \/ /\ b \in LetThrough /\ circuit[b].state # "closed"
           /\ request'[p].probe[b] = time + Timeout
    <3>1. CASE order = <<>>
      <4>1. request'[p] = Ended(p)
        BY <1>4, <1>t, <3>1 DEF Arrive, BreakerTypes
      <4>2. Ended(p).probe = NoProbe /\ NoProbe[b] = 0
        BY <1>t, EndedAttempts DEF NoProbe
      <4>3. request'[p].probe = NoProbe
        BY <4>1, <4>2
      <4>4. request'[p].probe[b] = 0
        BY <4>2, <4>3
      <4> QED BY <4>4
    <3>2. CASE order # <<>>
      <4>1. request'[p].probe = [a \in Backend |-> IF a \in LetThrough /\ circuit[a].state # "closed"
                                                   THEN time + Timeout ELSE 0]
        BY <1>4, <1>t, <3>2 DEF Arrive, BreakerTypes
      <4> DEFINE f == [a \in Backend |-> IF a \in LetThrough /\ circuit[a].state # "closed"
                                         THEN time + Timeout ELSE 0]
      <4>2. f[b] = IF b \in LetThrough /\ circuit[b].state # "closed" THEN time + Timeout ELSE 0
        OBVIOUS
      <4> HIDE DEF f
      <4>3. request'[p].probe[b] = f[b]
        BY <4>1 DEF f
      <4>4. CASE b \in LetThrough /\ circuit[b].state # "closed"
        BY <4>2, <4>3, <4>4
      <4>5. CASE ~(b \in LetThrough /\ circuit[b].state # "closed")
        BY <4>2, <4>3, <4>5
      <4> QED BY <4>4, <4>5
    <3> QED BY <3>1, <3>2
  <2>3. circuit'[b] = IF b \in LetThrough THEN AfterAllow(b) ELSE circuit[b]
    BY <1>4 DEF Arrive
  <2>4. CASE b \in LetThrough /\ circuit[b].state # "closed"
    <3>1. \A x \in Request : ~Probing(x, b)
      <4>1. Allowed(b)
        BY <2>4 DEF LetThrough
      <4>2. \/ circuit[b].state = "open" /\ time >= circuit[b].openUntil
            \/ circuit[b].state = "half" /\ time >= circuit[b].probeUntil
        BY <4>1, <2>4, <1>f DEF Allowed
      <4> QED BY <4>2, <1>h, <1>f, <1>t DEF Probing, ProbeHolds
    <3>2. \A x \in Request : Probing(x, b)' => x = p
      BY <2>0, <2>1, <3>1 DEF Probing
    <3>3. q = p /\ request'[q].probe[b] = time + Timeout
      BY <2>0, <2>2, <3>2, <1>t DEF Probing
    <3>4. circuit'[b].state = "half" /\ circuit'[b].probeUntil = time + Timeout
      BY <2>3, <2>4, <1>t DEF AfterAllow, BreakerTypes, Circuit
    <3> QED BY <2>0, <3>2, <3>3, <3>4, <1>t DEF ProbeHolds
  <2>5. CASE ~(b \in LetThrough /\ circuit[b].state # "closed")
    <3>1. circuit'[b] = circuit[b]
      BY <2>3, <2>5 DEF AfterAllow
    <3>2. \A x \in Request : request'[x].probe[b] \in {0, request[x].probe[b]}
      BY <2>1, <2>2, <2>5
    <3> QED BY <1>1, <2>0, <3>1, <3>2
  <2> QED BY <2>4, <2>5
<1>5. ASSUME NEW p \in Request, Succeed(p) PROVE ProbeHolds(q, b)'
  <2>1. PICK a \in Backend : circuit' = [circuit EXCEPT ![a] = AfterSuccess(a)]
    BY <1>5, <1>t, Trying DEF Succeed, Underway
  <2>2. \A x \in Request : request'[x].probe[b] \in {0, request[x].probe[b]}
    BY <1>5, <1>t, EndedAttempts DEF Succeed, BreakerTypes, NoProbe
  <2>3. time' = time /\ (circuit'[b].state = "closed" \/ circuit'[b] = circuit[b])
    BY <1>5, <2>1, <1>t, CircuitSteps DEF Succeed, BreakerTypes
  <2> QED BY <1>1, <1>2, <2>2, <2>3
<1>6. ASSUME NEW p \in Request, FailAttempt(p) PROVE ProbeHolds(q, b)'
  <2>1. PICK a \in Backend : circuit' = [circuit EXCEPT ![a] = AfterFailure(a)]
    BY <1>6, <1>t, Trying DEF FailAttempt, Underway
  <2>2. \A x \in Request : request'[x].probe[b] \in {0, request[x].probe[b]}
    <3>1. PICK r \in Attempts : /\ request' = [request EXCEPT ![p] = r]
                                /\ \A c \in Backend : r.probe[c] \in {0, request[p].probe[c]}
      BY <1>6, <1>t, AfterAttempt
    <3> QED BY <3>1, <1>t DEF BreakerTypes
  <2>3. time' = time
    BY <1>6 DEF FailAttempt
  <2>4. CASE a # b
    BY <1>1, <2>1, <2>2, <2>3, <2>4, <1>t DEF BreakerTypes
  <2>5. CASE a = b
    <3>1. circuit'[b] = AfterFailure(b)
      BY <2>1, <2>5, <1>t DEF BreakerTypes
    <3>2. circuit'[b] \in Circuit /\ circuit'[b].state # "half"
          /\ (circuit'[b].state = "open" =>
                \/ circuit'[b].openUntil = time + Timeout
                \/ circuit[b].state = "open" /\ circuit'[b].openUntil = circuit[b].openUntil)
      BY <3>1, <1>t, CircuitSteps
    <3>3. circuit'[b].state \in {"closed", "open"}
      BY <3>2 DEF Circuit
    <3>4. CASE circuit'[b].state = "closed" \/ circuit'[b].openUntil = time + Timeout
      BY <1>2, <2>2, <2>3, <3>3, <3>4
    <3>5. CASE circuit'[b].state = "open" /\ circuit[b].state = "open"
               /\ circuit'[b].openUntil = circuit[b].openUntil
      <4>1. \A x \in Request : Probing(x, b)' => Probing(x, b) /\ request'[x].probe[b] = request[x].probe[b]
        BY <2>2, <2>3, <1>t, <1>f DEF Probing
      <4>2. Probing(q, b) /\ request'[q].probe[b] = request[q].probe[b]
        BY <4>1
      <4>3. ProbeHolds(q, b)
        BY <4>2, <1>h
      <4> QED BY <2>3, <3>5, <4>1, <4>2, <4>3, <1>t, <1>f DEF ProbeHolds
    <3> QED BY <3>2, <3>3, <3>4, <3>5
  <2> QED BY <2>4, <2>5
<1>7. ASSUME NEW a \in Backend, Flip(a) \/ QuarantineEnds(a) PROVE ProbeHolds(q, b)'
  BY <1>3, <1>7 DEF Flip, QuarantineEnds
<1>8. ASSUME NEW c \in checks, Measure(c) \/ ApplyCheck(c) PROVE ProbeHolds(q, b)'
  BY <1>3, <1>8 DEF Measure, ApplyCheck
<1>9. CASE Reconfigure \/ Pass
  BY <1>3, <1>9 DEF Reconfigure, Pass
<1>10. CASE UNCHANGED upstreamVars
  BY <1>3, <1>10 DEF upstreamVars
<1>11. ASSUME NEW p \in Request, Do(p) PROVE ProbeHolds(q, b)'
  <2>1. PICK r \in Attempts : /\ request' = [request EXCEPT ![p] = r]
                              /\ \A c \in Backend : r.probe[c] \in {0, request[p].probe[c]}
    BY <1>11, <1>t, AfterCall
  <2>2. \A x \in Request : request'[x].probe[b] \in {0, request[x].probe[b]}
    BY <2>1, <1>t DEF BreakerTypes
  <2>3. circuit'[b] = circuit[b] /\ time' = time
    BY <1>11 DEF Do
  <2> QED BY <1>1, <2>2, <2>3
<1>12. Fragile \subseteq Backend
  BY UpstreamAssumption
<1> QED BY <1>4, <1>5, <1>6, <1>7, <1>8, <1>9, <1>10, <1>11, <1>12 DEF UpstreamNext

\* While a request probes a backend its circuit lets no other through, whatever the
\* requests let through earlier do to it.
THEOREM ProbeInvariant == UpstreamSpec => []ProbeInv
<1>1. UpstreamInit => ProbeInv
  <2> SUFFICES ASSUME UpstreamInit PROVE ProbeInv
    OBVIOUS
  <2>1. UpstreamTypeOK
    BY CheckInit, BreakerInit, UpstreamParts
  <2>2. \A q \in Request, b \in Backend : ~Probing(q, b)
    BY DEF UpstreamInit, Probing, NoProbe
  <2> QED BY <2>1, <2>2 DEF ProbeInv
<1> QED BY <1>1, ProbeStep, PTL DEF UpstreamSpec

\* Of a circuit that is not closed one request at a time is let through (Allow), for any
\* threshold, timeout, backends and requests.
THEOREM ProbesAlone == UpstreamSpec => []OneProbe
<1>1. ProbeInv => OneProbe
  <2> SUFFICES ASSUME ProbeInv, NEW b \in Backend
               PROVE  Cardinality({q \in Request : request[q].probe[b] > time}) <= 1
    BY DEF OneProbe
  <2> DEFINE S == {q \in Request : request[q].probe[b] > time}
  <2>1. \A p, q \in S : p = q
    BY DEF ProbeInv, Probing
  <2>2. S = {} \/ \E q \in S : S = {q}
    BY <2>1
  <2> HIDE DEF S
  <2>3. Cardinality(S) \in {0, 1}
    BY <2>2, FS_EmptySet, FS_Singleton
  <2> QED BY <2>3 DEF S
<1> QED BY <1>1, ProbeInvariant, PTL

---------------------------------------------------------------------------
(* The two parts side by side *)

\* A behaviour that moves one part of the two keeps the types of both.
THEOREM ProtectionTypes == ProtectionSpec => []ProtectionTypeOK
<1>1. ProtectionInit => ProtectionTypeOK
  BY BansTypeInit, UpstreamTypeInit DEF ProtectionInit, ProtectionTypeOK
<1>2. ProtectionTypeOK /\ [ProtectionNext]_protectionVars => ProtectionTypeOK'
  <2> SUFFICES ASSUME ProtectionTypeOK, [ProtectionNext]_protectionVars PROVE ProtectionTypeOK'
    OBVIOUS
  <2>1. [BansNext]_banVars /\ [UpstreamNext]_upstreamVars
    BY DEF ProtectionNext, protectionVars
  <2> QED BY <2>1, BansTypeStep, UpstreamTypeStep DEF ProtectionTypeOK
<1> QED BY <1>1, <1>2, PTL DEF ProtectionSpec

==================================================================================
