-------------------------------- MODULE Upstream --------------------------------
(***************************************************************************)
(* Which backend of a route a request is sent to: the active and passive     *)
(* checks (internal/edge/proxy/healthcheck.go), the circuit breaker          *)
(* (balancer.go) and the attempts of ServeHTTP (handler.go).  One route;     *)
(* hedged requests and the removal of a backend are left out.                *)
(***************************************************************************)
EXTENDS Integers, Sequences, FiniteSets, SequencesExt

CONSTANTS
  Backend,     \* route.Backends
  Request,     \* requests, each made once
  Up, Down,    \* healthyThreshold, unhealthyThreshold
  Threshold,   \* CBConfig.Threshold
  Timeout,     \* CBConfig.Timeout
  MaxClock,    \* bound: the clock of the breaker
  Fragile,     \* bound: the backends that may break or come back
  MaxFlip,     \* bound: how often they do
  MaxConf      \* bound: changes of the health check's configuration

ASSUME UpstreamAssumption ==
  /\ {Up, Down, Threshold, Timeout, MaxClock} \subseteq Nat \ {0}
  /\ Fragile \subseteq Backend /\ MaxFlip \in Nat /\ MaxConf \in Nat /\ Backend # {} /\ IsFiniteSet(Backend)

VARIABLES
  works,       \* the backend answers
  quarantine,  \* backendState.downUntil is ahead
  verdict,     \* probeState.healthy
  streak,      \* probeState.streak
  conf,        \* which configuration, and so which stop channels, the probes have
  checks,      \* goroutines of loop
  circuit,     \* cbBackend
  request,     \* ServeHTTP of each request
  time, flips

upstreamVars == <<works, quarantine, verdict, streak, conf, checks, circuit, request, time, flips>>
healthVars == <<quarantine, verdict, streak, conf, checks>>

---------------------------------------------------------------------------
(* Data *)

Circuit == [state : {"closed", "open", "half"}, failures : 0..Threshold,
            openUntil : Nat, probeUntil : Nat]
\* A goroutine of loop: its configuration, and what it measured.
Check == [of : Backend, conf : 0..MaxConf, pc : {"wait", "apply"}, ok : BOOLEAN]
\* pc: before a call of a backend, and after it; todo: backends to try; probe: until when the request probes each half-open backend.
NoProbe == [b \in Backend |-> 0]
Underway == {"try", "fine", "failed"}
Attempts == [pc : {"none", "done"} \cup Underway, todo : Seq(Backend), probe : [Backend -> Nat]]

\* At first a backend works and is in rotation, or is down and out of it; a circuit may be
\* open since an earlier failure.
UpstreamInit ==
  /\ works \in [Backend -> BOOLEAN]
  /\ quarantine = [b \in Backend |-> FALSE]
  /\ verdict = works /\ streak = [b \in Backend |-> IF works[b] THEN Up ELSE -Down]
  /\ conf = 0
  /\ checks = {[of |-> b, conf |-> 0, pc |-> "wait", ok |-> TRUE] : b \in Backend}
  /\ circuit \in [Backend -> {[state |-> "closed", failures |-> 0, openUntil |-> 0, probeUntil |-> 0],
                             [state |-> "open", failures |-> Threshold, openUntil |-> 1, probeUntil |-> 0]}]
  /\ request = [q \in Request |-> [pc |-> "none", todo |-> <<>>, probe |-> NoProbe]]
  /\ time = 1 /\ flips = 0

\* The environment: a backend breaks or comes back, time passes, a quarantine ends.
Flip(b) ==
  /\ flips < MaxFlip /\ flips' = flips + 1
  /\ works' = [works EXCEPT ![b] = ~@]
  /\ UNCHANGED <<healthVars, circuit, request, time>>

\* While every circuit is closed the time makes no difference.
Pass ==
  /\ \E b \in Backend : circuit[b].state # "closed"
  /\ time < MaxClock /\ time' = time + 1
  /\ UNCHANGED <<works, healthVars, circuit, request, flips>>

QuarantineEnds(b) ==
  /\ quarantine[b]
  /\ quarantine' = [quarantine EXCEPT ![b] = FALSE]
  /\ UNCHANGED <<works, verdict, streak, conf, checks, circuit, request, time, flips>>

---------------------------------------------------------------------------
(* Health checks *)

IsHealthyFor(b) == ~quarantine[b] /\ verdict[b]

Replaced(c, d) == checks' = (checks \ {c}) \cup {d}

\* loop: the measure and the look at the stop channel, then
Measure(c) ==
  /\ c.pc = "wait"
  /\ Replaced(c, [c EXCEPT !.pc = "apply", !.ok = works[c.of]])
  /\ UNCHANGED <<works, quarantine, verdict, streak, conf, circuit, request, time, flips>>

\* Fault: a success does not end a run of failures.
NextStreak_keep(b, ok) ==
  IF ok THEN (IF streak[b] < 0 THEN streak[b] ELSE Up)
  ELSE IF streak[b] > 0 THEN -1 ELSE IF streak[b] > -Down THEN streak[b] - 1 ELSE -Down

\* Successes in a row are positive, failures negative; past the threshold they count no more.
NextStreak(b, ok) ==
  IF ok THEN (IF streak[b] < 0 THEN 1 ELSE IF streak[b] < Up THEN streak[b] + 1 ELSE Up)
  ELSE IF streak[b] > 0 THEN -1 ELSE IF streak[b] > -Down THEN streak[b] - 1 ELSE -Down

\* the verdict, and the quarantine lifted, and the wait, which a stop ends too.
ApplyCheck(c) ==
  LET n == NextStreak(c.of, c.ok) IN
  /\ c.pc = "apply"
  /\ streak' = [streak EXCEPT ![c.of] = n]
  /\ verdict' = [verdict EXCEPT ![c.of] = IF n >= Up THEN TRUE ELSE IF n <= -Down THEN FALSE ELSE @]
  /\ quarantine' = [quarantine EXCEPT ![c.of] = @ /\ n < Up]
  /\ IF c.conf = conf
     THEN Replaced(c, [c EXCEPT !.pc = "wait", !.ok = TRUE]) ELSE checks' = checks \ {c}
  /\ UNCHANGED <<works, conf, circuit, request, time, flips>>

\* Fault: the old goroutines are stopped and no others begun.
Reconfigure_stop ==
  /\ conf < MaxConf
  /\ conf' = conf + 1
  /\ checks' = {c \in checks : c.pc # "wait"}
  /\ UNCHANGED <<works, quarantine, verdict, streak, circuit, request, time, flips>>

\* Sync and startLocked for a changed configuration of the route: the old goroutines are
\* told to stop, new ones take over the verdicts.
Reconfigure ==
  /\ conf < MaxConf
  /\ conf' = conf + 1
  /\ checks' = {c \in checks : c.pc # "wait"}
               \cup {[of |-> b, conf |-> conf + 1, pc |-> "wait", ok |-> TRUE] : b \in Backend}
  /\ UNCHANGED <<works, quarantine, verdict, streak, circuit, request, time, flips>>

---------------------------------------------------------------------------
(* The breaker *)

\* Fault: a circuit that is half open lets everyone through.
Allowed_half(b) == circuit[b].state = "open" => time >= circuit[b].openUntil

\* Allow: an open circuit no, until its time; then one probe at a time.
Allowed(b) == CASE circuit[b].state = "open" -> time >= circuit[b].openUntil
                [] circuit[b].state = "half" -> time >= circuit[b].probeUntil
                [] OTHER -> TRUE

AfterAllow(b) == IF circuit[b].state = "closed" THEN circuit[b]
                 ELSE [circuit[b] EXCEPT !.state = "half", !.probeUntil = time + Timeout]

AfterSuccess(b) == [circuit[b] EXCEPT !.state = "closed", !.failures = 0]

AfterFailure(b) ==
  LET n == IF circuit[b].failures < Threshold THEN circuit[b].failures + 1 ELSE Threshold IN
  IF circuit[b].state = "half" \/ n >= Threshold
  THEN [circuit[b] EXCEPT !.failures = n, !.state = "open", !.openUntil = time + Timeout]
  ELSE [circuit[b] EXCEPT !.failures = n]

---------------------------------------------------------------------------
(* A request *)

Ended(q) == [request[q] EXCEPT !.pc = "done", !.todo = <<>>, !.probe = NoProbe]

\* failoverCandidates: the healthy ones, or all if there is none; of these the ones the
\* breaker allows.
Healthy == {b \in Backend : IsHealthyFor(b)}
LetThrough == {b \in (IF Healthy = {} THEN Backend ELSE Healthy) : Allowed(b)}

\* They are tried in an order of the balancer's; without any the answer is 503.
Arrive(q, order) ==
  /\ request[q].pc = "none"
  /\ circuit' = [b \in Backend |-> IF b \in LetThrough THEN AfterAllow(b) ELSE circuit[b]]
  /\ request' = [request EXCEPT ![q] =
       IF order = <<>> THEN Ended(q)
       ELSE [pc |-> "try", todo |-> order,
             probe |-> [b \in Backend |-> IF b \in LetThrough /\ circuit[b].state # "closed"
                                          THEN time + Timeout ELSE 0]]]
  /\ UNCHANGED <<works, healthVars, time, flips>>

\* do: a backend that works answers; any call may fail, for the backend, the network or the
\* client that left; or the answer breaks off half way, and with it the whole request.
Do(q) ==
  LET b == Head(request[q].todo) IN
  /\ request[q].pc = "try"
  /\ \/ works[b] /\ request' = [request EXCEPT ![q].pc = "fine"]
     \/ request' = [request EXCEPT ![q].pc = "failed"]
     \/ request' = [request EXCEPT ![q] = Ended(q)]
  /\ UNCHANGED <<works, healthVars, circuit, time, flips>>

\* After an answer, whatever the backend does by then: MarkUp and RecordSuccess.
Succeed(q) ==
  LET b == Head(request[q].todo) IN
  /\ request[q].pc = "fine"
  /\ quarantine' = [quarantine EXCEPT ![b] = FALSE]
  /\ circuit' = [circuit EXCEPT ![b] = AfterSuccess(b)]
  /\ request' = [request EXCEPT ![q] = Ended(q)]
  /\ UNCHANGED <<works, verdict, streak, conf, checks, time, flips>>

\* quarantineDuration: nothing for a temporary error, a reset or an end of file, fifteen
\* seconds for any other, and so for a client that left, whether or not the backend works.
Quarantines == BOOLEAN

\* After a failure: MarkDown and RecordFailure.  The next backend follows, unless there is
\* none or the client left.
FailAttempt(q) ==
  LET b == Head(request[q].todo) IN
  /\ request[q].pc = "failed"
  /\ \E long \in Quarantines : quarantine' = [quarantine EXCEPT ![b] = @ \/ long]
  /\ circuit' = [circuit EXCEPT ![b] = AfterFailure(b)]
  /\ \E over \in BOOLEAN : request' = [request EXCEPT ![q] =
       IF over \/ Len(request[q].todo) = 1 THEN Ended(q)
       ELSE [request[q] EXCEPT !.pc = "try", !.todo = Tail(request[q].todo),
                               !.probe = [request[q].probe EXCEPT ![b] = 0]]]
  /\ UNCHANGED <<works, verdict, streak, conf, checks, time, flips>>

UpstreamNext ==
  \/ \E b \in Fragile : Flip(b)
  \/ \E b \in Backend : QuarantineEnds(b)
  \/ Reconfigure \/ Pass
  \/ \E c \in checks : Measure(c) \/ ApplyCheck(c)
  \/ \E q \in Request : \/ \E order \in SetToSeqs(LetThrough) : Arrive(q, order)
                        \/ Do(q) \/ Succeed(q) \/ FailAttempt(q)

\* A backend is checked again as long as the rotation is not right, and a quarantine of
\* fifteen seconds ends.
Wrong(b) == works[b] # IsHealthyFor(b)
UpstreamFairness ==
  \A b \in Backend :
    /\ WF_upstreamVars(\E c \in checks : c.of = b /\ (ApplyCheck(c) \/ (Wrong(b) /\ Measure(c))))
    /\ WF_upstreamVars(QuarantineEnds(b))

UpstreamSpec == UpstreamInit /\ [][UpstreamNext]_upstreamVars /\ UpstreamFairness

---------------------------------------------------------------------------
(* Properties *)

\* A backend has one goroutine with the present configuration.
UpstreamTypeOK ==
  /\ works \in [Backend -> BOOLEAN] /\ quarantine \in [Backend -> BOOLEAN]
  /\ verdict \in [Backend -> BOOLEAN] /\ streak \in [Backend -> (-Down)..Up]
  /\ conf \in 0..MaxConf /\ checks \subseteq Check
  /\ \A c \in checks : c.conf <= conf
  /\ \A b \in Backend : \E c \in checks : {d \in checks : d.of = b /\ d.conf = conf} = {c}
  /\ circuit \in [Backend -> Circuit]
  /\ request \in [Request -> Attempts]
  /\ \A q \in Request : request[q].pc \in Underway => request[q].todo # <<>>
  /\ time \in 1..MaxClock /\ flips \in 0..MaxFlip

\* Of a circuit that is not closed one request at a time is let through: while it runs and
\* its time is not over no other probes that backend, whatever requests let through
\* earlier end in between.
OneProbe ==
  \A b \in Backend : Cardinality({q \in Request : request[q].probe[b] > time}) <= 1

Probing(q, b) == request[q].probe[b] > time

\* Until a probe's time is over no other is let through: a half-open circuit waits for it,
\* one that was opened again waits as long at least, and one that was closed in between
\* would have to be opened first.
ProbeInv ==
  /\ UpstreamTypeOK
  /\ \A q \in Request, b \in Backend : Probing(q, b) =>
       /\ request[q].probe[b] <= time + Timeout
       /\ circuit[b].state = "half" => request[q].probe[b] <= circuit[b].probeUntil
       /\ circuit[b].state = "open" => request[q].probe[b] <= circuit[b].openUntil
       /\ \A p \in Request : Probing(p, b) => p = q

\* Once backends no longer break or come back, and no more requests come, those that work
\* are in rotation and the others are not, whatever late requests, changes of configuration
\* and late checks do.
RotationFollows == <>[](\A b \in Backend : works[b] <=> IsHealthyFor(b))

\* What the comment at handler.go:550 promises, which the code does not keep (see the README):
\* only a real outage puts a backend in quarantine, not one that has always worked.
QuarantinedWasDown == flips = 0 => \A b \in Backend : works[b] => ~quarantine[b]

=================================================================================
