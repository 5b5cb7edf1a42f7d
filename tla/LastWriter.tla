------------------------------- MODULE LastWriter -------------------------------
(***************************************************************************)
(* What the replicated stores of a group promise for one key: every writing *)
(* has its own date, a member only ever moves to a later writing, and only  *)
(* a restart can take it back to an earlier one.                            *)
(***************************************************************************)
EXTENDS Naturals

CONSTANTS Member, Value

VARIABLES
  writings,  \* the writings made so far: their dates and values
  held,      \* the writing each member holds, date 0 if it has none
  recalls    \* how many times a member restarted

lastVars == <<writings, held, recalls>>

LastInit ==
  writings = {} /\ held = [m \in Member |-> [at |-> 0, value |-> {}]] /\ recalls = 0

\* A writing is later than all others.
Write(m, v) ==
  LET n == held'[m].at IN
  /\ n \in Nat \ {0} /\ \A w \in writings : w.at < n
  /\ writings' = writings \cup {[at |-> n, value |-> v]}
  /\ held' = [held EXCEPT ![m] = [at |-> n, value |-> v]]
  /\ UNCHANGED recalls

\* A member is told of a later writing than its own.
Learn(m) ==
  /\ \E w \in writings : w.at > held[m].at /\ held' = [held EXCEPT ![m] = w]
  /\ UNCHANGED <<writings, recalls>>

\* A member restarts with what it had saved, no later than what it held.
Recall(m) ==
  /\ \E w \in writings \cup {[at |-> 0, value |-> {}]} :
       w.at <= held[m].at /\ held' = [held EXCEPT ![m] = w]
  /\ recalls' = recalls + 1
  /\ UNCHANGED writings

LastNext == \E m \in Member : (\E v \in Value : Write(m, v)) \/ Learn(m) \/ Recall(m)

LastSpec == LastInit /\ [][LastNext]_lastVars

=================================================================================
