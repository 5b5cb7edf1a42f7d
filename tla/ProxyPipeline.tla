------------------------------ MODULE ProxyPipeline ------------------------------
(***************************************************************************)
(* How a revision of a configured proxy reaches production on one gateway   *)
(* (internal/edge/proxypipeline): created pending, validated by a dry run,  *)
(* then promoted or rejected.                                               *)
(*                                                                         *)
(* Every request of the Administration is a handler of its own.  It reads   *)
(* the revision's file, decides, and later writes the file back whole: what *)
(* others wrote in between is lost.  Only Promote holds Pipeline.mu.        *)
(***************************************************************************)
EXTENDS Naturals, FiniteSets

CONSTANTS
  Rev,       \* the revisions of the proxies
  Adopted,   \* the ones promoted on another gateway of the group, not here
  Proxy,     \* proxy identifiers
  NoRev,     \* no revision in production
  ProxyOf,   \* the proxy each revision is of
  Claims,    \* what each revision claims: host and aliases, or protocol and port
  Sound,     \* the revisions whose route passes the checks of its own fields
  MaxCalls   \* bound: how many dry runs, promotions, rejections and deletions

ASSUME RevAssumption == /\ ProxyOf \in [Rev -> Proxy] /\ NoRev \notin Rev
                        /\ Sound \subseteq Rev /\ Adopted \subseteq Rev /\ MaxCalls \in Nat

VARIABLES
  status,   \* the status in the revision's file ("none": no file yet)
  dryRun,   \* the dry-run result in the revision's file
  prod,     \* the revision each proxy's production file came from
  calls,    \* the handlers under way
  made,     \* how many were started
  passed    \* history: the revisions some dry run found good

pipelineVars == <<status, dryRun, prod, calls, made, passed>>

---------------------------------------------------------------------------
(* Data *)

Status == {"none", "pending", "validated", "production", "rejected"}
Result == {"none", "ok", "failed"}

\* no: the number of the call; seen: the result of its own dry run.
Call == [no : 1..MaxCalls, rev : Rev, seen : Result,
         pc : {"dry.read", "dry.check", "dry.write",
               "promote.read", "promote.check", "promote.demote", "promote.prod",
               "promote.audit", "reject.read", "reject.write"}]

Promoting == {"promote.read", "promote.check", "promote.demote", "promote.prod", "promote.audit"}

\* collectPeers: the production of the other proxies.
Conflicts(r) == \E p \in Proxy \ {ProxyOf[r]} :
                  prod[p] # NoRev /\ Claims[prod[p]] \cap Claims[r] # {}

PipelineInit ==
  /\ status = [r \in Rev |-> "none"]
  /\ dryRun = [r \in Rev |-> "none"]
  /\ prod = [p \in Proxy |-> NoRev]
  /\ calls = {}
  /\ made = 0
  /\ passed = {}

---------------------------------------------------------------------------
(* Helpers *)

StartCall(r, pc) ==
  /\ made < MaxCalls /\ status[r] # "none"
  /\ made' = made + 1
  /\ calls' = calls \cup {[no |-> made + 1, rev |-> r, seen |-> "none", pc |-> pc]}
  /\ UNCHANGED <<status, dryRun, prod, passed>>

Moves(c, d) == calls' = (calls \ {c}) \cup {d}
Ends(c) == calls' = calls \ {c}

\* WriteRevision: the whole file is replaced.
WriteRevision(r, s, result) ==
  status' = [status EXCEPT ![r] = s] /\ dryRun' = [dryRun EXCEPT ![r] = result]

---------------------------------------------------------------------------
(* Operations *)

\* handleCreateProxyRevision chooses a fresh revision identifier.
CreateRevision(r) ==
  /\ status[r] = "none" /\ r \notin Adopted
  /\ WriteRevision(r, "pending", "none")
  /\ UNCHANGED <<prod, calls, made, passed>>

DryRunRead(c) ==
  /\ c.pc = "dry.read"
  /\ IF status[c.rev] \in {"rejected", "production"} THEN Ends(c)
     ELSE Moves(c, [c EXCEPT !.pc = "dry.check"])
  /\ UNCHANGED <<status, dryRun, prod, made, passed>>

\* A sound revision may still name an unknown certificate, snippet or plugin.
DryRunCheck(c) ==
  /\ c.pc = "dry.check"
  /\ \E ok \in BOOLEAN :
       /\ ok => c.rev \in Sound /\ ~Conflicts(c.rev)
       /\ Moves(c, [c EXCEPT !.pc = "dry.write", !.seen = IF ok THEN "ok" ELSE "failed"])
  /\ UNCHANGED <<status, dryRun, prod, made, passed>>

DryRunWrite(c) ==
  /\ c.pc = "dry.write"
  /\ WriteRevision(c.rev, IF c.seen = "ok" THEN "validated" ELSE "pending", c.seen)
  /\ passed' = IF c.seen = "ok" THEN passed \cup {c.rev} ELSE passed
  /\ Ends(c)
  /\ UNCHANGED <<prod, made>>

StartPromote(r) ==
  /\ \A c \in calls : c.pc \notin Promoting
  /\ StartCall(r, "promote.read")

\* Fault: only a rejected revision is refused.
Promotable_any(r) == status[r] # "rejected"

Promotable(r) == status[r] = "validated" /\ dryRun[r] = "ok"

PromoteRead(c) ==
  /\ c.pc = "promote.read"
  /\ IF Promotable(c.rev) THEN Moves(c, [c EXCEPT !.pc = "promote.check"]) ELSE Ends(c)
  /\ UNCHANGED <<status, dryRun, prod, made, passed>>

\* Fault: the second check is left out.
PromoteCheck_never(c) ==
  /\ c.pc = "promote.check"
  /\ Moves(c, [c EXCEPT !.pc = "promote.prod"])
  /\ UNCHANGED <<status, dryRun, prod, made, passed>>

\* Collisions are checked again.
PromoteCheck(c) ==
  /\ c.pc = "promote.check"
  /\ Moves(c, [c EXCEPT !.pc = IF c.rev \in Sound /\ ~Conflicts(c.rev)
                               THEN "promote.prod" ELSE "promote.demote"])
  /\ UNCHANGED <<status, dryRun, prod, made, passed>>

PromoteDemote(c) ==
  /\ c.pc = "promote.demote"
  /\ WriteRevision(c.rev, "pending", "failed")
  /\ Ends(c)
  /\ UNCHANGED <<prod, made, passed>>

PromoteProd(c) ==
  /\ c.pc = "promote.prod"
  /\ prod' = [prod EXCEPT ![ProxyOf[c.rev]] = c.rev]
  /\ Moves(c, [c EXCEPT !.pc = "promote.audit"])
  /\ UNCHANGED <<status, dryRun, made, passed>>

PromoteAudit(c) ==
  /\ c.pc = "promote.audit"
  /\ WriteRevision(c.rev, "production", "ok")
  /\ Ends(c)
  /\ UNCHANGED <<prod, made, passed>>

RejectRead(c) ==
  /\ c.pc = "reject.read"
  /\ IF status[c.rev] = "production" THEN Ends(c)
     ELSE Moves(c, [c EXCEPT !.pc = "reject.write"])
  /\ UNCHANGED <<status, dryRun, prod, made, passed>>

RejectWrite(c) ==
  /\ c.pc = "reject.write"
  /\ WriteRevision(c.rev, "rejected", "failed")
  /\ Ends(c)
  /\ UNCHANGED <<prod, made, passed>>

\* DeleteProdByID, by the API or by a merge, at any moment.
DeleteProd(p) ==
  /\ made < MaxCalls /\ prod[p] # NoRev
  /\ made' = made + 1
  /\ prod' = [prod EXCEPT ![p] = NoRev]
  /\ UNCHANGED <<status, dryRun, calls, passed>>

\* mergeProxyReplica writes what a peer has, and asks the pipeline nothing.
Adopt(r) ==
  /\ made < MaxCalls /\ r \in Adopted
  /\ made' = made + 1
  /\ prod' = [prod EXCEPT ![ProxyOf[r]] = r]
  /\ UNCHANGED <<status, dryRun, calls, passed>>

CallStep(c) ==
  \/ DryRunRead(c) \/ DryRunCheck(c) \/ DryRunWrite(c)
  \/ PromoteRead(c) \/ PromoteCheck(c) \/ PromoteDemote(c) \/ PromoteProd(c) \/ PromoteAudit(c)
  \/ RejectRead(c) \/ RejectWrite(c)

PipelineNext ==
  \/ \E r \in Rev : CreateRevision(r)
  \/ \E r \in Rev : StartCall(r, "dry.read") \/ StartPromote(r) \/ StartCall(r, "reject.read")
  \/ \E c \in calls : CallStep(c)
  \/ \E p \in Proxy : DeleteProd(p)
  \/ \E r \in Adopted : Adopt(r)

PipelineSpec == PipelineInit /\ [][PipelineNext]_pipelineVars

---------------------------------------------------------------------------
(* Properties *)

\* Every call is one the bound allows, and one promotion at most is under way.
PipelineTypeOK ==
  /\ status \in [Rev -> Status] /\ dryRun \in [Rev -> Result]
  /\ prod \in [Proxy -> Rev \cup {NoRev}]
  /\ \A p \in Proxy : prod[p] # NoRev => ProxyOf[prod[p]] = p
  /\ calls \subseteq Call
  /\ \A c, d \in calls : {c.pc, d.pc} \subseteq Promoting => c = d
  /\ made \in 0..MaxCalls
  /\ passed \subseteq Rev

\* The production files that this gateway's own pipeline wrote.
Promoted == {p \in Proxy : prod[p] \notin Adopted \cup {NoRev}}

\* No two proxies that this gateway promoted claim the same host, alias or port,
\* however dry runs, promotions, deletions and merges interleave: Promote checks
\* again under its mutex.  (A merge checks nothing: see ProxyStore.)
NoConflict ==
  \A p, q \in Promoted : p # q => Claims[prod[p]] \cap Claims[prod[q]] = {}

\* What this gateway promoted passed a dry run of its own.
OnlyValidated == \A p \in Promoted : prod[p] \in passed

\* An adopted revision has no file of its own here, so that no request is about it.
LocalRevisions ==
  /\ \A r \in Adopted : status[r] = "none"
  /\ \A c \in calls : c.rev \notin Adopted

\* A file says validated only after a dry run did, and a promotion goes on only from there.
ValidatedPassed ==
  /\ \A r \in Rev : status[r] = "validated" => r \in passed
  /\ \A c \in calls : c.pc \in {"promote.check", "promote.prod"} => c.rev \in passed

\* What is about to be written conflicts with nothing that the mutex protects.
CheckedStill ==
  \A c \in calls : c.pc = "promote.prod" =>
    \A p \in Promoted \ {ProxyOf[c.rev]} : Claims[prod[p]] \cap Claims[c.rev] = {}

\* NoConflict and OnlyValidated, made inductive.
PipelineInv ==
  PipelineTypeOK /\ NoConflict /\ OnlyValidated /\ LocalRevisions /\ ValidatedPassed /\ CheckedStill

\* A revision whose file says it is rejected is not put in production.
RejectBlocksPromote ==
  [][\A p \in Proxy :
       prod'[p] \notin {prod[p], NoRev} => status[prod'[p]] # "rejected"]_pipelineVars

=================================================================================
