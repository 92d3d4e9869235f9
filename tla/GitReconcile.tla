---------------------------- MODULE GitReconcile ----------------------------
(***************************************************************************)
(* Reconciliation of the git executor: reconcileLedger (git-atomic.js)     *)
(* lists the ledger and then reads the reflogs of the refs it was given,   *)
(* one git command after another, while requests and pushes go on; and     *)
(* reconcileGit (reconcile.js) turns what it found into one outcome per    *)
(* move and per claim.                                                     *)
(***************************************************************************)
EXTENDS GitAtomic

VARIABLE audit   \* one reconciliation: what it was given and has read

auditVars == <<vars, audit>>

NothingRead ==
  [ stage |-> "idle", dep |-> None, given |-> {}, have |-> {}, todo |-> {},
    moves |-> {}, spent |-> {}, marked |-> {} ]

InitAudit == Init /\ audit = NothingRead
-----------------------------------------------------------------------------
Marked == {m \in Ref \X Jti : m[2] \in reflog[m[1]]}

(* An operator asks about every ref, with the attestations they could       *)
(* collect so far.  spent and marked are history: what was true just then.  *)
Begin(dep, given) ==
  /\ audit.stage = "idle"
  /\ given \subseteq {j \in Jti : evidence[j] # <<>>}
  /\ audit' = [ NothingRead EXCEPT !.stage = "list", !.dep = dep, !.given = given,
                !.todo = Ref, !.spent = {j \in Jti : applied[j] # <<>>}, !.marked = Marked ]

\* for-each-ref refs/coderifts/consumed; a command that fails lists nothing.
ListLedger ==
  /\ audit.stage = "list"
  /\ \E have \in Readings({j \in Jti : claims[j] # Absent}, {}) :
       audit' = [audit EXCEPT !.stage = "read", !.have = have]

\* Mutant: the ledger is listed again with every reflog.
ReadMarkersAndLedger(r) ==
  /\ audit.stage = "read"
  /\ r \in audit.todo
  /\ audit' = [audit EXCEPT !.todo = @ \ {r}, !.moves = @ \cup ({r} \X reflog[r]),
                           !.have = {j \in Jti : claims[j] # Absent}]

\* git reflog show of the next ref; a command that fails shows nothing.
ReadMarkers(r) ==
  /\ audit.stage = "read"
  /\ r \in audit.todo
  /\ \E markers \in Readings(reflog[r], {}) :
       audit' = [audit EXCEPT !.todo = @ \ {r}, !.moves = @ \cup ({r} \X markers)]

Done == audit.stage = "read" /\ audit.todo = {}

\* The report is printed, and forgotten.
Finish == Done /\ audit' = NothingRead

Audit ==
  \/ \E dep \in Deployment, given \in SUBSET Jti : Begin(dep, given)
  \/ ListLedger
  \/ \E r \in Ref : ReadMarkers(r)
  \/ Finish

NextAudit == (Next /\ UNCHANGED audit) \/ (Audit /\ UNCHANGED vars)

SpecAudit == InitAudit /\ [][NextAudit]_auditVars
-----------------------------------------------------------------------------
\* What reconcileLedger makes of the readings.
MissingLedger == {m \in audit.moves : m[2] \notin audit.have}
Unattested    == {m \in audit.moves : m[2] \notin audit.given}

\* Mutant: claims without a move are left out of the report.
NeverReleased == {}

LedgerWithoutMove == audit.have \ {m[2] : m \in audit.moves}

\* Mutant: only a claim that is missing counts as a problem.
ClaimedOnly == IF MissingLedger = {} THEN "RECONCILED" ELSE "INDETERMINATE"

Outcome ==
  IF MissingLedger \cup Unattested = {} THEN "RECONCILED" ELSE "INDETERMINATE"

\* Mutant: the deployment asked about is not compared.
AnyDeployment(m) == \E i \in DOMAIN evidence[m[2]] : evidence[m[2]][i].ref = m[1]

(* verifyStoredAttestation: the token is signed for this grant and          *)
(* deployment, and for the ref whose reflog named the grant.  Forged tokens *)
(* and the windows of keys are left out: every token here was handed out,   *)
(* and its key is in force, so the model confirms more than the code may.   *)
Verifies(m) ==
  \E i \in DOMAIN evidence[m[2]] :
    evidence[m[2]][i].dep = audit.dep /\ evidence[m[2]][i].ref = m[1]

\* The outcome reconcileGit gives a move.
MoveOutcome(m) ==
  IF m \notin MissingLedger \cup Unattested /\ Verifies(m)
    THEN "CONFIRMED" ELSE "INDETERMINATE"
-----------------------------------------------------------------------------
(* A confirmed move happened, on that ref, under the deployment asked       *)
(* about, and it is what the attestation says (reconcile.js 14-24).         *)
ConfirmedIsProven ==
  Done => \A m \in audit.moves : MoveOutcome(m) = "CONFIRMED" =>
    /\ applied[m[2]] # <<>> /\ evidence[m[2]] = applied[m[2]]
    /\ applied[m[2]][1].ref = m[1] /\ applied[m[2]][1].dep = audit.dep

(* No grant that was spent when the question was asked escapes the answer,  *)
(* even when its ref keeps no reflog or was deleted since: it is a move of  *)
(* the report or a claim without one (git-atomic.js 666-670).               *)
EveryUseIsAccounted ==
  Done => audit.spent \subseteq {m[2] : m \in audit.moves} \cup LedgerWithoutMove

(* A claim is called RELEASED only if no ref of the report bears its marker *)
(* at that moment, whatever landed since: the ledger was listed first, and  *)
(* a claim and its marker come together and in this order are never missed  *)
(* (git-atomic.js 650-670).                                                 *)
ReleasedIsUnmarked ==
  Done => \A j \in LedgerWithoutMove, r \in Ref : j \notin reflog[r]

(* INDETERMINATE for a ref whose reflog names a jti with no attestation     *)
(* (git-atomic.js 602).                                                     *)
UnprovenIsIndeterminate ==
  Done /\ (\E m \in audit.marked \cap Marked : m[2] \notin audit.given)
    => Outcome = "INDETERMINATE"
=============================================================================
