------------------------------ MODULE GitAtomic ------------------------------
(***************************************************************************)
(* The git executor (demo/src/git-atomic.js) on one serialising            *)
(* repository: a grant is claimed by creating a ledger ref in the same     *)
(* update-ref batch that moves its target, and the attestation is signed   *)
(* after that batch, outside any transaction.  Everyone else reaches the   *)
(* repository by pushing through the pre-receive hook (ledger-hook.js).    *)
(*                                                                         *)
(* Every git command is one action: git locks the refs it touches, and     *)
(* nothing is locked between two commands.  A ledger ref is named by the   *)
(* hash of its jti, so it is modelled as the jti's own entry of claims.    *)
(***************************************************************************)
EXTENDS Naturals, Sequences

CONSTANTS
  Session,       \* concurrent requests, over every sidecar of the repository
  Deployment,    \* deployment ids
  Jti,           \* grant identifiers
  Ref,           \* refs outside the ledger namespace
  Branch,        \* those under refs/heads: git lets them point at commits only
  Logged,        \* those git keeps a reflog for: branches of a non-bare repository
  Commit,        \* commits
  OtherObject,   \* trees and blobs
  InitRefs,      \* refs that exist at the start
  Grant,         \* the signed, unexpired ATOMIC grants the guard lets through
  Body,          \* request bodies: ref, expected_old_sha (None when missing), new_sha
  PushSet,       \* pushes others may try: new values of refs and of ledger refs
  DeploymentOf,  \* the deployment id of each session's sidecar
  InitHook,      \* the pre-receive hook at the start: none, foreign or ours
  ReadsFail,     \* TRUE when a git command that only reads may fail
  None           \* no value

Absent == "absent"      \* what readRef answers for a ref that is not there
Object == Commit \cup OtherObject
GrantType == [dep : Deployment, jti : Jti, target : Ref \cup {None}]

\* Forty zeros pass for a sha: as a new value they are git's word for Absent.
BodyType  == [ref : Ref, pin : Object \cup {Absent, None}, new : Object \cup {Absent}]

\* A push names some refs and some ledger refs, each with its new value.
Updates(S) == UNION {[D -> Object \cup {Absent}] : D \in SUBSET S}
PushType   == [refs : Updates(Ref), claims : Updates(Jti)]

ASSUME GitConstants ==
  /\ Grant \subseteq GrantType
  /\ Body \subseteq BodyType
  /\ PushSet \subseteq PushType
  /\ \A p \in PushSet : \A r \in DOMAIN p.refs \cap Branch : p.refs[r] \in Commit \cup {Absent}
  /\ DeploymentOf \in [Session -> Deployment]
  /\ Branch \subseteq Ref /\ Logged \subseteq Ref
  /\ InitRefs \in [Ref -> Object \cup {Absent}]
  /\ InitHook \in {"none", "foreign", "ours"}
  /\ ReadsFail \in BOOLEAN
  /\ Absent \notin Object

Request == [grant : Grant, body : Body]

\* What an attestation speaks of: the descriptor git:<ref>@<old>-><new>.
Move == [dep : Deployment, ref : Ref, old : Object \cup {Absent},
         new : Object \cup {Absent}]

Status == { "OK", "DEPLOYMENT_MISMATCH", "STATE_CHALLENGE_UNKNOWN",
            "GRANT_CONSUMED", "STATE_DRIFT" }
Reply  == [jti : Jti, status : Status]

ASSUME NoneIsNoValue == None \notin Request \cup Reply \cup Object \cup {Absent}

VARIABLES
  refs,      \* refs[r]: the object the ref points at, or Absent
  claims,    \* claims[j]: what the ledger ref of j points at, or Absent
  reflog,    \* reflog[r]: the jtis named by the markers in the ref's reflog
  hook,      \* the pre-receive hook: none, foreign or ours
  pc,        \* the next git command of each session
  req,       \* the request of each session
  reply,     \* the answer to the session's last request
  evidence,  \* the first attestations handed out for each jti
  applied    \* history: the first moves of each jti; two tell a second use

gitVars == <<refs, claims, reflog>>
vars    == <<gitVars, hook, pc, req, reply, evidence, applied>>
-----------------------------------------------------------------------------
JtiOf(s)  == req[s].grant.jti
RefOf(s)  == req[s].body.ref
MoveOf(s) == [ dep |-> DeploymentOf[s], ref |-> RefOf(s),
               old |-> req[s].body.pin, new |-> req[s].body.new ]

\* What a command that only reads can print: the truth, or nothing.
Readings(truth, nothing) == {truth} \cup (IF ReadsFail THEN {nothing} ELSE {})

\* readRef asks for ref^{commit}: any other object reads as no ref at all.
Peeled(o) == IF o \in Commit THEN o ELSE Absent

\* The first two of a growing list: enough to tell one from more.
Noted(list, e) == IF Len(list) < 2 THEN Append(list, e) ELSE list

Answer(s, j, status) ==
  /\ reply' = [reply EXCEPT ![s] = [jti |-> j, status |-> status]]
  /\ pc'    = [pc EXCEPT ![s] = "idle"]
  /\ req'   = [req EXCEPT ![s] = None]

Init ==
  /\ refs     = InitRefs
  /\ claims   = [j \in Jti |-> Absent]
  /\ reflog   = [r \in Ref |-> {}]
  /\ hook     = InitHook
  /\ pc       = [s \in Session |-> "idle"]
  /\ req      = [s \in Session |-> None]
  /\ reply    = [s \in Session |-> None]
  /\ evidence = [j \in Jti |-> <<>>]
  /\ applied  = [j \in Jti |-> <<>>]
-----------------------------------------------------------------------------
(* POST /git/ref-update behind the guard: the body carries the ref, the pin *)
(* and the new sha.  A pin that is missing, like a sha that is none or a    *)
(* field with a delimiter, is refused before any command runs.              *)
Receive(s, g, b) ==
  /\ pc[s] = "idle"
  /\ g.target \in {None, b.ref}
  /\ \/ g.dep # DeploymentOf[s] /\ Answer(s, g.jti, "DEPLOYMENT_MISMATCH")
     \/ /\ g.dep = DeploymentOf[s]
        /\ b.pin = None /\ Answer(s, g.jti, "STATE_CHALLENGE_UNKNOWN")
     \/ /\ g.dep = DeploymentOf[s]
        /\ b.pin # None
        /\ pc'    = [pc EXCEPT ![s] = "replay"]
        /\ req'   = [req EXCEPT ![s] = [grant |-> g, body |-> b]]
        /\ reply' = [reply EXCEPT ![s] = None]
  /\ UNCHANGED <<gitVars, hook, evidence, applied>>

\* git reflog show: a marker of this jti on this ref is a replay.
CheckReplay(s) ==
  /\ pc[s] = "replay"
  /\ \E markers \in Readings(reflog[RefOf(s)], {}) :
       \/ JtiOf(s) \in markers /\ Answer(s, JtiOf(s), "GRANT_CONSUMED")
       \/ /\ JtiOf(s) \notin markers
          /\ pc' = [pc EXCEPT ![s] = "batch"]
          /\ UNCHANGED <<req, reply>>
  /\ UNCHANGED <<gitVars, hook, evidence, applied>>

\* Mutant: the claim is written without the must-not-exist old value.
Unguarded(s) ==
  /\ refs[RefOf(s)] = req[s].body.pin
  /\ RefOf(s) \in Branch => req[s].body.new \in Commit \cup {Absent}

\* Both old values hold, and git accepts the object for the ref.
Possible(s) == claims[JtiOf(s)] = Absent /\ Unguarded(s)

\* What git keeps of the target's reflog when the batch lands.
LogAfter(s) ==
  IF req[s].body.new = Absent
    THEN {}
    ELSE reflog[RefOf(s)] \cup
           {j \in {JtiOf(s)} : RefOf(s) \in Logged /\ req[s].body.new # req[s].body.pin}

(* update-ref --stdin: the claim and the move land together.  git logs the  *)
(* message on the target if it keeps a reflog for it and its value changes. *)
(* Both get the new sha: forty zeros delete the target, with its reflog,    *)
(* and leave no claim.                                                      *)
Land(s) ==
  /\ Possible(s)
  /\ claims' = [claims EXCEPT ![JtiOf(s)] = req[s].body.new]
  /\ refs'   = [refs EXCEPT ![RefOf(s)] = req[s].body.new]
  /\ reflog' = [reflog EXCEPT ![RefOf(s)] = LogAfter(s)]
  /\ applied' = [applied EXCEPT ![JtiOf(s)] = Noted(@, MoveOf(s))]

(* The batch lands; or lands and git dies before it can say so; or does not *)
(* land: an old value is wrong, a lock is taken, the object is not there.   *)
RunBatch(s) ==
  /\ pc[s] = "batch"
  /\ \/ Land(s) /\ \E next \in {"sign", "explain"} : pc' = [pc EXCEPT ![s] = next]
     \/ pc' = [pc EXCEPT ![s] = "explain"] /\ UNCHANGED <<gitVars, applied>>
  /\ UNCHANGED <<hook, req, reply, evidence>>

\* Mutant: the target, not the ledger, tells a spent grant from a drift.
TargetTells(s) == Readings(IF refs[RefOf(s)] = req[s].body.new THEN req[s].body.new ELSE Absent, Absent)

\* What readRef(ledgerRef) can answer.
ClaimReadings(s) == Readings(Peeled(claims[JtiOf(s)]), Absent)

(* The batch failed: the ledger is read again to tell a spent grant from a  *)
(* target that drifted.  (The target is read too, for the message only.)    *)
Explain(s) ==
  /\ pc[s] = "explain"
  /\ \E ledgerNow \in ClaimReadings(s) :
       Answer(s, JtiOf(s), IF ledgerNow # Absent THEN "GRANT_CONSUMED" ELSE "STATE_DRIFT")
  /\ UNCHANGED <<gitVars, hook, evidence, applied>>

\* Mutant: the attestation names the ref's present value as the old one.
SignPresent(s) == [MoveOf(s) EXCEPT !.old = refs[RefOf(s)]]

\* Mutant: the attestation leaves out the deployment.
SignUndeployed(s) == [ref |-> RefOf(s), old |-> req[s].body.pin, new |-> req[s].body.new]

\* The preimage signed after the move: the caller's pin, not a fresh read.
Signed(s) == MoveOf(s)

Sign(s) ==
  /\ pc[s] = "sign"
  /\ evidence' = [evidence EXCEPT ![JtiOf(s)] = Noted(@, Signed(s))]
  /\ Answer(s, JtiOf(s), "OK")
  /\ UNCHANGED <<gitVars, hook, applied>>

\* The process dies, or the signature throws: no answer, no evidence.
Crash(s) ==
  /\ pc[s] # "idle"
  /\ pc'    = [pc EXCEPT ![s] = "idle"]
  /\ req'   = [req EXCEPT ![s] = None]
  /\ reply' = [reply EXCEPT ![s] = None]
  /\ UNCHANGED <<gitVars, hook, evidence, applied>>
-----------------------------------------------------------------------------
\* Mutant: the hook guards deletion but not overwriting.
RefusesDeletion(j, new) == new = Absent

\* Mutant: the hook guards overwriting but not deletion.
RefusesOverwrite(j, new) == new # Absent /\ claims[j] # Absent

(* One line of the hook's input, for a ref of the ledger.  The old value in *)
(* it is the pusher's word, but a push whose word is wrong moves nothing.   *)
HookRefuses(j, new) == new = Absent \/ claims[j] # Absent

(* A push moves, creates or deletes refs and ledger refs.  The hook reads   *)
(* every line before it exits, so one refused line refuses the push.        *)
Push(p) ==
  /\ hook = "ours" => \A j \in DOMAIN p.claims : ~HookRefuses(j, p.claims[j])
  /\ refs'   = [r \in Ref |-> IF r \in DOMAIN p.refs THEN p.refs[r] ELSE refs[r]]
  /\ claims' = [j \in Jti |-> IF j \in DOMAIN p.claims THEN p.claims[j] ELSE claims[j]]
  /\ reflog' = [r \in Ref |->
       IF r \in DOMAIN p.refs /\ p.refs[r] = Absent THEN {} ELSE reflog[r]]
  /\ UNCHANGED <<hook, pc, req, reply, evidence, applied>>

\* installLedgerHook: a hook somebody else wrote is kept unless forced.
InstallHook(force) ==
  /\ hook' = IF hook = "none" \/ force THEN "ours" ELSE hook
  /\ UNCHANGED <<gitVars, pc, req, reply, evidence, applied>>
-----------------------------------------------------------------------------
Step(s) ==
  CheckReplay(s) \/ RunBatch(s) \/ Explain(s) \/ Sign(s) \/ Crash(s)

Next ==
  \/ \E s \in Session, g \in Grant, b \in Body : Receive(s, g, b)
  \/ \E s \in Session : Step(s)
  \/ \E p \in PushSet : Push(p)
  \/ \E force \in BOOLEAN : InstallHook(force)

Spec == Init /\ [][Next]_vars
-----------------------------------------------------------------------------
\* Every variable has its type.
TypeOK ==
  /\ refs   \in [Ref -> Object \cup {Absent}]
  /\ claims \in [Jti -> Object \cup {Absent}]
  /\ reflog \in [Ref -> SUBSET Jti]
  /\ hook   \in {"none", "foreign", "ours"}
  /\ pc     \in [Session -> {"idle", "replay", "batch", "explain", "sign"}]
  /\ req    \in [Session -> Request \cup {None}]
  /\ reply  \in [Session -> Reply \cup {None}]
  /\ evidence \in [Jti -> Seq(Move)]
  /\ applied  \in [Jti -> Seq(Move)]

(* The hook was there from the start, and nobody asks for a ref's deletion. *)
Protected == InitHook = "ours" /\ \A b \in Body : b.new # Absent

(* On a protected repository a grant moves at most one ref once, whatever   *)
(* is pushed, however commands fail and whoever races (git-atomic.js        *)
(* 77-83).                                                                  *)
OneUse == Protected => \A j \in Jti : Len(applied[j]) <= 1

(* From the moment the hook is installed a claim that is there stays as it  *)
(* is, whoever pushes, and its grant moves nothing any more                 *)
(* (ledger-hook.js 11-18).                                                  *)
ClaimsAreFinal ==
  [][\A j \in Jti : hook = "ours" /\ claims[j] # Absent =>
       claims'[j] = claims[j] /\ applied'[j] = applied[j]]_vars

(* What the caller is told is so and stays so: OK means this grant moved a  *)
(* ref and its evidence says how; GRANT_CONSUMED, whether a reflog or the   *)
(* ledger said it, means a claim is there.                                  *)
RepliesTruthful ==
  Protected =>
    \A s \in Session : reply[s] # None =>
      LET j == reply[s].jti
      IN /\ reply[s].status = "OK" => applied[j] # <<>> /\ evidence[j] = applied[j]
         /\ reply[s].status = "GRANT_CONSUMED" => claims[j] # Absent

(* STATE_DRIFT is answered with grant_spent: false: when it is, the grant   *)
(* has moved nothing (git-atomic.js 544-562).                               *)
DriftMeansUnspent ==
  [][\A s \in Session :
       pc[s] = "explain" /\ reply'[s] # None /\ reply'[s].status = "STATE_DRIFT"
         => applied[JtiOf(s)] = <<>>]_vars

(* Why these are inductive.  A busy session has a request with a pin.  A    *)
(* grant that moved something has its claim; a session about to sign is the *)
(* only one that knows of its move, and nobody has signed it; a marker in a *)
(* reflog stands for a claim.                                               *)
Busy == \A s \in Session : pc[s] # "idle" => req[s] # None /\ req[s].body.pin # None

SignerInv(s) ==
  pc[s] = "sign" => applied[JtiOf(s)] = <<MoveOf(s)>> /\ evidence[JtiOf(s)] = <<>>

OneSigner ==
  \A s, o \in Session : s # o /\ pc[s] = "sign" /\ pc[o] = "sign" => JtiOf(s) # JtiOf(o)

LedgerInv ==
  \A j \in Jti : /\ claims[j] = Absent => applied[j] = <<>>
                 /\ evidence[j] # <<>> => evidence[j] = applied[j]

MarkersAreClaims == \A r \in Ref : \A j \in reflog[r] : claims[j] # Absent

Guarded ==
  /\ hook = "ours"
  /\ \A s \in Session : SignerInv(s)
  /\ OneSigner
  /\ LedgerInv
  /\ MarkersAreClaims
  /\ OneUse
  /\ RepliesTruthful

IInv == TypeOK /\ Busy /\ (Protected => Guarded)

(* The executor implements the abstract ledger with evidence that may come  *)
(* after its effect, or never.                                              *)
Promise == INSTANCE OneUseLedger WITH
  Key <- Jti, Effect <- Move, AtomicEvidence <- FALSE

ImplementsOneUseLedger == Promise!Spec
=============================================================================
