--------------------------- MODULE EvidenceChain ---------------------------
(***************************************************************************)
(* One proof run (bin/prove-all.js): the git target first, then the panels *)
(* against Postgres (prove.js), the nine points (e2e-chain.js), POINT 10   *)
(* offline (offline-reverify.js) and the verdict.  If the target ran, its  *)
(* grant is the one the points are about, and the panels mint their own;   *)
(* otherwise it is the grant the executor of the articles table consumed,  *)
(* and POINT 8 is filled from a readback file, if one was supplied.        *)
(***************************************************************************)
EXTENDS GitTarget

VARIABLES
  token,        \* a transcript was signed
  panels,       \* panels that failed
  issuance,     \* what evaluateIssuance says, None if prove found no database
  consumed,     \* the grant of the authorized panel
  written,      \* [jti, bytes] of the row in articles, None without one
  readback,     \* the commit the supplied readback names, or None
  points,       \* points of 1..10 that hold
  correlation,  \* [scope, commit] bound by the signed correlation, or None
  continuous,
  verdict

(* A version, a commit, a grant, an issuance, a correlation and a set of    *)
(* paths are something.                                                     *)
ASSUME NoneIsNothing ==
  /\ None \notin Bytes \cup Commits \cup {"git", "pg"}
  /\ \A paths \in SUBSET {ContractPath, "other"} : None # paths
  /\ None \notin [ok : BOOLEAN, source : {"live"}, jti : {"git", "pg"}, scope : Bytes]
  /\ None \notin [scope : Bytes, commit : Bytes \cup Commits]
  /\ \A b \in Bytes : None # GrantFor("pg", Question("db", "db", b))

proveVars == <<token, panels, issuance, consumed, written>>
chainVars == <<proveVars, readback, points, correlation, continuous, verdict>>

vars == <<targetVars, chainVars>>

Panels == {"deny", "authorized", "replay", "concurrency", "gate", "other"}

Init ==
  /\ TargetInit
  /\ token = FALSE /\ panels = {} /\ issuance = None /\ consumed = None /\ written = None
  /\ readback = None /\ points = {} /\ correlation = None /\ continuous = FALSE /\ verdict = None

-----------------------------------------------------------------------------
\* runProve.  The executor takes a grant that is current, for the state and bytes it has.
Accepts(g, bytes) == GrantCurrent(g, "db", bytes) /\ g.state = "db" /\ g.nonce = "ours"

DbQuestion == Question("db", "db", file)

Reports(doc, jti, bytes, accepted, broken) ==
  LET failed == broken \cup (IF accepted THEN {} ELSE {"authorized"})
  IN /\ issuance' = EvaluateIssuance(doc)
     /\ consumed' = jti
     /\ panels' = failed
     /\ written' = IF "authorized" \in failed THEN None ELSE [jti |-> jti, bytes |-> bytes]

(* The grant the run is about is asked for once if the target ran or the    *)
(* answer can be used; otherwise the issuer is asked again, as a bearer,    *)
(* and the panels run on a grant minted locally.  broken: panels that fail. *)
ProveOn(doc, second, broken) ==
  /\ step = "prove"
  /\ step' = "chain" /\ token' = TRUE
  /\ IF ran THEN Reports(grant, "mint", "row", TRUE, broken)
     ELSE IF env.key /\ AcquireServerGrant(doc, DbQuestion)
     THEN Reports(doc, doc.grant.jti, file, Accepts(doc.grant, file), broken)
     ELSE Reports(IssueAuthorize(env.key, second), "mint", "row", TRUE, broken)
  /\ calm' = (calm /\ broken = {} /\ (ran \/ doc = Exact("pg", DbQuestion)))
  /\ UNCHANGED <<env, fileVars, repoVars, grant, readVars, ran,
                 readback, points, correlation, continuous, verdict>>

Prove ==
  \E doc \in (IF ran \/ ~env.key THEN {Refused} ELSE Answers("pg", DbQuestion)) :
    \E second \in (IF ran \/ ~env.key \/ AcquireServerGrant(doc, DbQuestion)
                   THEN {Refused} ELSE Answers("bearer", Question(None, None, file))) :
      \E broken \in {{}} \cup {{p} : p \in Panels} : ProveOn(doc, second, broken)

\* Postgres cannot be reached: no issuance, no section and no token.
NoDatabase ==
  /\ step = "prove"
  /\ step' = "chain"
  /\ panels' = Panels /\ calm' = FALSE
  /\ UNCHANGED <<env, fileVars, repoVars, grant, readVars, ran, token, issuance,
                 consumed, written, readback, points, correlation, continuous, verdict>>

Transcript == token /\ env.keysAgree

-----------------------------------------------------------------------------
\* governedScopeHash: the bytes of the file as it is now, never the grant's.
GovernedScope == file

\* What CODERIFTS_PROVIDER_READBACK may lead to: no file, one that cannot be
\* graded, one that names no commit, or the commit of a version.
Readbacks == {"none", "ungraded", "nameless"} \cup Bytes

\* contractSourceCommit: a contract that is tracked and clean belongs to a commit.
SourceCommit(clean) == IF clean THEN file ELSE None

\* correlate, and verifyCorrelation on what it signed.
Correlate(scope, commit, seen) ==
  IF commit # None /\ seen = commit /\ env.keysAgree
  THEN [scope |-> scope, commit |-> commit] ELSE None

Correlation(rb, clean) ==
  IF ran
  THEN IF graded.state = "PROVEN" THEN Correlate(GovernedScope, "candidate", obs.commit) ELSE None
  ELSE IF rb \in Bytes THEN Correlate(GovernedScope, SourceCommit(clean), rb)
  ELSE None

(* The points.  Where the target ran, points 2 to 9 are about it: its host  *)
(* was denied and its compare-and-swap sealed, or it had not run.           *)
Passed(panel) == panel \notin panels

\* attestationPoint: the seal verifies for this grant and a forged one does not.
AttestationPoint == Passed("authorized") /\ env.keysAgree

Authorize      == issuance # None /\ issuance.ok
GrantIssuance  == IF ran THEN ledgerJti # None ELSE Passed("authorized")
HostRefused    == ran \/ Passed("deny")
NonceConsumed  == IF ran THEN refused ELSE Passed("replay")
CasHeld        == ran \/ Passed("concurrency")
Attestation    == IF ran THEN env.keysAgree ELSE AttestationPoint
Gate           == ran \/ (Passed("authorized") /\ Passed("gate"))
Merge(rb, corr) == (~ran /\ rb = "none") \/ corr # None
Seal           == ran \/ AttestationPoint

Points(rb, corr) ==
  LET holds == <<Authorize, GrantIssuance, HostRefused, NonceConsumed, CasHeld,
                 Attestation, Gate, Merge(rb, corr), Seal>>
  IN {n \in 1..9 : holds[n]}

\* Mutant: the correlation's scope is not compared with the server's.
JtiOnly(jti, scope, used, attested, corr) ==
  jti # None /\ used = jti /\ attested = jti

\* Mutant: what was consumed and what was attested are compared with each other.
SelfCompared(jti, scope, used, attested, corr) ==
  /\ used # None /\ attested = used
  /\ (corr # None /\ scope # None) => corr.scope = scope

(* assessContinuity; the scope is compared where both are there.            *)
AssessContinuity(jti, scope, used, attested, corr) ==
  /\ jti # None
  /\ used = jti /\ attested = jti
  /\ (corr # None /\ scope # None) => corr.scope = scope

\* What the target's grant is followed by; its scope is not handed over.
Continuous(corr) ==
  IF ran
  THEN AssessContinuity(grant.grant.jti, None,
                        IF ledgerJti # None THEN ledgerJti ELSE grant.grant.jti,
                        grant.grant.jti, corr)
  ELSE IF issuance = None THEN FALSE
  ELSE LET sealed == IF "authorized" \in panels THEN None ELSE consumed
       IN AssessContinuity(issuance.jti, issuance.scope, consumed, sealed, corr)

\* runChain; the readback is not consulted where the target ran.
Chain(rb, clean) ==
  LET corr == Correlation(rb, clean)
  IN /\ step = "chain"
     /\ step' = "offline"
     /\ points' = Points(rb, corr)
     /\ correlation' = corr
     /\ continuous' = Continuous(corr)
     /\ readback' = IF rb \in Bytes THEN rb ELSE None
     /\ calm' = (calm /\ (rb = "none" \/ (rb = file /\ clean)))
     /\ UNCHANGED <<env, fileVars, repoVars, grant, readVars, ran, proveVars, verdict>>

(* offlineReverify: the trap is shown to block, the transcript and the      *)
(* correlation verify, the scope is recomputed, and nothing was reached.    *)
Point10(blocks, reaches) ==
  /\ blocks /\ ~reaches
  /\ Transcript
  /\ correlation # None => correlation.scope = GovernedScope

Offline(blocks, reaches) ==
  /\ step = "offline"
  /\ step' = "verdict"
  /\ points' = IF Point10(blocks, reaches) THEN points \cup {10} ELSE points
  /\ calm' = (calm /\ blocks /\ ~reaches)
  /\ UNCHANGED <<env, fileVars, repoVars, grant, readVars, ran, proveVars,
                 readback, correlation, continuous, verdict>>

\* prove.ok, the transcript, every point and continuity.
AllOk == points = 1..10 /\ panels = {} /\ Transcript /\ continuous

Verdict ==
  /\ step = "verdict"
  /\ step' = "done"
  /\ verdict' = IF AllOk THEN "PASS" ELSE "FAIL"
  /\ UNCHANGED <<env, fileVars, repoVars, grant, readVars, ran, calm,
                 proveVars, readback, points, correlation, continuous>>

Finished == step = "done" /\ UNCHANGED vars

Next ==
  \/ (TargetNext \/ Around) /\ UNCHANGED chainVars
  \/ Prove \/ NoDatabase
  \/ \E rb \in (IF ran THEN {"none"} ELSE Readbacks), clean \in BOOLEAN : Chain(rb, clean)
  \/ \E blocks, reaches \in BOOLEAN : Offline(blocks, reaches)
  \/ Verdict \/ Finished

Spec == Init /\ [][Next]_vars

-----------------------------------------------------------------------------
(* A passing verdict is about one live authorization: it was issued with a  *)
(* decision behind it, the grant that was consumed is that grant, and what  *)
(* the executor did with it happened, on the target or on the table.        *)
PassIsOneAuthorization ==
  verdict = "PASS" =>
    /\ issuance.ok /\ issuance.source = "live"
    /\ ran => /\ issuance.jti \in claims /\ ledgerJti = issuance.jti
              /\ ExecutorMoves # {}
    /\ ~ran => written = [jti |-> issuance.jti, bytes |-> issuance.scope]

(* Without the target, a verdict with a correlation passes only if the      *)
(* readback names the commit of the very bytes that were authorized and     *)
(* written.                                                                 *)
ReadbackIsOfTheGrant ==
  (verdict = "PASS" /\ ~ran /\ correlation # None) =>
    /\ correlation.commit = readback
    /\ correlation.scope = issuance.scope /\ correlation.scope = written.bytes

(* A run with an API key and a key pair that agrees, with exact answers,    *)
(* that nothing disturbed passes, with the target or without it.            *)
HonestRunPasses ==
  (step = "done" /\ calm /\ env.key /\ env.keysAgree) => verdict = "PASS"

(* "The correlation must bind the SERVER's scope, or the merge is           *)
(* correlated to a payload nobody authorized": what the verdict passes      *)
(* with is the scope of the grant.                                          *)
ScopeIsAuthorized ==
  (verdict = "PASS" /\ correlation # None) => correlation.scope = issuance.scope
=============================================================================
