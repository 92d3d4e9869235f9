------------------------------ MODULE Issuance ------------------------------
(***************************************************************************)
(* What the authorize service answers and what becomes of the answer: the  *)
(* grant that is taken from it (server-grant.js) and the issuance that     *)
(* POINT 1 reports (authorize-issue.js).  With CODERIFTS_API_KEY set the   *)
(* service is asked; without it the recorded answer of an earlier run is   *)
(* read, which names a real grant that no later run can consume.           *)
(***************************************************************************)
EXTENDS Naturals

CONSTANTS None, Wrong

ASSUME WrongAssumption == Wrong \notin {None, TRUE, FALSE}

\* No value is no grade and no verdict.
ASSUME NoneAssumption == None \notin {"PROVEN", "PASS"}

IssuerKid == "issuer"   \* keys[0] of the issuer's registry
DemoKid   == "DEMO-KEY-DO-NOT-USE"

(* A question binds the nonce and the state the asking executor just took,  *)
(* the target, itself, and the bytes it proposes.                           *)
Question(state, target, bytes) ==
  [state |-> state, target |-> target, executor |-> "us", nonce |-> "ours", bytes |-> bytes]

\* A grant (cr.exec.v2) for that question; the signer is the key that signed.
GrantFor(jti, q) ==
  [jti |-> jti, kid |-> IssuerKid, signer |-> IssuerKid, receipt |-> jti,
   state |-> q.state, target |-> q.target, executor |-> q.executor,
   nonce |-> q.nonce, bytes |-> q.bytes, current |-> TRUE]

(* The document of an authorize; decision stands for decision_id and        *)
(* verdict_fingerprint.                                                     *)
Document(source, g) ==
  [source |-> source, grant |-> g, chain_receipt |-> g.receipt, decision |-> TRUE]

\* extractLive on an answer, or the refusal of one that is not 200 or has no grant.
Refused == [source |-> "live", grant |-> None, chain_receipt |-> None, decision |-> FALSE]

Exact(jti, q) == Document("live", GrantFor(jti, q))

\* The recorded fixture: a grant over a nonce and a state of its own day.
Recorded ==
  Document("recorded", [GrantFor("recorded", Question("then", "db", "recorded"))
                          EXCEPT !.nonce = "theirs", !.current = FALSE])

(* What the service may answer: nothing usable, exactly what was asked, or  *)
(* a document in which one thing is not as asked.                           *)
Answers(jti, q) ==
  { Refused, Exact(jti, q) }
    \cup { [Exact(jti, q) EXCEPT !.grant[f] = Wrong] :
             f \in {"kid", "signer", "state", "target", "executor", "nonce", "bytes", "receipt"} }
    \cup { [Exact(jti, q) EXCEPT !.grant.current = FALSE],
           [Exact(jti, q) EXCEPT !.chain_receipt = None],
           [Exact(jti, q) EXCEPT !.decision = FALSE] }

(* issueAuthorize: a live question that fails is not answered from the      *)
(* record; a question that cannot be asked is.                              *)
IssueAuthorize(key, answer) == IF key THEN answer ELSE Recorded

Authentic(g) == g.kid = IssuerKid /\ g.signer = g.kid

\* verifyIssued: at the grant's own time, under the issuer's first key, never the demo's.
IssuedVerifies(doc) ==
  /\ Authentic(doc.grant) /\ doc.grant.kid # DemoKid
  /\ doc.chain_receipt # None /\ doc.chain_receipt = doc.grant.receipt

\* evaluateIssuance; the jti and the scope are the document's own.
EvaluateIssuance(doc) ==
  [ok     |-> doc.grant # None /\ IssuedVerifies(doc) /\ doc.decision,
   source |-> doc.source,
   jti    |-> IF doc.grant = None THEN None ELSE doc.grant.jti,
   scope  |-> IF doc.grant = None THEN None ELSE doc.grant.bytes]

(* acquireServerGrant: the grant for the articles table is taken if it      *)
(* binds this executor's nonce and bytes; the rest the executor finds out.  *)
AcquireServerGrant(doc, q) ==
  doc.grant # None /\ doc.grant.nonce = q.nonce /\ doc.grant.bytes = q.bytes

\* issueGitGrant: all four bindings, and never a grant of one's own instead.
IssueGitGrant(key, doc, q) ==
  IF key /\ doc.grant # None /\ doc.grant.state = q.state /\ doc.grant.bytes = q.bytes
       /\ doc.grant.nonce = q.nonce /\ doc.grant.target = q.target
    THEN doc ELSE None

(* verifyExecutionGrant as the executors ask it, before they act: current,  *)
(* by a key of the issuer, for this executor, target and bytes.             *)
GrantCurrent(g, target, bytes) ==
  /\ Authentic(g) /\ g.current
  /\ g.executor = "us" /\ g.target = target /\ g.bytes = bytes
=============================================================================
