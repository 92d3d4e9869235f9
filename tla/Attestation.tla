----------------------------- MODULE Attestation -----------------------------
(***************************************************************************)
(* Stored attestations and the keys they are checked against: the token    *)
(* verifier (atomic.js), the key manifest and its validity windows         *)
(* (posture.js) and the gate every CONFIRMED passes (reconcile.js).        *)
(*                                                                         *)
(* A token carries its envelope's kid, the key that really signed it, and  *)
(* the fields of the preimage cr.gate.preimage.v1|jti|dep|mut|target.      *)
(***************************************************************************)
EXTENDS Integers

CONSTANTS
  Leeway,   \* POSTURE_CLOCK_SKEW_LEEWAY_MS, in ticks of the clock
  GitRef,   \* the ref named by each git target descriptor
  None      \* no value

NoField == "no field"   \* a preimage of fewer than five fields has no target

(* A token: whole is FALSE for a string that is not four segments with the  *)
(* right version; forged is a signature by no key of the manifest.          *)
Token(kid, signer, preimage) ==
  [whole |-> TRUE, kid |-> kid, signer |-> signer, preimage |-> preimage]

Preimage(jti, dep, mut, target) ==
  [jti |-> jti, dep |-> dep, mut |-> mut, target |-> target]

KeyEntry(kid, status, from, until, key) ==
  [kid |-> kid, status |-> status, from |-> from, until |-> until, key |-> key]
-----------------------------------------------------------------------------
\* resolveKeyManifest: the first entry of that kid, if there is one.
ResolveKeyManifest(keys, kid) ==
  LET matches == {i \in DOMAIN keys : /\ keys[i].kid = kid
                                      /\ \A j \in DOMAIN keys : j < i => keys[j].kid # kid}
  IN IF matches = {} THEN None ELSE keys[CHOOSE i \in matches : TRUE]

\* checkKeyWindow: inclusive, with the leeway on both sides.
CheckKeyWindow(t, from, until) ==
  /\ t # None /\ from # None /\ until # None
  /\ t + Leeway >= from
  /\ t - Leeway <= until

(* keyInForce: an active key always is; a retired one while the question is *)
(* asked inside its window; a key of any other status never.                *)
KeyInForce(e, asOf) ==
  \/ e.status = "active"
  \/ e.status = "retired" /\ CheckKeyWindow(asOf, e.from, e.until)

\* verifyAtomicExecutionAttestation, for one key and one intended grant.
VerifyAtomicExecutionAttestation(token, key, jti, dep) ==
  IF ~token.whole THEN "ATTEST_MALFORMED"
  ELSE IF key = None THEN "ATTEST_UNKNOWN_KEY"
  ELSE IF token.signer # key THEN "ATTEST_INVALID_SIGNATURE"
  ELSE IF token.preimage.jti # jti \/ token.preimage.dep # dep THEN "ATTEST_UNBOUND"
  ELSE "ATTEST_VALID"

\* gitRefOfTarget.
GitRefOfTarget(target) == IF target \in DOMAIN GitRef THEN GitRef[target] ELSE None

Expected(kind, value) == [kind |-> kind, value |-> value]

(* compareTarget: against the target known from elsewhere; nothing to       *)
(* compare with is no mismatch, a preimage without a target is.             *)
CompareTarget(preimage, expected) ==
  \/ expected = None
  \/ /\ preimage.target # NoField
     /\ expected.value = IF expected.kind = "git_ref"
                           THEN GitRefOfTarget(preimage.target) ELSE preimage.target

\* preimageDivergence: which field two different preimages disagree on first.
PreimageDivergence(signed, ledger) ==
  IF NoField \in {signed.target, ledger.target} THEN "ATTEST_PREIMAGE_MISMATCH"
  ELSE IF signed.target # ledger.target THEN "ATTEST_TARGET_MISMATCH"
  ELSE IF signed.mut # ledger.mut THEN "ATTEST_DIGEST_MISMATCH"
  ELSE "ATTEST_PREIMAGE_MISMATCH"

\* verifyStoredAttestation: its status, ATTEST_VALID when it is ok.
VerifyStoredAttestation(token, jti, dep, keys, asOf, expected) ==
  IF keys = None THEN "NO_KEY_MATERIAL"
  ELSE IF ~token.whole THEN "ATTEST_MALFORMED"
  ELSE
    LET e == ResolveKeyManifest(keys, token.kid)
        r == VerifyAtomicExecutionAttestation(token, e.key, jti, dep)
    IN IF e = None THEN "UNKNOWN_KID"
       ELSE IF ~KeyInForce(e, asOf) THEN "KEY_NOT_IN_FORCE"
       ELSE IF e.key = None THEN "UNUSABLE_KEY"
       ELSE IF r # "ATTEST_VALID" THEN r
       ELSE IF ~CompareTarget(token.preimage, expected) THEN "ATTEST_TARGET_MISMATCH"
       ELSE "ATTEST_VALID"
-----------------------------------------------------------------------------
Entry(jti, outcome, status) == [jti |-> jti, outcome |-> outcome, status |-> status]

\* enforceNoUnprovenConfirmed, for one entry and the adapter's own check.
EnforceNoUnprovenConfirmed(e, backed) ==
  IF e.outcome = "CONFIRMED" /\ ~(e.status = "ATTEST_VALID" /\ backed)
    THEN [e EXCEPT !.outcome = "INDETERMINATE"] ELSE e
=============================================================================
