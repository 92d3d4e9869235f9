----------------------------- MODULE MCPgAtomic -----------------------------
(***************************************************************************)
(* Instances of PgAtomic for TLC.                                          *)
(***************************************************************************)
EXTENDS PgAtomic, TLC

CONSTANTS s1, s2, s3, d1, d2, j1, j2, j3, n1, n2, a1, a2, a3, c1, c2

\* One sidecar, and two sidecars that share the database.
OneSidecar  == [s \in Session |-> d1]
TwoSidecars == [s \in Session |-> IF s = s2 THEN d2 ELSE d1]

V1(jti, nonce, op) ==
  [version |-> "v1", dep |-> d1, jti |-> jti, nonce |-> nonce, op |-> op,
   target |-> IF op = "publish" THEN NoTarget ELSE a1, token |-> None]

V2(jti, nonce, op, token) ==
  [version |-> "v2", dep |-> d1, jti |-> jti, nonce |-> nonce, op |-> op,
   target |-> None, token |-> token]

RowDigest(a, c) == [target |-> a, content |-> c]

(* Two grants over one nonce, and a third over another nonce that deletes   *)
(* the same article.                                                        *)
DeployGrants ==
  { V1(j1, n1, "deploy"), V1(j2, n1, "deploy"),
    V2(j3, n2, "deploy", RowDigest(a1, c1)) }

(* Bound: only the challenge two grants share is seen past its expiry; the *)
(* other's expiry is taken, and not followed further.                       *)
OneExpires == challenges[n2] # None => ~challenges[n2].expired

\* The same jti in two deployments, and another, over one challenge.
OneChallenge ==
  { V1(j1, n1, "publish"), [V1(j1, n1, "publish") EXCEPT !.dep = d2], V1(j2, n1, "deploy") }

\* Two grants, each over a challenge of its own, for one article.
TwoChallenges == { V1(j1, n1, "deploy"), V1(j2, n2, "deploy") }
=============================================================================
