----------------------------- MODULE MCPgReaders -----------------------------
(***************************************************************************)
(* Instances of PgReaders for TLC.                                         *)
(***************************************************************************)
EXTENDS PgReaders, TLC

CONSTANTS s1, s2, d1, d2, j1, j2, n1, n2, a1, a2, c1

V1(dep, jti, nonce, op) ==
  [version |-> "v1", dep |-> dep, jti |-> jti, nonce |-> nonce, op |-> op,
   target |-> IF op = "publish" THEN NoTarget ELSE a1, token |-> None]

\* Two grants of one deployment, each over a nonce of its own.
OwnGrants == { V1(d1, j1, n1, "publish"), V1(d1, j2, n2, "deploy") }
OneSidecar == [s \in Session |-> d1]

W(since, until) == [since |-> since, until |-> until]
MCHanded == [n \in Nonce |-> IF n = n1 THEN NoTarget ELSE a1]

Sessions == Permutations(Session)

(* Bound: an expiry is taken and not followed further; a transaction it     *)
(* refuses leaves nothing for a reader to see.                              *)
ChallengesLast == \A n \in Nonce : ~challenges[n].expired

MCWindows == { W(None, 1), W(1, None) }
=============================================================================
