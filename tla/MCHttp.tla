------------------------------- MODULE MCHttp -------------------------------
(* Model values and bounds for HttpAtomic and HttpReconcile.                *)
EXTENDS HttpReconcile

Plain(j, pin, body, canary) ==
  [jti |-> j, dep |-> "d", path |-> "p", pin |-> pin, body |-> body, canary |-> canary]

MCRequests ==
  { Plain("g", "v1", "v2", "none"), Plain("g", "v1", "v2", "probe"),
    Plain("h", "v1", "v3", "none"), Plain("h", Create, "v1", "none") }
  \cup {[Plain("g", "v1", "v2", "none") EXCEPT !.dep = "e"]}

\* The other path holds what the grants of the first one write.
MCOriginRep == [p \in {"p", "q"} |-> IF p = "p" THEN "v1" ELSE "v2"]

MCKeys ==
  << [kid |-> "k", status |-> "active", from |-> None, until |-> None, key |-> "key"],
     [kid |-> "old", status |-> "revoked", from |-> None, until |-> None, key |-> "oldkey"] >>

(* An attestation with a made-up signature, one by a key of neither status, *)
(* and something that is no token.                                          *)
MCStray ==
  LET preimage == [jti |-> "g", dep |-> "d", mut |-> <<"v1", "v2">>, target |-> "p"]
  IN { [whole |-> TRUE, kid |-> "k", signer |-> "nobody", preimage |-> preimage],
       [whole |-> TRUE, kid |-> "old", signer |-> "oldkey", preimage |-> preimage],
       [whole |-> FALSE, kid |-> "k", signer |-> "key", preimage |-> preimage] }
=============================================================================
