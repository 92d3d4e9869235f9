------------------------------ MODULE MCGuard ------------------------------
(***************************************************************************)
(* An instance of Guard for TLC: two signers, one of which is rotated out, *)
(* and a route of each adapter.                                            *)
(***************************************************************************)
EXTENDS Guard, TLC

CONSTANTS s1, s2, j1, j2, k1, k2, a1, uri, b1, b2

MCRoute == {"articles", "git", "unmapped"}
MCOperationMap == ("articles" :> "deploy") @@ ("git" :> "ref-update") @@ ("unmapped" :> None)
MCAdapter == ("articles" :> "pg") @@ ("git" :> "git") @@ ("unmapped" :> "pg")

E(kid, key, status) == [kid |-> kid, key |-> key, status |-> status]

\* Two issuers; then the first is retired by a later entry; then an entry without its PEM.
MCFile ==
  { <<E("one", k1, "active"), E("two", k2, "active")>>,
    <<E("one", k1, "active"), E("one", k1, "retired"), E("two", k2, "active")>>,
    <<E("two", None, "active")>> }

(* A grant of the second issuer for a route, valid from 0 to 1.             *)
Grant(v, op, target) ==
  [ v |-> v, shape |-> "ok", kid |-> "two", signer |-> k2, jti |-> j1, from |-> 0, exp |-> 1,
    receipt |-> TRUE, audience |-> "here", op |-> op, target |-> target, body |-> b1,
    dep |-> "ours", atomic |-> TRUE ]

Good   == Grant("v1", "deploy", a1)
GoodV2 == [Grant("v2", "deploy", uri) EXCEPT !.jti = j2]

(* The good grants, the first issuer's, and what is not one of these.       *)
MCToken ==
  { Good, GoodV2,
    [Good EXCEPT !.jti = j2, !.kid = "one", !.signer = k1],
    [Good EXCEPT !.signer = k1],
    [Good EXCEPT !.signer = Forged, !.exp = 3],
    [Good EXCEPT !.kid = "three"],
    [Good EXCEPT !.shape = "malformed"],
    [Good EXCEPT !.shape = "delimiter"],
    [Good EXCEPT !.jti = j2, !.from = 3],
    [Good EXCEPT !.receipt = None],
    [Good EXCEPT !.audience = "there"],
    [Good EXCEPT !.atomic = FALSE],
    [Good EXCEPT !.dep = "theirs"],
    [GoodV2 EXCEPT !.op = "ref-update"],
    [GoodV2 EXCEPT !.target = a1] }

Rq(route, target, body, token) == [route |-> route, target |-> target, body |-> body, token |-> token]

MCRequest ==
  { Rq("articles", a1, b1, t) : t \in MCToken \cup {None} }
    \cup { Rq("articles", a1, b2, t) : t \in {Good, GoodV2} }
    \cup { Rq("articles", None, b1, Good), Rq("unmapped", a1, b1, Good) }
    \cup { Rq("git", a1, b1, t) : t \in {Good, [GoodV2 EXCEPT !.op = "ref-update"]} }
=============================================================================
