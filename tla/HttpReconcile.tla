---------------------------- MODULE HttpReconcile ----------------------------
(***************************************************************************)
(* Reconciliation of HTTP writes (reconcileHttp in reconcile.js): for each *)
(* item an operator names, one GET of its resource, compared with the      *)
(* representation they expect, and the attestation they hold.  The item is *)
(* one read of the origin, so its outcome is a function of the state.      *)
(***************************************************************************)
EXTENDS HttpAtomic

CONSTANTS
  Keys,    \* the executor key manifest
  Asked,   \* the deployment the reconciliation is about
  Stray    \* tokens an operator may offer that no call signed

A == INSTANCE Attestation WITH Leeway <- 0, GitRef <- <<>>

(* A key is something, a target to compare with is, and so is a token; no   *)
(* path reads as a preimage that names none.                                *)
SealedTokens ==
  [ whole : {TRUE}, kid : {"k"}, signer : {"key"},
    preimage : [jti : Jti, dep : {Configured}, mut : Pin \X Rep, target : Path] ]

ASSUME NoneIsNothing ==
  /\ None # "key" /\ A!NoField \notin Path
  /\ None \notin [kind : {"exact"}, value : Path]
  /\ None \notin SealedTokens

(* The manifest is that of the sidecar: what it says first of the kid under *)
(* which the sidecar signs is that its key is active.                       *)
ASSUME ManifestNamesTheSigner ==
  /\ Keys # None
  /\ DOMAIN Keys \subseteq Nat
  /\ \A i \in DOMAIN Keys : Keys[i] # None
  /\ \E i \in DOMAIN Keys :
       /\ Keys[i].kid = "k" /\ Keys[i].status = "active" /\ Keys[i].key = "key"
       /\ \A j \in DOMAIN Keys : j < i => Keys[j].kid # "k"

\* No key of the manifest that is in force, or was, signed a stray token.

ASSUME StrayAssumption ==
  \A t \in Stray, i \in DOMAIN Keys :
    t.whole /\ t.signer = Keys[i].key => Keys[i].status \notin {"active", "retired"}

\* Mutant: the preimage leaves out the resource.
TokenWithoutTarget(c) ==
  A!Token("k", "key", A!Preimage(req[c].jti, Configured, <<req[c].pin, req[c].body>>, A!NoField))

\* The token a call that sealed hands back, signed by the sidecar's key.
TokenOf(c) ==
  A!Token("k", "key", A!Preimage(req[c].jti, Configured, <<req[c].pin, req[c].body>>, req[c].path))

Signed == {TokenOf(c) : c \in {o \in Call : signed[o]}}

ItemType == [jti : Jti, path : Path, expects : Rep \cup {None}]

\* makeReadResource: the tag where there is one; a 404 is not ok.
Reading(p) == IF rep[p] \in Rep THEN rep[p] ELSE None

\* Mutant: the expected representation being there is proof enough.
LandedIsEnough(it, token) ==
  IF Reading(it.path) = it.expects THEN "CONFIRMED" ELSE "REJECTED"

\* The outcome reconcileHttp gives an item.
HttpOutcome(it, token) ==
  IF Reading(it.path) = None \/ it.expects = None THEN "INDETERMINATE"
  ELSE IF Reading(it.path) # it.expects
         THEN IF token = None THEN "REJECTED" ELSE "INDETERMINATE"
  ELSE IF token = None THEN "INDETERMINATE"
  ELSE IF A!VerifyStoredAttestation(token, it.jti, Asked, Keys, 0,
                                    A!Expected("exact", it.path)) = "ATTEST_VALID"
         THEN "CONFIRMED"
  ELSE "INDETERMINATE"
-----------------------------------------------------------------------------
(* CONFIRMED means that a write under this grant, by the deployment asked   *)
(* about, was applied to the resource asked about - whatever tokens the     *)
(* operator offers, and even when the call that signed only heard the       *)
(* remembered answer of another (reconcile.js 28-35, 566-590).              *)
ConfirmedIsProven ==
  \A it \in ItemType, token \in Signed \cup Stray \cup {None} :
    HttpOutcome(it, token) = "CONFIRMED" =>
      /\ Asked = Configured
      /\ \E c \in Call : /\ wrote[c] # None
                         /\ req[c].jti = it.jti /\ req[c].path = it.path

(* What was answered OK is confirmed by the caller's token as long as nobody*)
(* wrote anything else: there is no OK without its write (http-atomic.js    *)
(* 546-582).                                                                *)
SealedIsConfirmed ==
  \A c \in Call :
    /\ signed[c] /\ others = 0 /\ Asked = Configured
    /\ \A o \in Call : wrote[o] # None => req[o].body = req[c].body
    => HttpOutcome([jti |-> req[c].jti, path |-> req[c].path, expects |-> req[c].body],
                   TokenOf(c)) = "CONFIRMED"
=============================================================================
