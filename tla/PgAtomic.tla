------------------------------ MODULE PgAtomic ------------------------------
(***************************************************************************)
(* The Postgres executor: one write request is one READ COMMITTED          *)
(* transaction that an Express handler drives statement by statement       *)
(* (demo/src/atomic.js), through the SECURITY DEFINER gate                 *)
(* (demo/sql/gate.sql) and the sealing functions (demo/sql/seal.sql).      *)
(*                                                                         *)
(* A session is a request with its pooled client.  What other sessions     *)
(* can see is the committed database (articles, challenges, ledger,        *)
(* attestations); what a transaction has written and not yet committed is  *)
(* private to its session (row, mut, paper).  A statement that needs a row *)
(* or a key another transaction has locked waits until that transaction    *)
(* ends, and then reads what is committed.                                 *)
(***************************************************************************)
EXTENDS Naturals, Sequences, FiniteSets

CONSTANTS
  Session,       \* concurrent write requests, over every sidecar of the database
  Deployment,    \* deployment ids
  Jti,           \* grant identifiers
  Nonce,         \* state nonces handed out by POST /state-challenge
  Article,       \* article ids the sequence can hand out
  Content,       \* what an article row can hold (title, body, updated_at)
  InitArticle,   \* articles that exist when the service starts
  Grant,         \* the signed, unexpired grants the guard lets through
  DeploymentOf,  \* the deployment id each session's sidecar is configured with
  PoolSize,      \* clients of executorPool (db.js makePool: max 20)
  OwnerWrites,   \* TRUE when the table owner may write past the gate
  None           \* NULL: no row, no value; in a grant, not signed

NoTarget == "no target"    \* the '' target of POST /articles
Absent   == "absent"       \* the absent:<id> marker of currentDigest
Unborn   == "unborn"       \* an id the sequence has not handed out
Deleted  == "deleted"      \* an id whose row was deleted; it never returns
NoNonce == "no nonce"      \* no coderifts-state-nonce header

Target == Article \cup {NoTarget}
Key    == Deployment \X Jti
Digest == [target : Target, content : Content \cup {Absent}]

(* A grant as normalizeGrant reads it.  v1 signs the nonce itself and the   *)
(* target, v2 only the nonce's hash (its target is the whole table); v2 may *)
(* also sign the digest the issuer saw.                                     *)
GrantType ==
  [ version : {"v1", "v2"}, dep : Deployment, jti : Jti, nonce : Nonce,
    op : {"publish", "deploy"}, target : Target \cup {None},
    token : Digest \cup {None} ]

ASSUME PgConstants ==
  /\ Grant \subseteq GrantType
  /\ DeploymentOf \in [Session -> Deployment]
  /\ InitArticle \subseteq Article
  /\ Content # {}
  /\ PoolSize \in Nat \ {0}
  /\ OwnerWrites \in BOOLEAN
  /\ NoTarget \notin Article
  /\ {Absent, Unborn, Deleted} \cap Content = {}

KeyOf(g) == <<g.dep, g.jti>>

(* What the mutation touched: gate.sql's mut record.  A DELETE that finds   *)
(* no row leaves it NULL, and the digest is taken over empty strings.       *)
NoRowHit  == [id |-> NoTarget, content |-> Absent]
Mutation  == [id : Article, content : Content] \cup {NoRowHit}
Preimage  == [key : Key, mut : Mutation, target : Target]
Signature == [signed : Preimage]
Token     == [preimage : Preimage, signature : Signature]

LedgerRow == [ status : {"consumed", "sealed"},
               preimage : Preimage \cup {None},
               ref : Signature \cup {None} ]

Challenge == [ target : Target, digest : Digest, expired : BOOLEAN,
               consumed : BOOLEAN ]

Request == [grant : Grant, target : Target]

Status ==
  { "OK", "DEPLOYMENT_MISMATCH", "STATE_NONCE_REQUIRED", "STATE_NONCE_UNBOUND",
    "STATE_CHALLENGE_UNKNOWN", "STATE_CHALLENGE_EXPIRED",
    "STATE_CHALLENGE_TARGET_MISMATCH", "STATE_DRIFT", "STATE_TOKEN_MISMATCH",
    "GRANT_CONSUMED", "STATE_CHALLENGE_CONSUMED", "SEAL_FAILED" }

Reply == [key : Key, nonce : Nonce, status : Status]

ASSUME NullIsNoRow ==
  None \notin Digest \cup Challenge \cup LedgerRow \cup Mutation \cup Token
            \cup Preimage \cup Signature \cup Request \cup Reply \cup Status

(* The rows and index entries a transaction can hold locked.               *)
Lockable == ({"challenge"} \X Nonce) \cup ({"grant"} \X Key)
              \cup ({"article"} \X Article)

VARIABLES
  \* committed database
  articles,      \* articles[a]: contents of the row, Unborn or Deleted
  challenges,    \* state_challenges by nonce, None before the INSERT
  ledger,        \* consumed_grants by (deployment_id, jti), None when no row
  attestations,  \* attestations rows of each key, in insertion order
  \* the /state-challenge handler, between its SELECT and its INSERT
  drafts,
  \* sessions
  pc,            \* the next statement of each session
  req,           \* the grant and target of the request
  seen,          \* gate.sql's ch record: the challenge as read under its lock
  locks,         \* what the transaction holds locked until it ends
  row,           \* the transaction's own version of its ledger row
  mut,           \* the transaction's own write to articles
  paper,         \* the transaction's own attestations row
  reply,         \* the answer to the session's last request
  \* history, for the properties only
  effects,       \* the committed mutations of each key, in commit order
  spentBy        \* the keys that committed against each nonce

dbVars  == <<articles, challenges, ledger, attestations>>
txVars  == <<req, seen, locks, row, mut, paper>>
history == <<effects, spentBy>>
vars    == <<dbVars, drafts, pc, txVars, reply, history>>
-----------------------------------------------------------------------------
InTransaction == {"lock", "cas", "claim", "mutate", "seal", "persist", "commit", "abort"}

(* The digest of a target's committed row (db.js rowDigestSql and the same  *)
(* expression in gate.sql).                                                 *)
DigestOf(t) ==
  [ target  |-> t,
    content |-> IF t \in Article /\ articles[t] \in Content
                  THEN articles[t] ELSE Absent ]

\* Mutant: the claim and the DELETE do not wait for other transactions.
NoWait(s, r) == TRUE

\* No other transaction holds r.
Free(s, r) == \A o \in Session \ {s} : r \notin locks[o]

\* Clients of executorPool that are checked out.
InUse == {s \in Session : pc[s] \in InTransaction}

GrantOf(s) == req[s].grant
ReplyOf(s, status) ==
  [key |-> KeyOf(GrantOf(s)), nonce |-> GrantOf(s).nonce, status |-> status]

-----------------------------------------------------------------------------
Init ==
  /\ articles \in [Article -> Content \cup {Unborn}]
  /\ \A a \in Article : articles[a] = Unborn <=> a \notin InitArticle
  /\ challenges   = [n \in Nonce |-> None]
  /\ ledger       = [k \in Key |-> None]
  /\ attestations = [k \in Key |-> <<>>]
  /\ drafts = [n \in Nonce |-> None]
  /\ pc    = [s \in Session |-> "idle"]
  /\ req   = [s \in Session |-> None]
  /\ seen  = [s \in Session |-> None]
  /\ locks = [s \in Session |-> {}]
  /\ row   = [s \in Session |-> None]
  /\ mut   = [s \in Session |-> None]
  /\ paper = [s \in Session |-> None]
  /\ reply = [s \in Session |-> None]
  /\ effects = [k \in Key |-> <<>>]
  /\ spentBy = [n \in Nonce |-> {}]
-----------------------------------------------------------------------------
(* POST /state-challenge: a SELECT of the digest and an INSERT of the       *)
(* challenge, two statements with nothing between them but time.            *)
MeasureState(n, t) ==
  /\ drafts[n] = None
  /\ drafts' = [drafts EXCEPT ![n] = DigestOf(t)]
  /\ UNCHANGED <<dbVars, pc, txVars, reply, history>>

IssueChallenge(n) ==
  /\ drafts[n] # None
  /\ challenges[n] = None
  /\ challenges' = [challenges EXCEPT ![n] =
       [ target |-> drafts[n].target, digest |-> drafts[n],
         expired |-> FALSE, consumed |-> FALSE ]]
  /\ UNCHANGED <<articles, ledger, attestations, drafts, pc, txVars, reply, history>>

\* The clock passes a challenge's expires_at.
ChallengeExpires(n) ==
  /\ challenges[n] # None
  /\ ~challenges[n].expired
  /\ challenges' = [challenges EXCEPT ![n] =
       [ target |-> @.target, digest |-> @.digest,
         expired |-> TRUE, consumed |-> @.consumed ]]
  /\ UNCHANGED <<articles, ledger, attestations, drafts, pc, txVars, reply, history>>

(* A superuser or a member of cr_owner edits or deletes a row directly:     *)
(* the out-of-band write the challenge is there to notice.                  *)
OwnerWrite(a) ==
  /\ OwnerWrites
  /\ articles[a] \in Content
  /\ \A s \in Session : <<"article", a>> \notin locks[s]
  /\ \E c \in (Content \cup {Deleted}) \ {articles[a]} :
       articles' = [articles EXCEPT ![a] = c]
  /\ UNCHANGED <<challenges, ledger, attestations, drafts, pc, txVars, reply, history>>
-----------------------------------------------------------------------------
\* The transaction ends without a commit; its writes and locks are gone.
EndSession(s) ==
  /\ pc'    = [pc    EXCEPT ![s] = "idle"]
  /\ req'   = [req   EXCEPT ![s] = None]
  /\ seen'  = [seen  EXCEPT ![s] = None]
  /\ locks' = [locks EXCEPT ![s] = {}]
  /\ row'   = [row   EXCEPT ![s] = None]
  /\ mut'   = [mut   EXCEPT ![s] = None]
  /\ paper' = [paper EXCEPT ![s] = None]

(* An ATOMIC grant reaches the handler, for the route of its operation and, *)
(* where it signs one, its target: the guard saw to that.  The header       *)
(* carries presented.                                                       *)
PreGateRefusal(s, g, presented) ==
  IF g.dep # DeploymentOf[s] THEN "DEPLOYMENT_MISMATCH"
  ELSE IF g.version = "v1" THEN None
  ELSE IF presented = NoNonce THEN "STATE_NONCE_REQUIRED"
  ELSE IF presented # g.nonce THEN "STATE_NONCE_UNBOUND"
  ELSE None

Receive(s, g, t, presented) ==
  /\ pc[s] = "idle"
  /\ (t = NoTarget) <=> (g.op = "publish")
  /\ g.target \in {None, t}
  /\ LET refusal == PreGateRefusal(s, g, presented) IN
     \/ /\ refusal = None
        /\ pc'    = [pc EXCEPT ![s] = "connect"]
        /\ req'   = [req EXCEPT ![s] = [grant |-> g, target |-> t]]
        /\ reply' = [reply EXCEPT ![s] = None]
     \/ /\ refusal # None
        /\ reply' = [reply EXCEPT ![s] =
             [key |-> KeyOf(g), nonce |-> g.nonce, status |-> refusal]]
        /\ UNCHANGED <<pc, req>>
  /\ UNCHANGED <<dbVars, drafts, seen, locks, row, mut, paper, history>>

\* pool.connect(), which waits for a free client, and BEGIN.
Connect(s) ==
  /\ pc[s] = "connect"
  /\ Cardinality(InUse) < PoolSize
  /\ pc' = [pc EXCEPT ![s] = "lock"]
  /\ UNCHANGED <<dbVars, drafts, txVars, reply, history>>

\* The gate returned ok = false; atomicExecute still has to send ROLLBACK.
Refuse(s, status) ==
  /\ pc'    = [pc EXCEPT ![s] = "abort"]
  /\ reply' = [reply EXCEPT ![s] = ReplyOf(s, status)]

\* SELECT ... FOR UPDATE of the challenge, and the checks on what it read.
LockRefusal(s, ch) ==
  IF ch = None THEN "STATE_CHALLENGE_UNKNOWN"
  ELSE IF ch.expired THEN "STATE_CHALLENGE_EXPIRED"
  ELSE IF ch.target # req[s].target THEN "STATE_CHALLENGE_TARGET_MISMATCH"
  ELSE None

\* What SELECT ... FOR UPDATE of the challenge locks.
ChallengeLock(n) == {<<"challenge", n>>}

LockChallenge(s) ==
  /\ pc[s] = "lock"
  /\ LET n  == GrantOf(s).nonce
         ch == challenges[n]
         r  == <<"challenge", n>>
         refusal == LockRefusal(s, ch)
     IN /\ ch # None => Free(s, r)
        /\ locks' = [locks EXCEPT ![s] = IF ch = None THEN @ ELSE @ \cup ChallengeLock(n)]
        /\ seen'  = [seen EXCEPT ![s] = ch]
        /\ \/ /\ refusal = None
              /\ pc' = [pc EXCEPT ![s] = "cas"]
              /\ UNCHANGED reply
           \/ refusal # None /\ Refuse(s, refusal)
  /\ UNCHANGED <<dbVars, drafts, req, row, mut, paper, history>>

(* The state comparison: an unlocked read of the target's row in a snapshot *)
(* of its own, then the digest the issuer signed.                           *)
CompareState(s) ==
  /\ pc[s] = "cas"
  /\ LET g == GrantOf(s) IN
     \/ /\ DigestOf(req[s].target) # seen[s].digest
        /\ Refuse(s, "STATE_DRIFT")
     \/ /\ DigestOf(req[s].target) = seen[s].digest
        /\ g.token # None /\ g.token # seen[s].digest
        /\ Refuse(s, "STATE_TOKEN_MISMATCH")
     \/ /\ DigestOf(req[s].target) = seen[s].digest
        /\ g.token \in {None, seen[s].digest}
        /\ pc' = [pc EXCEPT ![s] = "claim"]
        /\ UNCHANGED reply
  /\ UNCHANGED <<dbVars, drafts, txVars, history>>

\* Mutant: the stamp is looked at before the INSERT instead of after it.
SpentByAnother(s) == ledger[KeyOf(GrantOf(s))] # None /\ ~seen[s].consumed

\* The INSERT finds the primary key taken by a committed row.
Spent(s) == ledger[KeyOf(GrantOf(s))] # None

\* Mutant: the challenge's stamp is never looked at.
NeverReused(s) == FALSE

\* The challenge, as read under its lock, bears the stamp of an execution.
Reused(s) == seen[s].consumed

(* INSERT INTO consumed_grants: waits for an uncommitted row of the same    *)
(* primary key, fails on a committed one.  Then the stamp read at the lock. *)
ClaimGrant(s) ==
  /\ pc[s] = "claim"
  /\ LET r == <<"grant", KeyOf(GrantOf(s))>>
     IN /\ Free(s, r)
        /\ \/ /\ Spent(s)
              /\ Refuse(s, "GRANT_CONSUMED")
              /\ UNCHANGED <<locks, row>>
           \/ /\ ~Spent(s)
              /\ locks' = [locks EXCEPT ![s] = @ \cup {r}]
              /\ row'   = [row EXCEPT ![s] =
                   [status |-> "consumed", preimage |-> None, ref |-> None]]
              /\ \/ Reused(s) /\ Refuse(s, "STATE_CHALLENGE_CONSUMED")
                 \/ /\ ~Reused(s)
                    /\ pc' = [pc EXCEPT ![s] = "mutate"]
                    /\ UNCHANGED reply
  /\ UNCHANGED <<dbVars, drafts, req, seen, mut, paper, history>>

\* Mutant: a preimage that leaves the requested target out.
UntargetedPreimage(s, m) == [key |-> KeyOf(GrantOf(s)), mut |-> m]

\* Mutant: a preimage of the row as the issuer measured it.
MeasuredPreimage(s, m) ==
  [ key |-> KeyOf(GrantOf(s)), target |-> req[s].target,
    mut |-> [id |-> seen[s].digest.target, content |-> seen[s].digest.content] ]

\* What the gate writes down of a mutation m, and returns to be signed.
GatePreimage(s, m) ==
  [key |-> KeyOf(GrantOf(s)), mut |-> m, target |-> req[s].target]

(* The rest of the gate: publish inserts a row under a fresh id; deploy     *)
(* waits for the row's lock and deletes it, or deletes nothing when no row  *)
(* is there any more.  The stamp on the challenge and the preimage go to    *)
(* rows the transaction already holds, so nobody can tell them apart in     *)
(* time.  (The sequence also burns ids of transactions that roll back;      *)
(* nobody ever sees those.)                                                 *)
Write(s, m, held) ==
  /\ mut'   = [mut EXCEPT ![s] = m]
  /\ locks' = [locks EXCEPT ![s] = @ \cup held]
  /\ row'   = [row EXCEPT ![s] =
       [status |-> @.status, ref |-> @.ref, preimage |-> GatePreimage(s, m)]]

Publish(s, a, c) ==
  /\ GrantOf(s).op = "publish"
  /\ articles[a] = Unborn
  /\ Free(s, <<"article", a>>)
  /\ Write(s, [id |-> a, content |-> c], {<<"article", a>>})

\* Mutant: the DELETE acts on the row the challenge saw, locked or not.
DeleteMeasuredRow(s, a) ==
  /\ GrantOf(s).op = "deploy"
  /\ seen[s].digest.content # Absent
  /\ Write(s, [id |-> a, content |-> seen[s].digest.content], {})

DeleteRow(s, a) ==
  /\ GrantOf(s).op = "deploy"
  /\ articles[a] \in Content
  /\ Free(s, <<"article", a>>)
  /\ Write(s, [id |-> a, content |-> articles[a]], {<<"article", a>>})

DeleteNothing(s, a) ==
  /\ GrantOf(s).op = "deploy"
  /\ articles[a] \notin Content
  /\ Write(s, NoRowHit, {})

Mutate(s) ==
  /\ pc[s] = "mutate"
  /\ \/ \E a \in Article, c \in Content : Publish(s, a, c)
     \/ req[s].target \in Article /\ DeleteRow(s, req[s].target)
     \/ req[s].target \in Article /\ DeleteNothing(s, req[s].target)
  /\ pc' = [pc EXCEPT ![s] = "seal"]
  /\ UNCHANGED <<dbVars, drafts, req, seen, paper, reply, history>>

\* An exception in the try block: the server aborts the transaction.
Raise(s) ==
  /\ reply' = [reply EXCEPT ![s] = ReplyOf(s, "SEAL_FAILED")]
  /\ EndSession(s)

(* The preimage the gate returned for the transaction's own write, the      *)
(* process's signature over it, and the token that carries both.            *)
PreimageOf(s) == GatePreimage(s, mut[s])

Sign(pre) == [signed |-> pre]
TokenOf(s) == [preimage |-> PreimageOf(s), signature |-> Sign(PreimageOf(s))]

\* The process signs the preimage the gate returned; cap_seal binds it.
Seal(s) ==
  /\ pc[s] = "seal"
  /\ LET pre == PreimageOf(s)
     IN \/ /\ row[s].status = "consumed" /\ row[s].ref = None
           /\ row[s].preimage = pre
           /\ row' = [row EXCEPT ![s] =
                [status |-> "sealed", preimage |-> @.preimage, ref |-> Sign(pre)]]
           /\ pc'  = [pc EXCEPT ![s] = "persist"]
           /\ UNCHANGED <<req, seen, locks, mut, paper, reply>>
        \/ /\ row[s].status # "consumed" \/ row[s].ref # None \/ row[s].preimage # pre
           /\ Raise(s)
  /\ UNCHANGED <<dbVars, drafts, history>>

\* cap_persist_attestation: the token must carry this row's preimage and ref.
Persist(s) ==
  /\ pc[s] = "persist"
  /\ LET tok == TokenOf(s)
         accepted == /\ row[s].status = "sealed"
                     /\ row[s].preimage = tok.preimage
                     /\ row[s].ref = tok.signature
                     /\ attestations[KeyOf(GrantOf(s))] = <<>>
     IN \/ /\ accepted
           /\ paper' = [paper EXCEPT ![s] = tok]
           /\ pc'    = [pc EXCEPT ![s] = "commit"]
           /\ UNCHANGED <<req, seen, locks, row, mut, reply>>
        \/ ~accepted /\ Raise(s)
  /\ UNCHANGED <<dbVars, drafts, history>>

\* Mutant: the token is kept for a later transaction.
AttestedLater(s, k) == UNCHANGED attestations

\* The row of cap_persist_attestation.
Attested(s, k) == attestations' = [attestations EXCEPT ![k] = Append(@, paper[s])]

\* What the transaction wrote becomes what is committed.
MakeVisible(s) ==
  LET g == GrantOf(s)
      k == KeyOf(g)
      m == mut[s]
  IN /\ articles' = IF m = NoRowHit THEN articles
                    ELSE [articles EXCEPT ![m.id] =
                            IF g.op = "publish" THEN m.content ELSE Deleted]
     /\ challenges'   = [challenges EXCEPT ![g.nonce] =
          [ target |-> @.target, digest |-> @.digest,
            expired |-> @.expired, consumed |-> TRUE ]]
     /\ ledger'       = [ledger EXCEPT ![k] = row[s]]
     /\ Attested(s, k)
     /\ effects'      = [effects EXCEPT ![k] = Append(@, m)]
     /\ spentBy'      = [spentBy EXCEPT ![g.nonce] = @ \cup {k}]

\* COMMIT, unless the deferred trigger still finds the row unsealed.
Commit(s) ==
  /\ pc[s] = "commit"
  /\ row[s].status = "sealed"
  /\ MakeVisible(s)
  /\ reply' = [reply EXCEPT ![s] = ReplyOf(s, "OK")]
  /\ EndSession(s)
  /\ UNCHANGED drafts

(* The server commits and the connection or the process dies before the     *)
(* answer: the caller hears SEAL_FAILED, or nothing.                        *)
CommitUnacknowledged(s) ==
  /\ pc[s] = "commit"
  /\ row[s].status = "sealed"
  /\ MakeVisible(s)
  /\ \E answer \in {ReplyOf(s, "SEAL_FAILED"), None} :
       reply' = [reply EXCEPT ![s] = answer]
  /\ EndSession(s)
  /\ UNCHANGED drafts

\* Mutant: the client goes back to the pool with its transaction open.
ReleaseWithoutRollback(s) ==
  /\ pc[s] = "abort"
  /\ pc'  = [pc EXCEPT ![s] = "idle"]
  /\ req' = [req EXCEPT ![s] = None]
  /\ UNCHANGED <<dbVars, drafts, seen, locks, row, mut, paper, reply, history>>

\* ROLLBACK after a refusal of the gate; the reply is already decided.
Rollback(s) ==
  /\ pc[s] = "abort"
  /\ EndSession(s)
  /\ UNCHANGED <<dbVars, drafts, reply, history>>

(* A statement of the transaction fails (connection lost before COMMIT took *)
(* effect, signing error, deferred trigger, a ROLLBACK that cannot be       *)
(* sent): the catch block answers.                                          *)
StatementFails(s) ==
  /\ pc[s] \in InTransaction
  /\ Raise(s)
  /\ UNCHANGED <<dbVars, drafts, history>>

\* The process dies with the request open, or has no database to connect to.
ProcessDies(s) ==
  /\ pc[s] \in InTransaction \cup {"connect"}
  /\ EndSession(s)
  /\ reply' = [reply EXCEPT ![s] = None]
  /\ UNCHANGED <<dbVars, drafts, history>>
-----------------------------------------------------------------------------
Step(s) ==
  \/ Connect(s)
  \/ LockChallenge(s)
  \/ CompareState(s)
  \/ ClaimGrant(s)
  \/ Mutate(s)
  \/ Seal(s)
  \/ Persist(s)
  \/ Commit(s)
  \/ Rollback(s)

Next ==
  \/ \E n \in Nonce, t \in Target : MeasureState(n, t)
  \/ \E n \in Nonce : IssueChallenge(n)
  \/ \E n \in Nonce : ChallengeExpires(n)
  \/ \E a \in Article : OwnerWrite(a)
  \/ \E s \in Session, g \in Grant, t \in Target, p \in Nonce \cup {NoNonce} :
       Receive(s, g, t, p)
  \/ \E s \in Session : Step(s)
  \/ \E s \in Session : CommitUnacknowledged(s)
  \/ \E s \in Session : StatementFails(s)
  \/ \E s \in Session : ProcessDies(s)

Spec == Init /\ [][Next]_vars

(* Express runs a handler until it answers, and Postgres queues the waiters *)
(* of a lock in arrival order, so a session whose statement is again and    *)
(* again possible is not passed over for ever.  Nothing is assumed of       *)
(* clients, owners, clocks, failures or crashes.                            *)
Fairness == \A s \in Session : SF_vars(Step(s))

FairSpec == Spec /\ Fairness
-----------------------------------------------------------------------------
(* Every variable has its type; in particular a committed row is a whole    *)
(* row and locks are only ever held on lockable things.                     *)
TypeOK ==
  /\ articles \in [Article -> Content \cup {Unborn, Deleted}]
  /\ challenges \in [Nonce -> Challenge \cup {None}]
  /\ ledger \in [Key -> LedgerRow \cup {None}]
  /\ attestations \in [Key -> Seq(Token)]
  /\ drafts \in [Nonce -> Digest \cup {None}]
  /\ pc \in [Session -> InTransaction \cup {"idle", "connect"}]
  /\ req \in [Session -> Request \cup {None}]
  /\ seen \in [Session -> Challenge \cup {None}]
  /\ locks \in [Session -> SUBSET Lockable]
  /\ row \in [Session -> LedgerRow \cup {None}]
  /\ mut \in [Session -> Mutation \cup {None}]
  /\ paper \in [Session -> Token \cup {None}]
  /\ reply \in [Session -> Reply \cup {None}]
  /\ effects \in [Key -> Seq(Mutation)]
  /\ spentBy \in [Nonce -> SUBSET Key]

(* A grant moves the database at most once, however many sessions present   *)
(* it and whatever fails in between: the primary key of consumed_grants is  *)
(* claimed in the transaction that mutates (gate.sql 121-128).              *)
OneUse ==
  \A k \in Key : /\ Len(effects[k]) <= 1
                 /\ ledger[k] = None <=> effects[k] = <<>>

(* A nonce authorises one committed execution even when several grants were *)
(* signed over it: the challenge stays locked from its read to the commit   *)
(* that stamps it (gate.sql 74-78, 132, 150).                               *)
NonceSingleUse ==
  \A n \in Nonce :
    /\ \A k1, k2 \in spentBy[n] : k1 = k2
    /\ spentBy[n] # {} <=> challenges[n] # None /\ challenges[n].consumed

(* Every committed consumption has exactly one stored attestation, over     *)
(* that row's own preimage and reference, and the preimage names the key    *)
(* and the mutation that really happened (seal.sql 61-93, 198-246).         *)
EvidenceBindsEffect ==
  \A k \in Key : ledger[k] # None =>
    /\ ledger[k].status = "sealed"
    /\ attestations[k] = <<[ preimage  |-> ledger[k].preimage,
                             signature |-> ledger[k].ref ]>>
    /\ ledger[k].ref = Sign(ledger[k].preimage)
    /\ ledger[k].preimage.key = k
    /\ effects[k] = <<ledger[k].preimage.mut>>

(* What the caller is told is so: OK means its own grant committed, with    *)
(* evidence; GRANT_CONSUMED means this very grant is spent; a reused nonce  *)
(* is blamed on another grant, never on the caller's own replay (the order  *)
(* gate.sql 130-135 argues for).                                            *)
ReplyTruthful ==
  \A s \in Session : reply[s] # None =>
    LET k == reply[s].key
        n == reply[s].nonce
    IN CASE reply[s].status = "OK" ->
              ledger[k] # None /\ k \in spentBy[n] /\ Len(attestations[k]) = 1
         [] reply[s].status = "GRANT_CONSUMED" -> ledger[k] # None
         [] reply[s].status = "STATE_CHALLENGE_CONSUMED" ->
              \E k2 \in spentBy[n] : k2 # k
         [] OTHER -> TRUE

(* When a grant without a row has none for good: once every nonce it could  *)
(* be used over bears a stamp.  Until then a reconciliation that finds no   *)
(* row may be overtaken, by a transaction that is open, even if its         *)
(* challenge has expired since (gate.sql 74-78, 132; reconcile.js 487-494). *)
NoUseLeft(k) ==
  ledger[k] = None /\ \A g \in Grant : KeyOf(g) = k =>
    challenges[g.nonce] # None /\ challenges[g.nonce].consumed

RejectionIsFinal ==
  [][\A k \in Key : NoUseLeft(k) => NoUseLeft(k)']_vars

(* No two attestations claim the same removal, or the same creation, of an  *)
(* article: the DELETE takes the row's lock and the loser of a race deletes *)
(* nothing and signs that it deleted nothing (gate.sql 139-144, 158-170).   *)
RowsTouchedOnce ==
  \A k1, k2 \in {k \in Key : ledger[k] # None} :
    LET p1 == ledger[k1].preimage
        p2 == ledger[k2].preimage
    IN /\ p1.mut.id = p2.mut.id /\ p1.mut.id # NoTarget
       /\ (p1.target = NoTarget) <=> (p2.target = NoTarget)
       => k1 = k2

(* No transaction waits in a circle: challenge, then grant, then article is *)
(* the order in which every session takes its locks.                        *)
Awaits(s) ==
  CASE pc[s] = "lock"   -> {<<"challenge", GrantOf(s).nonce>>}
    [] pc[s] = "claim"  -> {<<"grant", KeyOf(GrantOf(s))>>}
    [] pc[s] = "mutate" /\ GrantOf(s).op = "deploy" -> {<<"article", req[s].target>>}
    [] OTHER -> {}

\* Two transactions never hold the same row or key.
LocksExclusive ==
  \A s, o \in Session : s # o => locks[s] \cap locks[o] = {}

LockOrder == [challenge |-> 1, grant |-> 2, article |-> 3]

NoLockCycle ==
  /\ LocksExclusive
  /\ \A s \in Session : \A w \in Awaits(s), h \in locks[s] :
       LockOrder[h[1]] < LockOrder[w[1]]

(* Every request that entered the handler is answered, even with one pooled *)
(* client and every session after the same rows.                            *)
EveryRequestEnds ==
  \A s \in Session : pc[s] # "idle" ~> pc[s] = "idle"

(* Why the safety properties are inductive.  A session past its claim holds *)
(* the challenge and the key locked, so what it read under those locks is   *)
(* still what is committed; its private row goes from consumed to sealed    *)
(* over the preimage of its own write.                                      *)
SessionInv(s) ==
  LET n == GrantOf(s).nonce
      k == KeyOf(GrantOf(s))
  IN /\ pc[s] # "idle" => req[s] # None
     /\ pc[s] \in {"cas", "claim", "mutate", "seal", "persist", "commit"} =>
          /\ <<"challenge", n>> \in locks[s]
          /\ seen[s] # None /\ challenges[n] # None
          /\ seen[s].consumed = challenges[n].consumed
     /\ pc[s] \in {"mutate", "seal", "persist", "commit"} =>
          /\ <<"grant", k>> \in locks[s]
          /\ ledger[k] = None /\ row[s] # None /\ ~seen[s].consumed
     /\ pc[s] \in {"mutate", "seal"} =>
          row[s].status = "consumed" /\ row[s].ref = None
     /\ pc[s] \in {"seal", "persist", "commit"} =>
          mut[s] # None /\ row[s].preimage = PreimageOf(s)
     /\ pc[s] \in {"persist", "commit"} =>
          row[s].status = "sealed" /\ row[s].ref = Sign(PreimageOf(s))
     /\ pc[s] = "commit" => paper[s] = TokenOf(s)

\* No evidence without a committed row.
NoStrayEvidence == \A k \in Key : ledger[k] = None => attestations[k] = <<>>

(* Locks are taken in the order of the stages: nothing before the first     *)
(* SELECT, only the challenge before the INSERT, no row before the mutation.*)
StageLocks(s) ==
  /\ pc[s] \in {"idle", "connect", "lock"} => locks[s] = {}
  /\ pc[s] \in {"cas", "claim"} => \A h \in locks[s] : h[1] = "challenge"
  /\ pc[s] = "mutate" => \A h \in locks[s] : h[1] \in {"challenge", "grant"}

(* An uncommitted mutation keeps its row locked, so the row is still what   *)
(* the mutation found.                                                      *)
SessionRow(s) ==
  LET a == mut[s].id
  IN /\ pc[s] # "idle" => (req[s].target = NoTarget <=> GrantOf(s).op = "publish")
     /\ pc[s] \in {"seal", "persist", "commit"} /\ a # NoTarget =>
          /\ <<"article", a>> \in locks[s]
          /\ IF GrantOf(s).op = "publish"
               THEN articles[a] = Unborn /\ mut[s].content \in Content
               ELSE articles[a] \in Content

\* A committed creation is no id still to be handed out; a removal is final.
CommittedRows ==
  \A k \in Key : ledger[k] # None /\ ledger[k].preimage.mut.id # NoTarget =>
    IF ledger[k].preimage.target = NoTarget
      THEN articles[ledger[k].preimage.mut.id] # Unborn
      ELSE articles[ledger[k].preimage.mut.id] = Deleted

IInv ==
  /\ TypeOK
  /\ LocksExclusive
  /\ \A s \in Session : SessionInv(s)
  /\ \A s \in Session : StageLocks(s) /\ SessionRow(s)
  /\ CommittedRows
  /\ RowsTouchedOnce
  /\ OneUse
  /\ NonceSingleUse
  /\ EvidenceBindsEffect
  /\ NoStrayEvidence

\* The mutations that a sequence of tokens speaks of.
Spoken(tokens) == [i \in DOMAIN tokens |-> tokens[i].preimage.mut]

(* The executor implements the abstract ledger in its strict form: the      *)
(* mutation, the consumption and the evidence become visible in one step.   *)
Promise == INSTANCE OneUseLedger WITH
  Effect <- Mutation, AtomicEvidence <- TRUE, applied <- effects,
  evidence <- [k \in Key |-> Spoken(attestations[k])]

ImplementsOneUseLedger == Promise!Spec

(* What db.js 100-101 and the README say of the challenge: the executor     *)
(* compares and swaps against the state the issuer saw, at commit time.     *)
CommitsOnlyOnChallengedState ==
  [][\A k \in Key, s \in Session :
       effects'[k] # effects[k] /\ pc[s] = "commit" /\ pc'[s] = "idle"
         => DigestOf(req[s].target) = seen[s].digest]_vars
=============================================================================
