------------------------------ MODULE PgReaders ------------------------------
(***************************************************************************)
(* What is read back from the Postgres executor while it works: a          *)
(* reconciliation (reconcilePostgres in reconcile.js) and an audit export  *)
(* (audit-export.js over cap_export_attestations in seal.sql), each a few  *)
(* statements with transactions committing in between; and the clock, the  *)
(* serial ids and the executor key that give attestations their dates,     *)
(* their order and their kid.                                              *)
(***************************************************************************)
EXTENDS PgAtomic

CONSTANTS
  MaxClock,     \* bound: ticks of the clock
  MaxId,        \* bound: ids the attestations sequence hands out
  Windows,      \* the [since, until) an export may ask for, None for open
  Limits,       \* the --limit an export may ask for
  Handed,       \* the target each nonce was handed out for before the first request
  KeyLeeway     \* the leeway of a key's window, in ticks

A == INSTANCE Attestation WITH Leeway <- KeyLeeway, GitRef <- <<>>

\* The two executor keys, one of them retired or both active.
ManifestEntry ==
  [ kid : {"new", "old"}, status : {"active", "retired"},
    from : Nat \cup {None}, until : Nat \cup {None}, key : {"new key", "old key"} ]

ASSUME ReadersConstants ==
  /\ IsFiniteSet(Key)
  /\ Handed \in [Nonce -> Target]
  /\ Limits \subseteq Nat \ {0}
  /\ Windows \subseteq [since : Nat \cup {None}, until : Nat \cup {None}]
  /\ KeyLeeway \in Nat
  /\ None \notin Nat \cup {"new key", "old key"}
  /\ None \notin ManifestEntry \cup (ManifestEntry \X ManifestEntry)
  /\ A!NoField \notin Target

VARIABLES
  clock,     \* the database's clock
  began,     \* now() of each open transaction: when it began
  serial,    \* the id each transaction took for its attestations row
  nextId,    \* the sequence of attestations.id: it is never rolled back
  stored,    \* created_at, id and kid of each committed attestations row
  retired,   \* when the first executor key was retired, None while active
  reader     \* one reader: a reconciliation or an export

columnVars == <<began, serial, nextId, stored>>
readerVars == <<clock, columnVars, retired, reader>>
allVars    == <<vars, readerVars>>

Nobody == [kind |-> "none"]

\* A database whose challenges have just been issued, and not used.
InitReaders ==
  /\ articles = [a \in Article |-> IF a \in InitArticle THEN CHOOSE c \in Content : TRUE ELSE Unborn]
  /\ drafts = [n \in Nonce |-> DigestOf(Handed[n])]
  /\ challenges = [n \in Nonce |->
       [target |-> Handed[n], digest |-> drafts[n], expired |-> FALSE, consumed |-> FALSE]]
  /\ ledger       = [k \in Key |-> None]
  /\ attestations = [k \in Key |-> <<>>]
  /\ pc    = [s \in Session |-> "idle"]
  /\ locks = [s \in Session |-> {}]
  /\ reply = [s \in Session |-> None]
  /\ req   = reply
  /\ seen  = reply
  /\ row   = reply
  /\ mut   = reply
  /\ paper = reply
  /\ effects = [k \in Key |-> <<>>]
  /\ spentBy = [n \in Nonce |-> {}]
  /\ clock = 0
  /\ began  = [s \in Session |-> None]
  /\ serial = [s \in Session |-> None]
  /\ nextId = 1
  /\ stored = [k \in Key |-> None]
  /\ retired = None
  /\ reader = Nobody
-----------------------------------------------------------------------------
\* The key the sidecars sign with; the manifest beside it.
Kid == IF retired = None THEN "old" ELSE "new"

ExecutorKeys ==
  << A!KeyEntry("new", "active", None, None, "new key"),
     A!KeyEntry("old", IF retired = None THEN "active" ELSE "retired", 0, retired, "old key") >>

\* Rotation: every sidecar restarts with the new key, the old one is retired.
Rotate ==
  /\ retired = None
  /\ InUse = {}
  /\ retired' = clock
  /\ UNCHANGED <<vars, clock, columnVars, reader>>

Tick ==
  /\ clock < MaxClock
  /\ clock' = clock + 1
  /\ UNCHANGED <<vars, columnVars, retired, reader>>

Begins(s)  == pc[s] = "connect" /\ pc'[s] = "lock"
Inserts(s) == pc[s] = "persist" /\ pc'[s] = "commit"
Ends(s)    == pc'[s] \in {"idle", "connect"}

\* created_at defaults to now(): the time the transaction began.
CreatedAt(s) == began[s]

(* What the columns get while a step of PgAtomic is taken: now() at BEGIN,  *)
(* the id at the INSERT, and all of it visible at the commit.               *)
Columns ==
  /\ began' = [s \in Session |->
       IF Begins(s) THEN clock ELSE IF Ends(s) THEN None ELSE began[s]]
  /\ serial' = [s \in Session |->
       IF Inserts(s) THEN nextId ELSE IF Ends(s) THEN None ELSE serial[s]]
  /\ nextId' = IF \E s \in Session : Inserts(s) THEN nextId + 1 ELSE nextId
  /\ nextId' <= MaxId
  /\ stored' = [k \in Key |->
       IF attestations'[k] = attestations[k] THEN stored[k]
       ELSE LET s == CHOOSE s \in Session : pc[s] = "commit" /\ pc'[s] = "idle"
            IN [at |-> CreatedAt(s), id |-> serial[s], kid |-> Kid] ]

Work == Next /\ Columns /\ UNCHANGED <<clock, retired, reader>>
-----------------------------------------------------------------------------
(* reconcilePostgres for one jti: the ledger row, then, if there is one,    *)
(* the attestation.  spent is history: whether the grant was spent when the *)
(* row was read.                                                            *)
Audit(k, stage, ledgerRow, spent, entry) ==
  [ kind |-> "audit", stage |-> stage, key |-> k, row |-> ledgerRow,
    spent |-> spent, entry |-> entry ]

\* WHERE deployment_id = $1 AND jti = $2.
RowOfKey(k) == ledger[k]

ReadLedger(k) ==
  /\ reader = Nobody
  /\ reader' =
       LET found == RowOfKey(k)
       IN IF found = None
            THEN Audit(k, "done", None, effects[k] # <<>>, A!Entry(k[2], "REJECTED", None))
            ELSE Audit(k, "token", found, effects[k] # <<>>, None)
  /\ UNCHANGED <<vars, clock, columnVars, retired>>

(* The stored token as the verifier sees it.  A genuine signature signs the *)
(* preimage that is carried.                                                *)
StoredToken(k) ==
  LET t == attestations[k][1]
  IN A!Token(stored[k].kid,
             IF t.signature = Sign(t.preimage)
               THEN IF stored[k].kid = "old" THEN "old key" ELSE "new key" ELSE "nobody",
             A!Preimage(t.preimage.key[2], t.preimage.key[1], t.preimage.mut, t.preimage.target))

\* The entry for a row and what the second statement finds.
PgEntry(k, found) ==
  IF attestations[k] = <<>> THEN A!Entry(k[2], "INDETERMINATE", "ATTEST_ABSENT")
  ELSE IF found.preimage = None THEN A!Entry(k[2], "INDETERMINATE", "LEDGER_PREIMAGE_ABSENT")
  ELSE
    LET tok    == StoredToken(k)
        ledgers == A!Preimage(found.preimage.key[2], found.preimage.key[1],
                              found.preimage.mut, found.preimage.target)
        status == A!VerifyStoredAttestation(tok, k[2], k[1], ExecutorKeys, clock,
                                            A!Expected("exact", ledgers.target))
    IN IF tok.preimage # ledgers
         THEN A!Entry(k[2], "INDETERMINATE", A!PreimageDivergence(tok.preimage, ledgers))
       ELSE IF status # "ATTEST_VALID" THEN A!Entry(k[2], "INDETERMINATE", status)
       ELSE A!EnforceNoUnprovenConfirmed(A!Entry(k[2], "CONFIRMED", status),
                                         found.status = "sealed")

ReadAttestation ==
  /\ reader.kind = "audit" /\ reader.stage = "token"
  /\ reader' = [reader EXCEPT !.stage = "done", !.entry = PgEntry(reader.key, reader.row)]
  /\ UNCHANGED <<vars, clock, columnVars, retired>>
-----------------------------------------------------------------------------
\* Mutant: the window is closed on both sides.
InClosedWindow(k, w) ==
  /\ attestations[k] # <<>>
  /\ w.since = None \/ stored[k].at >= w.since
  /\ w.until = None \/ stored[k].at <= w.until

\* since <= created_at < until, either side open.
InWindow(k, w) ==
  /\ attestations[k] # <<>>
  /\ w.since = None \/ stored[k].at >= w.since
  /\ w.until = None \/ stored[k].at < w.until

Visible(d, w) == {k \in Key : k[1] = d /\ InWindow(k, w)}

\* ORDER BY created_at, id.
Before(k, o) ==
  \/ stored[k].at < stored[o].at
  \/ stored[k].at = stored[o].at /\ stored[k].id < stored[o].id

\* Mutant: rows come in no order before the LIMIT.
AnyFirst(S, limit) == {k \in S : Cardinality({o \in S : stored[o].id > stored[k].id}) < limit}

\* LIMIT.
First(S, limit) == {k \in S : Cardinality({o \in S : Before(o, k)}) < limit}

(* exportAttestations: as_of is the clock of a first statement, the rows    *)
(* come from a second one.  seen is history: what as_of could see.          *)
BeginExport(d, w, limit) ==
  /\ reader = Nobody
  /\ reader' = [ kind |-> "export", stage |-> "query", dep |-> d, window |-> w,
                 limit |-> limit, as_of |-> clock, rows |-> {}, seen |-> Visible(d, w) ]
  /\ UNCHANGED <<vars, clock, columnVars, retired>>

QueryExport ==
  /\ reader.kind = "export" /\ reader.stage = "query"
  /\ reader' = [reader EXCEPT !.stage = "done",
                  !.rows = First(Visible(reader.dep, reader.window), reader.limit)]
  /\ UNCHANGED <<vars, clock, columnVars, retired>>

PossiblyTruncated == Cardinality(reader.rows) = reader.limit

Read ==
  \/ \E k \in Key : ReadLedger(k)
  \/ ReadAttestation
  \/ \E d \in Deployment, w \in Windows, limit \in Limits : BeginExport(d, w, limit)
  \/ QueryExport

Answered == reader # Nobody /\ reader.stage = "done"

\* The answer is printed, and forgotten, before anything else happens.
Finish ==
  /\ Answered
  /\ reader' = Nobody
  /\ UNCHANGED <<vars, clock, columnVars, retired>>

NextReaders == Finish \/ (~Answered /\ (Work \/ Tick \/ Rotate \/ Read))

SpecReaders == InitReaders /\ [][NextReaders]_allVars
-----------------------------------------------------------------------------
Audited  == reader.kind = "audit" /\ reader.stage = "done"
Exported == reader.kind = "export" /\ reader.stage = "done"

(* A reconciliation says REJECTED exactly of the grants that were unspent   *)
(* when it looked, and once it says CONFIRMED the grant's only mutation is  *)
(* the one its row describes: what it read in two statements belongs        *)
(* together (reconcile.js 14-24, 487-494).                                  *)
AuditTellsTheTruth ==
  Audited =>
    /\ reader.entry.outcome = "REJECTED" <=> ~reader.spent
    /\ reader.entry.outcome = "CONFIRMED" =>
         /\ effects[reader.key] = <<reader.row.preimage.mut>>
         /\ reader.row.preimage.key = reader.key

(* On Postgres there is no crash window: a spent grant is INDETERMINATE only*)
(* because the key that signed it is out of its window now, never because   *)
(* its evidence is missing or contradicts the row (reconcile.js 471-480).   *)
DoubtIsOnlyAboutKeys ==
  Audited /\ reader.entry.outcome = "INDETERMINATE" =>
    /\ reader.entry.status = "KEY_NOT_IN_FORCE"
    /\ stored[reader.key].kid = "old" /\ retired # None /\ clock > retired + KeyLeeway

(* Whatever could be seen at as_of is in the bundle, unless it says that it *)
(* may be truncated; then what is left out comes after everything in it     *)
(* (audit-export.js 48-66, 153-160; seal.sql 311-319).                      *)
NothingSeenIsMissing ==
  Exported =>
    /\ PossiblyTruncated \/ reader.seen \subseteq reader.rows
    /\ \A k \in reader.seen \ reader.rows, o \in reader.rows : Before(o, k)
    /\ \A k \in reader.rows : reader.window.until = None \/ stored[k].at < reader.window.until

(* An export whose window ended before any open transaction began is the    *)
(* whole window: reading it again can add nothing.  (Only then: created_at  *)
(* is the begin of a transaction that may still commit.)                    *)
QuietWindowIsFinal ==
  [][\A d \in Deployment, w \in Windows :
       /\ w.until # None
       /\ w.until <= clock
       /\ \A s \in Session : began[s] = None \/ began[s] >= w.until
       => Visible(d, w)' = Visible(d, w)]_allVars
=============================================================================
