--------------------------- MODULE PgReadersProofs ---------------------------
(***************************************************************************)
(* What is read back from the Postgres executor while it works is so: the  *)
(* entries of a reconciliation and the rows of an audit export, for any    *)
(* number of sessions, grants, windows and limits.                         *)
(***************************************************************************)
EXTENDS PgReaders, PgReplyProofs, FiniteSetTheorems, WellFoundedInduction

\* A committed row is whole, and its token bears the kid of a known key.
WholeRows ==
  \A k \in Key : ledger[k] # None =>
    ledger[k].preimage \in Preimage /\ stored[k].kid \in {"old", "new"}

\* A key is retired at a time that has come.
RetiredThen == clock \in Nat /\ (retired = None \/ (retired \in Nat /\ retired <= clock))

\* Between its two statements an audit holds the row of a spent grant.
HeldRow ==
  reader.kind = "audit" =>
    /\ reader.key \in Key
    /\ reader.stage = "token" =>
         reader.spent /\ ledger[reader.key] # None /\ reader.row = ledger[reader.key]

(* What an audit rests on: the executor's own invariant, and what the rows  *)
(* and the manifest are.                                                    *)
ReadersInv == IInv /\ SpentHasRow /\ WholeRows /\ RetiredThen /\ HeldRow
           /\ AuditTellsTheTruth /\ DoubtIsOnlyAboutKeys

\* The issued challenges of the beginning satisfy the invariant.
LEMMA ReadersInit == InitReaders => ReadersInv
<1> SUFFICES ASSUME InitReaders PROVE ReadersInv
  OBVIOUS
<1>1. TypeOK
  <2>1. \A k \in Key : attestations[k] \in Seq(Token) /\ effects[k] \in Seq(Mutation)
    BY DEF InitReaders
  <2>2. attestations \in [Key -> Seq(Token)] /\ effects \in [Key -> Seq(Mutation)]
    BY <2>1 DEF InitReaders
  <2>3. articles \in [Article -> Content \cup {Unborn, Deleted}]
    <3>1. (CHOOSE c \in Content : TRUE) \in Content
      BY PgConstants
    <3> QED BY <3>1 DEF InitReaders
  <2>4. \A n \in Nonce : Handed[n] \in Target /\ drafts[n] \in Digest
    BY ReadersConstants, DigestType DEF InitReaders
  <2>5. drafts \in [Nonce -> Digest \cup {None}] /\ challenges \in [Nonce -> Challenge \cup {None}]
    BY <2>4 DEF InitReaders, Challenge
  <2> QED BY <2>2, <2>3, <2>5 DEF InitReaders, TypeOK
<1>2. LocksExclusive /\ \A s \in Session : SessionInv(s)
  BY DEF InitReaders, LocksExclusive, SessionInv
<1>3. OneUse /\ NonceSingleUse /\ EvidenceBindsEffect /\ NoStrayEvidence
  BY DEF InitReaders, OneUse, NonceSingleUse, EvidenceBindsEffect, NoStrayEvidence
<1>4. (\A s \in Session : StageLocks(s) /\ SessionRow(s)) /\ CommittedRows /\ RowsTouchedOnce
  BY DEF InitReaders, StageLocks, SessionRow, CommittedRows, RowsTouchedOnce
<1>5. SpentHasRow /\ WholeRows /\ RetiredThen /\ HeldRow
  BY SMTT(30) DEF InitReaders, SpentHasRow, WholeRows, RetiredThen, HeldRow, Nobody
<1>6. AuditTellsTheTruth /\ DoubtIsOnlyAboutKeys
  BY DEF InitReaders, AuditTellsTheTruth, DoubtIsOnlyAboutKeys, Audited, Nobody
<1> QED BY <1>1, <1>2, <1>3, <1>4, <1>5, <1>6 DEF IInv, ReadersInv

\* Under every step of the readers there is a step of the executor, or none.
LEMMA WorkIsAStep == NextReaders => [Next]_vars
BY DEF NextReaders, Work, Tick, Rotate, Read, ReadLedger, ReadAttestation, BeginExport, QueryExport, Finish

(* A committed row never changes, and neither does its token.               *)
LEMMA RowsAreFinal ==
  ASSUME ReadersInv, NextReaders
  PROVE  /\ IInv' /\ SpentHasRow'
         /\ \A k \in Key : ledger[k] # None =>
              ledger'[k] = ledger[k] /\ attestations'[k] = attestations[k]
BY WorkIsAStep, InvStep, LedgerGrows DEF ReadersInv

\* A new row of the ledger carries the preimage the gate wrote for it.
LEMMA RowsByCommit ==
  ASSUME IInv, SpentHasRow, Next, NEW k \in Key, ledger[k] = None, ledger'[k] # None
  PROVE  ledger'[k].preimage \in Preimage
<1>1. PICK s \in Session : pc[s] = "commit" /\ MakeVisible(s)
  BY LedgerByCommit
<1> DEFINE j == KeyOf(GrantOf(s))
<1>2. /\ j \in Key /\ mut[s] \in Mutation /\ row[s].preimage = PreimageOf(s)
      /\ ledger' = [ledger EXCEPT ![j] = row[s]]
  BY <1>1, CommitFacts DEF IInv
<1>3. ledger'[k].preimage = PreimageOf(s)
  BY <1>2 DEF IInv, TypeOK
<1>4. req[s].target \in Target
  BY <1>1, SessionFacts DEF IInv, Request
<1> QED BY <1>2, <1>3, <1>4 DEF PreimageOf, GatePreimage, Preimage

\* Rows are whole when they appear, and stay as they are.
LEMMA WholeRowsStep ==
  ASSUME ReadersInv, NextReaders
  PROVE  WholeRows'
<1>1. /\ IInv /\ SpentHasRow /\ WholeRows /\ IInv'
  BY RowsAreFinal DEF ReadersInv
<1>2. SUFFICES ASSUME NEW k \in Key, ledger'[k] # None
               PROVE  ledger'[k].preimage \in Preimage /\ stored'[k].kid \in {"old", "new"}
  BY DEF WholeRows
<1>3. CASE UNCHANGED vars /\ UNCHANGED stored
  BY <1>1, <1>2, <1>3 DEF WholeRows, vars, dbVars
<1>4. CASE Work
  <2>1. CASE ledger[k] # None
    <3>1. ledger'[k] = ledger[k] /\ attestations'[k] = attestations[k]
      BY <2>1, RowsAreFinal
    <3>2. stored'[k] = stored[k]
      BY <1>4, <3>1 DEF Work, Columns
    <3> QED BY <1>1, <2>1, <3>1, <3>2 DEF WholeRows
  <2>2. CASE ledger[k] = None
    <3>1. ledger'[k].preimage \in Preimage
      BY <1>1, <1>2, <1>4, <2>2, RowsByCommit DEF Work
    <3>2. attestations[k] = <<>> /\ attestations'[k] # <<>>
      <4>1. attestations[k] = <<>>
        BY <1>1, <2>2 DEF IInv, NoStrayEvidence
      <4>2. EvidenceBindsEffect'
        BY <1>1, Zenon DEF IInv
      <4>3. attestations'[k] = <<[ preimage |-> ledger'[k].preimage, signature |-> ledger'[k].ref ]>>
        BY <1>2, <4>2, Zenon DEF EvidenceBindsEffect
      <4> QED BY <4>1, <4>3
    <3>3. stored'[k].kid = Kid
      BY <1>4, <3>2 DEF Work, Columns
    <3> QED BY <3>1, <3>3 DEF Kid
  <2> QED BY <2>1, <2>2
<1> QED BY <1>3, <1>4 DEF NextReaders, Tick, Rotate, Read, ReadLedger, ReadAttestation,
             BeginExport, QueryExport, Finish, columnVars

\* A key is retired now or has been.
LEMMA RetiredStep ==
  ASSUME ReadersInv, NextReaders
  PROVE  RetiredThen'
<1>1. RetiredThen /\ None \notin Nat
  BY ReadersConstants DEF ReadersInv
<1>2. CASE UNCHANGED <<clock, retired>>
  BY <1>1, <1>2 DEF RetiredThen
<1>3. CASE Tick
  BY <1>1, <1>3 DEF Tick, RetiredThen
<1>4. CASE Rotate
  BY <1>1, <1>4 DEF Rotate, RetiredThen
<1> QED BY <1>2, <1>3, <1>4 DEF NextReaders, Work, Read, ReadLedger, ReadAttestation,
             BeginExport, QueryExport, Finish
-----------------------------------------------------------------------------
\* The two entries of the manifest.
NewKey ==
  [kid |-> "new", status |-> "active", from |-> None, until |-> None, key |-> "new key"]
OldKey ==
  [ kid |-> "old", status |-> IF retired = None THEN "active" ELSE "retired",
    from |-> 0, until |-> retired, key |-> "old key" ]

\* The manifest is those two, and neither of them is no entry.
LEMMA Manifest ==
  ASSUME RetiredThen
  PROVE  /\ DOMAIN ExecutorKeys = {1, 2}
         /\ ExecutorKeys[1] = NewKey /\ ExecutorKeys[2] = OldKey
         /\ NewKey # None /\ OldKey # None /\ ExecutorKeys # None
<1>1. ExecutorKeys = <<NewKey, OldKey>>
  BY Zenon DEF ExecutorKeys, A!KeyEntry, NewKey, OldKey
<1>2. NewKey \in ManifestEntry /\ OldKey \in ManifestEntry
  BY DEF ManifestEntry, RetiredThen, NewKey, OldKey
<1>3. DOMAIN ExecutorKeys = {1, 2} /\ ExecutorKeys[1] = NewKey /\ ExecutorKeys[2] = OldKey
  BY <1>1
<1>4. ExecutorKeys \in ManifestEntry \X ManifestEntry
  BY <1>1, <1>2
<1> QED BY <1>2, <1>3, <1>4, ReadersConstants

\* The entry of the manifest a kid resolves to.
LEMMA KeyOfKid ==
  ASSUME RetiredThen, NEW kid \in {"old", "new"}
  PROVE  A!ResolveKeyManifest(ExecutorKeys, kid) = IF kid = "new" THEN NewKey ELSE OldKey
<1>1. DOMAIN ExecutorKeys = {1, 2} /\ ExecutorKeys[1].kid = "new" /\ ExecutorKeys[2].kid = "old"
  <2>1. DOMAIN ExecutorKeys = {1, 2} /\ ExecutorKeys[1] = NewKey /\ ExecutorKeys[2] = OldKey
    BY Manifest
  <2>2. NewKey.kid = "new" /\ OldKey.kid = "old"
    BY DEF NewKey, OldKey
  <2> QED BY <2>1, <2>2
<1> DEFINE i == IF kid = "new" THEN 1 ELSE 2
           matches == {j \in DOMAIN ExecutorKeys :
                         /\ ExecutorKeys[j].kid = kid
                         /\ \A h \in DOMAIN ExecutorKeys : h < j => ExecutorKeys[h].kid # kid}
<1>2. matches = {i}
  BY <1>1
<1>3. matches # {} /\ (CHOOSE j \in matches : TRUE) = i
  BY <1>2
<1> QED BY <1>3, Manifest DEF A!ResolveKeyManifest

\* The new key is always in force; the old one until its window has passed.
LEMMA InForce ==
  ASSUME RetiredThen, NEW kid \in {"old", "new"},
         ~A!KeyInForce(A!ResolveKeyManifest(ExecutorKeys, kid), clock)
  PROVE  kid = "old" /\ retired # None /\ clock > retired + KeyLeeway
<1> DEFINE e == A!ResolveKeyManifest(ExecutorKeys, kid)
<1>0. e = IF kid = "new" THEN NewKey ELSE OldKey
  BY KeyOfKid
<1> HIDE DEF e
<1>1. kid # "new"
  <2>1. kid = "new" => e.status = "active"
    BY <1>0 DEF NewKey
  <2> QED BY <2>1 DEF A!KeyInForce, e
<1>2. kid = "old"
  BY <1>1
<1>3. /\ e.status = IF retired = None THEN "active" ELSE "retired"
      /\ e.from = 0 /\ e.until = retired
  BY <1>0, <1>2 DEF OldKey
<1>4. retired # None
  BY <1>3 DEF A!KeyInForce, e
<1>5. ~A!CheckKeyWindow(clock, 0, retired)
  BY <1>3, <1>4 DEF A!KeyInForce, e
<1>6. clock \in Nat /\ retired \in Nat /\ KeyLeeway \in Nat /\ None \notin Nat
  BY <1>4, ReadersConstants DEF RetiredThen
<1> QED BY <1>2, <1>4, <1>5, <1>6 DEF A!CheckKeyWindow

\* What the verifier says of the token stored for a committed row.
LEMMA StoredVerdict ==
  ASSUME ReadersInv, NEW k \in Key, ledger[k] # None
  PROVE  LET p       == ledger[k].preimage
             ledgers == A!Preimage(p.key[2], p.key[1], p.mut, p.target)
         IN /\ p # None /\ attestations[k] # <<>>
            /\ StoredToken(k).preimage = ledgers
            /\ ~A!KeyInForce(A!ResolveKeyManifest(ExecutorKeys, stored[k].kid), clock) =>
                 A!VerifyStoredAttestation(StoredToken(k), k[2], k[1], ExecutorKeys, clock,
                   A!Expected("exact", p.target)) = "KEY_NOT_IN_FORCE"
            /\ A!KeyInForce(A!ResolveKeyManifest(ExecutorKeys, stored[k].kid), clock) =>
                 A!VerifyStoredAttestation(StoredToken(k), k[2], k[1], ExecutorKeys, clock,
                   A!Expected("exact", p.target)) = "ATTEST_VALID"
<1> DEFINE p       == ledger[k].preimage
           ledgers == A!Preimage(p.key[2], p.key[1], p.mut, p.target)
           signer  == IF stored[k].kid = "old" THEN "old key" ELSE "new key"
           tok     == StoredToken(k)
           e       == A!ResolveKeyManifest(ExecutorKeys, stored[k].kid)
           answer  == A!VerifyStoredAttestation(tok, k[2], k[1], ExecutorKeys, clock,
                        A!Expected("exact", p.target))
<1>1. /\ p \in Preimage /\ p # None /\ p.key = k
      /\ attestations[k] = <<[preimage |-> p, signature |-> ledger[k].ref]>>
      /\ ledger[k].ref = Sign(p)
      /\ stored[k].kid \in {"old", "new"}
  BY NullFacts DEF ReadersInv, IInv, WholeRows, EvidenceBindsEffect
<1>2. tok = A!Token(stored[k].kid, signer, ledgers)
  <2>1. attestations[k][1].preimage = p /\ attestations[k][1].signature = Sign(p)
    BY <1>1
  <2> QED BY <2>1, Zenon DEF StoredToken
<1>3. tok.whole /\ tok.kid = stored[k].kid /\ tok.signer = signer /\ tok.preimage = ledgers
  <2> HIDE DEF tok, signer, ledgers
  <2> QED BY <1>2 DEF A!Token
<1>4. /\ ledgers.jti = k[2] /\ ledgers.dep = k[1] /\ ledgers.target = p.target
      /\ p.target # A!NoField
  BY <1>1, ReadersConstants DEF A!Preimage, A!NoField, Preimage
<1>5. e.key = signer /\ e # None /\ e.key # None /\ ExecutorKeys # None
  <2>1. RetiredThen /\ e = IF stored[k].kid = "new" THEN NewKey ELSE OldKey
    BY <1>1, KeyOfKid DEF ReadersInv
  <2> HIDE DEF e
  <2> QED BY <1>1, <2>1, Manifest, ReadersConstants DEF NewKey, OldKey
<1>6. A!VerifyAtomicExecutionAttestation(tok, e.key, k[2], k[1]) = "ATTEST_VALID"
  BY <1>3, <1>4, <1>5 DEF A!VerifyAtomicExecutionAttestation
<1>7. A!CompareTarget(tok.preimage, A!Expected("exact", p.target))
  BY <1>3, <1>4 DEF A!CompareTarget, A!Expected
<1>8. answer = IF A!KeyInForce(e, clock) THEN "ATTEST_VALID" ELSE "KEY_NOT_IN_FORCE"
  <2> DEFINE expected == A!Expected("exact", p.target)
             r == A!VerifyAtomicExecutionAttestation(tok, e.key, k[2], k[1])
  <2>1. tok.kid = stored[k].kid
    BY <1>3
  <2>2. answer = IF ExecutorKeys = None THEN "NO_KEY_MATERIAL"
                 ELSE IF ~tok.whole THEN "ATTEST_MALFORMED"
                 ELSE IF e = None THEN "UNKNOWN_KID"
                 ELSE IF ~A!KeyInForce(e, clock) THEN "KEY_NOT_IN_FORCE"
                 ELSE IF e.key = None THEN "UNUSABLE_KEY"
                 ELSE IF r # "ATTEST_VALID" THEN r
                 ELSE IF ~A!CompareTarget(tok.preimage, expected) THEN "ATTEST_TARGET_MISMATCH"
                 ELSE "ATTEST_VALID"
    BY <2>1, Zenon DEF A!VerifyStoredAttestation
  <2> HIDE DEF answer, e, r, expected, tok
  <2> QED BY <1>3, <1>5, <1>6, <1>7, <2>2 DEF r, expected
<1>9. attestations[k] # <<>>
  BY <1>1
<1> HIDE DEF answer, e, signer, tok
<1>10. /\ p # None /\ attestations[k] # <<>> /\ tok.preimage = ledgers
       /\ ~A!KeyInForce(e, clock) => answer = "KEY_NOT_IN_FORCE"
       /\ A!KeyInForce(e, clock) => answer = "ATTEST_VALID"
  BY <1>1, <1>3, <1>8, <1>9
<1> QED BY <1>10, Zenon DEF answer, e, tok

(* What an audit says of a committed row: CONFIRMED, or that the old key is *)
(* out of its window.                                                       *)
LEMMA EntryTells ==
  ASSUME ReadersInv, NEW k \in Key, ledger[k] # None
  PROVE  \/ PgEntry(k, ledger[k]).outcome = "CONFIRMED"
         \/ /\ PgEntry(k, ledger[k]).outcome = "INDETERMINATE"
            /\ PgEntry(k, ledger[k]).status = "KEY_NOT_IN_FORCE"
            /\ stored[k].kid = "old" /\ retired # None /\ clock > retired + KeyLeeway
<1> DEFINE p       == ledger[k].preimage
           ledgers == A!Preimage(p.key[2], p.key[1], p.mut, p.target)
           force   == A!KeyInForce(A!ResolveKeyManifest(ExecutorKeys, stored[k].kid), clock)
           answer  == A!VerifyStoredAttestation(StoredToken(k), k[2], k[1], ExecutorKeys, clock,
                        A!Expected("exact", p.target))
           entry   == PgEntry(k, ledger[k])
<1>1. /\ p # None /\ attestations[k] # <<>> /\ StoredToken(k).preimage = ledgers
      /\ answer = IF force THEN "ATTEST_VALID" ELSE "KEY_NOT_IN_FORCE"
  BY StoredVerdict, Zenon
<1>2. ledger[k].status = "sealed" /\ ledgers.target = p.target
  BY DEF ReadersInv, IInv, EvidenceBindsEffect, A!Preimage
<1>3. entry = IF answer # "ATTEST_VALID" THEN A!Entry(k[2], "INDETERMINATE", answer)
              ELSE A!EnforceNoUnprovenConfirmed(A!Entry(k[2], "CONFIRMED", answer), TRUE)
  BY <1>1, <1>2, Zenon DEF PgEntry
<1> HIDE DEF entry, answer
<1>4. CASE force
  <2>1. entry.outcome = "CONFIRMED"
    BY <1>1, <1>3, <1>4 DEF A!EnforceNoUnprovenConfirmed, A!Entry
  <2> QED BY <2>1 DEF entry
<1>5. CASE ~force
  <2>1. entry.outcome = "INDETERMINATE" /\ entry.status = "KEY_NOT_IN_FORCE"
    BY <1>1, <1>3, <1>5 DEF A!Entry
  <2>2. stored[k].kid = "old" /\ retired # None /\ clock > retired + KeyLeeway
    BY <1>5, InForce DEF ReadersInv, WholeRows
  <2> QED BY <2>1, <2>2 DEF entry
<1> QED BY <1>4, <1>5

\* Nothing but a reader's own step changes what it has read.
LEMMA ReaderStep ==
  ASSUME ReadersInv, NextReaders
  PROVE  HeldRow' /\ AuditTellsTheTruth' /\ DoubtIsOnlyAboutKeys'
<1>1. /\ IInv /\ HeldRow /\ EvidenceBindsEffect /\ OneUse
      /\ ledger \in [Key -> LedgerRow \cup {None}]
  BY DEF ReadersInv, IInv, TypeOK
<1>2. ASSUME reader' # reader => reader'.kind # "audit", ~Answered \/ reader' # reader
      PROVE  HeldRow' /\ AuditTellsTheTruth' /\ DoubtIsOnlyAboutKeys'
  <2>1. HeldRow'
    BY <1>1, <1>2, RowsAreFinal DEF HeldRow
  <2>2. ~Audited'
    BY <1>2 DEF Audited, Answered, Nobody
  <2> QED BY <2>1, <2>2 DEF AuditTellsTheTruth, DoubtIsOnlyAboutKeys
<1>3. CASE Finish
  <2>1. reader' = Nobody /\ reader # Nobody
    BY <1>3 DEF Finish, Answered
  <2> QED BY <1>2, <2>1 DEF Nobody
<1>4. CASE ~Answered /\ (Work \/ Tick \/ Rotate)
  BY <1>2, <1>4 DEF Work, Tick, Rotate
<1>5. ASSUME NEW d \in Deployment, NEW w \in Windows, NEW limit \in Limits,
             BeginExport(d, w, limit), ~Answered
      PROVE  HeldRow' /\ AuditTellsTheTruth' /\ DoubtIsOnlyAboutKeys'
  <2>1. reader'.kind = "export"
    BY <1>5 DEF BeginExport
  <2> QED BY <1>2, <1>5, <2>1
<1>6. CASE QueryExport /\ ~Answered
  <2>1. reader'.kind # "audit"
    BY <1>6 DEF QueryExport
  <2> QED BY <1>2, <1>6, <2>1
<1>7. ASSUME NEW k \in Key, ReadLedger(k)
      PROVE  HeldRow' /\ AuditTellsTheTruth' /\ DoubtIsOnlyAboutKeys'
  <2>1. UNCHANGED <<ledger, effects>>
    BY <1>7 DEF ReadLedger, vars, dbVars, history
  <2>2. CASE ledger[k] = None
    <3>1. reader' = Audit(k, "done", None, effects[k] # <<>>, A!Entry(k[2], "REJECTED", None))
      BY <1>7, <2>2 DEF ReadLedger, RowOfKey
    <3>2. effects[k] = <<>>
      BY <1>1, <2>2 DEF OneUse
    <3>3. /\ reader'.key = k /\ reader'.stage = "done" /\ reader'.spent = FALSE
          /\ reader'.entry.outcome = "REJECTED"
      BY <3>1, <3>2 DEF Audit, A!Entry
    <3> QED BY <3>3 DEF HeldRow, AuditTellsTheTruth, DoubtIsOnlyAboutKeys
  <2>3. CASE ledger[k] # None
    <3>1. reader' = Audit(k, "token", ledger[k], effects[k] # <<>>, None)
      BY <1>7, <2>3 DEF ReadLedger, RowOfKey
    <3>2. effects[k] # <<>>
      BY <1>1, <2>3 DEF OneUse
    <3>3. /\ reader'.key = k /\ reader'.stage = "token" /\ reader'.spent = TRUE
          /\ reader'.row = ledger[k]
      BY <3>1, <3>2 DEF Audit
    <3> QED BY <2>1, <2>3, <3>3 DEF HeldRow, AuditTellsTheTruth, DoubtIsOnlyAboutKeys, Audited
  <2> QED BY <2>2, <2>3
<1>8. CASE ReadAttestation
  <2> DEFINE k == reader.key
  <2>1. /\ k \in Key /\ reader.spent /\ ledger[k] # None /\ reader.row = ledger[k]
    BY <1>1, <1>8 DEF ReadAttestation, HeldRow
  <2>2. /\ reader' = [reader EXCEPT !.stage = "done", !.entry = PgEntry(k, ledger[k])]
        /\ UNCHANGED <<ledger, effects, stored, retired, clock>>
    BY <1>8, <2>1 DEF ReadAttestation, vars, dbVars, history, columnVars
  <2>3. effects[k] = <<ledger[k].preimage.mut>> /\ ledger[k].preimage.key = k
    BY <1>1, <2>1 DEF EvidenceBindsEffect
  <2> QED BY <2>1, <2>2, <2>3, EntryTells DEF HeldRow, AuditTellsTheTruth, DoubtIsOnlyAboutKeys
<1> QED BY <1>3, <1>4, <1>5, <1>6, <1>7, <1>8 DEF NextReaders, Read

\* The invariant of the readers and of the executor under them.
THEOREM ReadersInductive == SpecReaders => []ReadersInv
<1>1. ReadersInv /\ [NextReaders]_allVars => ReadersInv'
  <2>1. ASSUME ReadersInv, NextReaders
        PROVE  ReadersInv'
    <3>1. IInv' /\ SpentHasRow'
      BY <2>1, RowsAreFinal
    <3> QED BY <2>1, <3>1, WholeRowsStep, RetiredStep, ReaderStep DEF ReadersInv
  <2>2. ASSUME ReadersInv, UNCHANGED allVars
        PROVE  ReadersInv'
    <3>1. IInv' /\ SpentHasRow'
      BY <2>2, InvStep, LedgerGrows DEF allVars, ReadersInv
    <3>2. UNCHANGED <<ledger, effects, clock, stored, retired, reader>>
      BY <2>2 DEF allVars, vars, dbVars, history, readerVars, columnVars
    <3>3. WholeRows' /\ RetiredThen' /\ HeldRow'
      BY <2>2, <3>2 DEF ReadersInv, WholeRows, RetiredThen, HeldRow
    <3>4. AuditTellsTheTruth' /\ DoubtIsOnlyAboutKeys'
      BY <2>2, <3>2 DEF ReadersInv, AuditTellsTheTruth, DoubtIsOnlyAboutKeys, Audited
    <3> QED BY <3>1, <3>3, <3>4 DEF ReadersInv
  <2> QED BY <2>1, <2>2
<1> QED BY <1>1, ReadersInit, PTL DEF SpecReaders

(* Whatever is committed while a reconciliation reads, for any number of    *)
(* sessions: REJECTED is said of unspent grants only, and CONFIRMED of the  *)
(* one mutation of the grant (reconcile.js 14-24, 487-494).                 *)
THEOREM AuditsTellTheTruth == SpecReaders => []AuditTellsTheTruth
<1>1. ReadersInv => AuditTellsTheTruth
  BY DEF ReadersInv
<1> QED BY ReadersInductive, <1>1, PTL

(* On Postgres only the window of a retired key leaves an audit in doubt    *)
(* (reconcile.js 471-480).                                                  *)
THEOREM DoubtsAreAboutKeys == SpecReaders => []DoubtIsOnlyAboutKeys
<1>1. ReadersInv => DoubtIsOnlyAboutKeys
  BY DEF ReadersInv
<1> QED BY ReadersInductive, <1>1, PTL
-----------------------------------------------------------------------------
\* Every open transaction has a time at which it began.
BeganInv ==
  /\ clock \in Nat
  /\ \A s \in Session : pc[s] \in InTransaction => began[s] \in Nat

\* One session goes from its stage to another, by the transaction's own order.
Moves(s, stage) ==
  /\ pc' = [pc EXCEPT ![s] = stage]
  /\ \/ stage \notin InTransaction
     \/ pc[s] \in InTransaction
     \/ pc[s] = "connect" /\ stage = "lock"
  /\ stage = "commit" => pc[s] = "persist"
  /\ \/ UNCHANGED attestations
     \/ /\ pc[s] = "commit" /\ stage = "idle"
        /\ \E k \in Key : \E tokens : attestations' = [attestations EXCEPT ![k] = tokens]

\* A transaction is opened by BEGIN only, and attests only by its commit.
LEMMA OneMoves ==
  ASSUME IInv, Next
  PROVE  UNCHANGED <<pc, attestations>> \/ \E s \in Session : \E stage : Moves(s, stage)
<1>1. ASSUME NEW n, NEW t, NEW a,
             \/ MeasureState(n, t) \/ IssueChallenge(n) \/ ChallengeExpires(n) \/ OwnerWrite(a)
      PROVE  UNCHANGED <<pc, attestations>>
  BY <1>1, Zenon DEF MeasureState, IssueChallenge, ChallengeExpires, OwnerWrite, dbVars
<1>2. ASSUME NEW s \in Session, NEW g \in Grant, NEW t \in Target, NEW p \in Nonce \cup {NoNonce},
             Receive(s, g, t, p)
      PROVE  UNCHANGED <<pc, attestations>> \/ Moves(s, "connect")
  <2>1. UNCHANGED attestations /\ (UNCHANGED pc \/ pc' = [pc EXCEPT ![s] = "connect"])
    BY <1>2, Zenon DEF Receive, dbVars
  <2> QED BY <2>1 DEF Moves, InTransaction
<1>3. ASSUME NEW s \in Session, Connect(s)
      PROVE  Moves(s, "lock")
  BY <1>3 DEF Connect, Moves, dbVars
<1>4. ASSUME NEW s \in Session,
             \/ LockChallenge(s) \/ CompareState(s) \/ ClaimGrant(s) \/ Mutate(s)
      PROVE  \E stage : Moves(s, stage)
  <2>1. pc[s] \in InTransaction /\ UNCHANGED attestations
    BY <1>4, Zenon DEF LockChallenge, CompareState, ClaimGrant, Mutate, InTransaction, dbVars
  <2>2. \E stage \in {"cas", "claim", "mutate", "seal", "abort"} : pc' = [pc EXCEPT ![s] = stage]
    BY <1>4, Zenon DEF LockChallenge, CompareState, ClaimGrant, Mutate, Refuse
  <2> QED BY <2>1, <2>2 DEF Moves
<1>5. ASSUME NEW s \in Session,
             Seal(s) \/ Persist(s) \/ Rollback(s) \/ StatementFails(s) \/ ProcessDies(s)
      PROVE  \E stage : Moves(s, stage)
  <2>1. UNCHANGED attestations
    BY <1>5, Zenon DEF Seal, Persist, Rollback, StatementFails, ProcessDies, dbVars
  <2>2. \/ pc' = [pc EXCEPT ![s] = "idle"]
        \/ pc[s] = "seal" /\ pc' = [pc EXCEPT ![s] = "persist"]
        \/ pc[s] = "persist" /\ pc' = [pc EXCEPT ![s] = "commit"]
    BY <1>5, Zenon DEF Seal, Persist, Rollback, StatementFails, ProcessDies, Raise, EndSession
  <2> QED BY <2>1, <2>2 DEF Moves, InTransaction
<1>6. ASSUME NEW s \in Session, Commit(s) \/ CommitUnacknowledged(s)
      PROVE  Moves(s, "idle")
  <2>1. pc[s] = "commit" /\ MakeVisible(s) /\ pc' = [pc EXCEPT ![s] = "idle"]
    BY <1>6, Zenon DEF Commit, CommitUnacknowledged, EndSession
  <2>2. /\ KeyOf(GrantOf(s)) \in Key
        /\ attestations' = [attestations EXCEPT ![KeyOf(GrantOf(s))] = <<TokenOf(s)>>]
    BY <2>1, CommitFacts DEF IInv
  <2> QED BY <2>1, <2>2, Zenon DEF Moves, InTransaction
<1> QED BY <1>1, <1>2, <1>3, <1>4, <1>5, <1>6, Zenon DEF Next, Step

\* Every step keeps BeganInv.
LEMMA BeganStep ==
  ASSUME IInv, BeganInv, NextReaders
  PROVE  BeganInv'
<1>1. CASE UNCHANGED <<pc, began>> /\ clock' \in Nat
  BY <1>1 DEF BeganInv
<1>2. CASE Work
  <2>1. /\ pc \in [Session -> InTransaction \cup {"idle", "connect"}]
        /\ "connect" \notin InTransaction /\ "idle" \notin InTransaction
    BY DEF IInv, TypeOK, InTransaction
  <2>2. Next /\ UNCHANGED clock
    BY <1>2 DEF Work
  <2>3. ASSUME NEW o \in Session, pc'[o] \in InTransaction
        PROVE  began'[o] \in Nat
    <3>1. began'[o] = IF Begins(o) THEN clock ELSE IF Ends(o) THEN None ELSE began[o]
      BY <1>2 DEF Work, Columns
    <3>2. ~Ends(o)
      BY <2>1, <2>3 DEF Ends
    <3>3. pc[o] \in InTransaction \/ Begins(o)
      BY <2>1, <2>2, <2>3, OneMoves DEF Moves, Begins
    <3> QED BY <3>1, <3>2, <3>3 DEF BeganInv
  <2> QED BY <2>2, <2>3 DEF BeganInv
<1>3. CASE Tick
  BY <1>1, <1>3 DEF Tick, vars, columnVars, BeganInv
<1>4. CASE Rotate \/ Finish \/ Read
  BY <1>1, <1>4 DEF Rotate, Finish, Read, ReadLedger, ReadAttestation, BeginExport, QueryExport,
                    vars, columnVars, BeganInv
<1> QED BY <1>2, <1>3, <1>4 DEF NextReaders

(* A window that is over, with no transaction open that began inside it,    *)
(* gains nothing and loses nothing.                                         *)
LEMMA QuietStep ==
  ASSUME ReadersInv, BeganInv, NextReaders, NEW d \in Deployment, NEW w \in Windows,
         w.until # None, \A s \in Session : began[s] = None \/ began[s] >= w.until
  PROVE  Visible(d, w)' = Visible(d, w)
<1>1. CASE UNCHANGED <<attestations, stored>>
  BY <1>1 DEF Visible, InWindow
<1>2. CASE Work
  <2>1. SUFFICES ASSUME NEW k \in Key PROVE InWindow(k, w)' <=> InWindow(k, w)
    BY DEF Visible
  <2>2. CASE attestations'[k] = attestations[k]
    <3>1. stored'[k] = stored[k]
      BY <1>2, <2>2 DEF Work, Columns
    <3> QED BY <2>2, <3>1 DEF InWindow
  <2>3. CASE attestations'[k] # attestations[k]
    <3>1. TypeOK /\ Next
      BY <1>2 DEF ReadersInv, IInv, Work
    <3>2. PICK s \in Session : pc[s] = "commit" /\ pc' = [pc EXCEPT ![s] = "idle"]
      BY <2>3, <3>1, OneMoves, Zenon DEF Moves, ReadersInv
    <3>3. \A o \in Session : (pc[o] = "commit" /\ pc'[o] = "idle") <=> o = s
      BY <3>1, <3>2 DEF TypeOK
    <3>4. (CHOOSE o \in Session : pc[o] = "commit" /\ pc'[o] = "idle") = s
      BY <3>3
    <3>5. stored'[k].at = began[s]
      BY <1>2, <2>3, <3>4 DEF Work, Columns, CreatedAt
    <3>6. began[s] \in Nat /\ w.until \in Nat /\ began[s] >= w.until
      BY <3>2, ReadersConstants DEF BeganInv, InTransaction
    <3>7. attestations[k] = <<>>
      <4>1. ledger[k] = None
        BY <1>2, <2>3, RowsAreFinal DEF NextReaders
      <4> QED BY <4>1 DEF ReadersInv, IInv, NoStrayEvidence
    <3> QED BY <3>5, <3>6, <3>7 DEF InWindow
  <2> QED BY <2>2, <2>3
<1> QED BY <1>1, <1>2 DEF NextReaders, Tick, Rotate, Read, ReadLedger, ReadAttestation,
             BeginExport, QueryExport, Finish, vars, dbVars, columnVars

(* An export of a window that ended before any open transaction began can   *)
(* be relied on as the whole window (seal.sql 311-319).                     *)
THEOREM QuietWindowsAreFinal == SpecReaders => QuietWindowIsFinal
<1> DEFINE Quiet == \A d \in Deployment, w \in Windows :
                      /\ w.until # None
                      /\ w.until <= clock
                      /\ \A s \in Session : began[s] = None \/ began[s] >= w.until
                      => Visible(d, w)' = Visible(d, w)
<1>1. InitReaders => BeganInv
  BY DEF InitReaders, BeganInv, InTransaction
<1>2. ReadersInv /\ BeganInv /\ [NextReaders]_allVars => BeganInv'
  <2>1. CASE UNCHANGED allVars
    BY <2>1 DEF BeganInv, allVars, vars, readerVars, columnVars
  <2> QED BY <2>1, BeganStep DEF ReadersInv
<1>3. ReadersInv /\ BeganInv /\ [NextReaders]_allVars => [Quiet]_allVars
  BY QuietStep
<1> QED BY ReadersInductive, <1>1, <1>2, <1>3, PTL DEF SpecReaders, QuietWindowIsFinal
-----------------------------------------------------------------------------
\* Among subsets of a finite set there is one that contains none of the others.
LEMMA SmallestSet ==
  ASSUME NEW S, IsFiniteSet(S), NEW T \in SUBSET SUBSET S, T # {}
  PROVE  \E x \in T : \A y \in T : y \subseteq x => y = x
<1>1. IsWellFoundedOn(StrictSubsetOrdering(S), SUBSET S)
  BY FS_StrictSubsetOrderingWellFounded, FS_FiniteSubsetsOfFinite
<1>2. PICK x \in T : \A y \in T : <<y, x>> \notin StrictSubsetOrdering(S)
  BY <1>1, WFMin
<1> QED BY <1>2 DEF StrictSubsetOrdering

\* Rows with a time and an id of their own.
Dated(S) ==
  /\ \A k \in S : stored[k].at \in Nat /\ stored[k].id \in Nat
  /\ \A k, o \in S : stored[k].id = stored[o].id => k = o

\* The rows before a row.
Earlier(S, k) == {o \in S : Before(o, k)}

\* ORDER BY created_at, id puts dated rows in one order.
LEMMA OneOrder ==
  ASSUME NEW S, Dated(S)
  PROVE  /\ \A k \in S : ~Before(k, k)
         /\ \A k, o \in S : Before(k, o) \/ Before(o, k) \/ k = o
         /\ \A k, o, r \in S : Before(k, o) /\ Before(o, r) => Before(k, r)
BY DEF Dated, Before

\* A later row has more rows before it.
LEMMA LaterHasMore ==
  ASSUME NEW S, IsFiniteSet(S), Dated(S), NEW k \in S, NEW o \in S, Before(o, k)
  PROVE  Cardinality(Earlier(S, o)) < Cardinality(Earlier(S, k))
<1>1. Earlier(S, o) \subseteq Earlier(S, k) /\ o \in Earlier(S, k) \ Earlier(S, o)
  BY OneOrder DEF Earlier
<1>2. IsFiniteSet(Earlier(S, k)) /\ IsFiniteSet(Earlier(S, o))
  BY FS_Subset DEF Earlier
<1>3. Cardinality(Earlier(S, k)) \in Nat /\ Cardinality(Earlier(S, o)) \in Nat
  BY <1>2, FS_CardinalityType
<1>4. /\ Cardinality(Earlier(S, o)) <= Cardinality(Earlier(S, k))
      /\ Cardinality(Earlier(S, k)) # Cardinality(Earlier(S, o))
  BY <1>1, <1>2, FS_Subset
<1> QED BY <1>3, <1>4

\* LIMIT cuts at a row: what is left out comes after everything that is kept.
LEMMA FirstIsAPrefix ==
  ASSUME NEW S, IsFiniteSet(S), Dated(S), NEW limit \in Nat \ {0}
  PROVE  \A o \in First(S, limit), k \in S \ First(S, limit) : Before(o, k)
<1> SUFFICES ASSUME NEW o \in First(S, limit), NEW k \in S \ First(S, limit), ~Before(o, k)
             PROVE  FALSE
  OBVIOUS
<1>1. /\ o \in S /\ Cardinality(Earlier(S, o)) < limit /\ ~(Cardinality(Earlier(S, k)) < limit)
  BY DEF First, Earlier
<1>2. Before(k, o)
  BY <1>1, OneOrder
<1>3. Cardinality(Earlier(S, k)) < Cardinality(Earlier(S, o))
  BY <1>1, <1>2, LaterHasMore
<1>4. Cardinality(Earlier(S, k)) \in Nat /\ Cardinality(Earlier(S, o)) \in Nat
  BY FS_Subset, FS_CardinalityType DEF Earlier
<1> QED BY <1>1, <1>3, <1>4

\* LIMIT leaves a row out only where it returns as many as it may.
LEMMA FirstIsFull ==
  ASSUME NEW S, IsFiniteSet(S), Dated(S), NEW limit \in Nat \ {0}, First(S, limit) # S
  PROVE  Cardinality(First(S, limit)) = limit
<1> DEFINE F == First(S, limit)
<1>1. F \subseteq S /\ S \ F # {}
  BY DEF First
<1>2. /\ \A k \in F : Cardinality(Earlier(S, k)) < limit
      /\ \A k \in S \ F : ~(Cardinality(Earlier(S, k)) < limit)
  BY DEF First, Earlier
<1>3. \A k \in S : /\ IsFiniteSet(Earlier(S, k)) /\ Cardinality(Earlier(S, k)) \in Nat
                   /\ Earlier(S, k) \in SUBSET S
  BY FS_Subset, FS_CardinalityType DEF Earlier
<1>4. \A o \in F, k \in S \ F : Before(o, k)
  BY FirstIsAPrefix
<1> HIDE DEF F
<1>5. PICK x \in S \ F : \A y \in S \ F : ~Before(y, x)
  <2> DEFINE T == {Earlier(S, k) : k \in S \ F}
  <2>1. T # {} /\ T \in SUBSET SUBSET S
    BY <1>1, <1>3
  <2> HIDE DEF T
  <2>2. PICK least \in T : \A y \in T : y \subseteq least => y = least
    BY <2>1, SmallestSet
  <2>3. PICK x \in S \ F : least = Earlier(S, x)
    BY <2>2 DEF T
  <2>4. ASSUME NEW y \in S \ F, Before(y, x)
        PROVE  FALSE
    <3>1. Earlier(S, y) \subseteq Earlier(S, x) /\ y \in Earlier(S, x) /\ y \notin Earlier(S, y)
      BY <2>4, OneOrder DEF Earlier
    <3>2. Earlier(S, y) \in T
      BY DEF T
    <3> QED BY <2>2, <2>3, <3>1, <3>2
  <2> QED BY <2>4
<1>6. Earlier(S, x) = F
  BY <1>1, <1>4, <1>5 DEF Earlier
<1>7. Cardinality(F) \in Nat /\ Cardinality(F) >= limit /\ IsFiniteSet(F)
  BY <1>2, <1>3, <1>5, <1>6
<1>8. F # {}
  BY <1>7, FS_EmptySet
<1>9. PICK m \in F : \A y \in F : ~Before(m, y)
  <2> DEFINE T == {S \ Earlier(S, k) : k \in F}
  <2>1. T # {} /\ T \in SUBSET SUBSET S
    BY <1>8
  <2> HIDE DEF T
  <2>2. PICK least \in T : \A y \in T : y \subseteq least => y = least
    BY <2>1, SmallestSet
  <2>3. PICK m \in F : least = S \ Earlier(S, m)
    BY <2>2 DEF T
  <2>4. ASSUME NEW y \in F, Before(m, y)
        PROVE  FALSE
    <3>1. m \in S /\ y \in S
      BY <1>1
    <3>2. /\ S \ Earlier(S, y) \subseteq S \ Earlier(S, m)
          /\ m \in S \ Earlier(S, m) /\ m \notin S \ Earlier(S, y)
      BY <2>4, <3>1, OneOrder DEF Earlier
    <3>3. S \ Earlier(S, y) \in T
      BY DEF T
    <3> QED BY <2>2, <2>3, <3>2, <3>3
  <2> QED BY <2>4
<1>10. Earlier(S, m) = F \ {m}
  <2>1. ASSUME NEW y \in S, Before(y, m)
        PROVE  y \in F
    <3>1. Cardinality(Earlier(S, y)) < Cardinality(Earlier(S, m))
      BY <1>1, <2>1, LaterHasMore
    <3>2. Cardinality(Earlier(S, m)) < limit /\ Cardinality(Earlier(S, m)) \in Nat
      BY <1>1, <1>2, <1>3
    <3> QED BY <1>2, <1>3, <3>1, <3>2
  <2>2. ~Before(m, m) /\ \A y \in F : Before(y, m) \/ y = m
    BY <1>1, <1>9, OneOrder
  <2> QED BY <1>1, <2>1, <2>2 DEF Earlier
<1>11. Cardinality(F) - 1 < limit
  <2>1. Cardinality(F \ {m}) = Cardinality(F) - 1
    BY <1>7, FS_RemoveElement
  <2> QED BY <1>2, <1>10, <2>1
<1> QED BY <1>7, <1>11 DEF F
-----------------------------------------------------------------------------
\* Ids are handed out once, and a row bears the one of its transaction.
Numbered ==
  /\ nextId \in Nat
  /\ \A s \in Session : pc[s] = "commit" => serial[s] \in Nat /\ serial[s] < nextId
  /\ \A s, o \in Session : pc[s] = "commit" /\ pc[o] = "commit" /\ serial[s] = serial[o] => s = o

\* The key has a committed attestations row.
Attests(k) == attestations[k] # <<>>

\* Committed rows are dated and numbered, each with a number of its own.
RowsNumbered ==
  /\ \A k \in Key : Attests(k) =>
       stored[k].at \in Nat /\ stored[k].id \in Nat /\ stored[k].id < nextId
  /\ \A k, o \in Key : Attests(k) /\ Attests(o) /\ stored[k].id = stored[o].id => k = o
  /\ \A k \in Key, s \in Session : Attests(k) /\ pc[s] = "commit" => serial[s] # stored[k].id

\* What a step of the executor does to the ids, and to the rows that bear them.
LEMMA WorkNumbers ==
  ASSUME IInv, Work, Numbered
  PROVE  /\ Numbered' /\ nextId <= nextId'
         /\ \A s \in Session : pc'[s] = "commit" =>
              \/ pc[s] = "commit" /\ serial'[s] = serial[s]
              \/ serial'[s] = nextId /\ nextId' = nextId + 1
<1>0. /\ pc \in [Session -> InTransaction \cup {"idle", "connect"}] /\ IInv /\ Next
      /\ nextId \in Nat
  BY DEF IInv, TypeOK, Work, Numbered
<1>1. \A s \in Session : pc'[s] = "commit" => pc[s] = "commit" \/ Inserts(s)
  BY <1>0, OneMoves DEF Moves, Inserts
<1>2. \A s, o \in Session : Inserts(s) /\ Inserts(o) => s = o
  BY <1>0, OneMoves DEF Moves, Inserts
<1>3. \A s \in Session : serial'[s] = IF Inserts(s) THEN nextId ELSE IF Ends(s) THEN None ELSE serial[s]
  BY DEF Work, Columns
<1>4. nextId' = IF \E s \in Session : Inserts(s) THEN nextId + 1 ELSE nextId
  BY DEF Work, Columns
<1>5. \A s \in Session : pc'[s] = "commit" =>
              \/ pc[s] = "commit" /\ serial'[s] = serial[s] /\ ~Inserts(s)
              \/ serial'[s] = nextId /\ nextId' = nextId + 1 /\ Inserts(s)
  BY <1>1, <1>3, <1>4 DEF Inserts, Ends
<1>6. nextId' \in Nat /\ nextId <= nextId' /\ (nextId' = nextId \/ nextId' = nextId + 1)
  BY <1>0, <1>4
<1>7. Numbered'
  <2>1. ASSUME NEW s \in Session, pc'[s] = "commit"
        PROVE  serial'[s] \in Nat /\ serial'[s] < nextId'
    BY <1>0, <1>5, <1>6, <2>1 DEF Numbered
  <2>2. ASSUME NEW s \in Session, NEW o \in Session, pc'[s] = "commit", pc'[o] = "commit",
               serial'[s] = serial'[o]
        PROVE  s = o
    BY <1>0, <1>2, <1>5, <2>2 DEF Numbered
  <2> QED BY <1>6, <2>1, <2>2 DEF Numbered
<1> QED BY <1>5, <1>6, <1>7

\* A row that is there keeps its columns.
LEMMA ColumnsAreFinal ==
  ASSUME ReadersInv, NextReaders, NEW k \in Key, Attests(k)
  PROVE  attestations'[k] = attestations[k] /\ stored'[k] = stored[k]
<1>1. ledger[k] # None
  BY DEF ReadersInv, IInv, NoStrayEvidence, Attests
<1>2. attestations'[k] = attestations[k]
  BY <1>1, RowsAreFinal
<1>3. CASE Work
  BY <1>2, <1>3 DEF Work, Columns
<1> QED BY <1>2, <1>3 DEF NextReaders, Tick, Rotate, Read, ReadLedger, ReadAttestation,
             BeginExport, QueryExport, Finish, columnVars

\* A new row is the only one, and takes the time and the id of its transaction.
LEMMA NewRow ==
  ASSUME ReadersInv, BeganInv, Work, NEW k \in Key, ~Attests(k), Attests(k)'
  PROVE  \E s \in Session :
           /\ pc[s] = "commit" /\ pc' = [pc EXCEPT ![s] = "idle"]
           /\ stored'[k].id = serial[s] /\ stored'[k].at \in Nat
           /\ \A o \in Key \ {k} : attestations'[o] = attestations[o]
<1>1. TypeOK /\ IInv /\ Next /\ attestations'[k] # attestations[k]
  BY DEF ReadersInv, IInv, Work, Attests
<1>2. PICK s \in Session : /\ pc[s] = "commit" /\ pc' = [pc EXCEPT ![s] = "idle"]
                           /\ \E j \in Key : \E tokens :
                                attestations' = [attestations EXCEPT ![j] = tokens]
  BY <1>1, OneMoves, Zenon DEF Moves
<1>3. PICK j \in Key : \E tokens : attestations' = [attestations EXCEPT ![j] = tokens]
  BY <1>2
<1>4. j = k /\ \A o \in Key \ {k} : attestations'[o] = attestations[o]
  BY <1>1, <1>3 DEF TypeOK
<1>5. (CHOOSE o \in Session : pc[o] = "commit" /\ pc'[o] = "idle") = s
  BY <1>1, <1>2 DEF TypeOK
<1>6. stored'[k].id = serial[s] /\ stored'[k].at = began[s]
  BY <1>1, <1>5 DEF Work, Columns, CreatedAt
<1>7. began[s] \in Nat
  BY <1>2 DEF BeganInv, InTransaction
<1> QED BY <1>2, <1>4, <1>6, <1>7

\* A new row bears an id no other has, and every step keeps that so.
LEMMA RowsNumberedStep ==
  ASSUME ReadersInv, BeganInv, Numbered, RowsNumbered, NextReaders
  PROVE  Numbered' /\ RowsNumbered'
<1>1. CASE UNCHANGED <<pc, serial, nextId, stored, attestations>>
  BY <1>1 DEF Numbered, RowsNumbered, Attests
<1>2. CASE Work
  <2>1. /\ Numbered' /\ nextId <= nextId' /\ nextId \in Nat /\ nextId' \in Nat
        /\ \A s \in Session : pc'[s] = "commit" =>
              \/ pc[s] = "commit" /\ serial'[s] = serial[s]
              \/ serial'[s] = nextId /\ nextId' = nextId + 1
    BY <1>2, WorkNumbers DEF ReadersInv, Numbered
  <2>2. \A k \in Key : Attests(k) => Attests(k)' /\ stored'[k] = stored[k]
    BY ColumnsAreFinal DEF Attests
  <2>3. CASE \A k \in Key : Attests(k)' => Attests(k)
    <3>1. \A k \in Key : Attests(k)' => Attests(k) /\ stored'[k] = stored[k]
      BY <2>2, <2>3
    <3> HIDE DEF Attests
    <3>2. \A k \in Key : Attests(k)' =>
            stored'[k].at \in Nat /\ stored'[k].id \in Nat /\ stored'[k].id < nextId'
      BY <2>1, <3>1 DEF RowsNumbered
    <3>3. \A k, o \in Key : Attests(k)' /\ Attests(o)' /\ stored'[k].id = stored'[o].id => k = o
      BY <3>1 DEF RowsNumbered
    <3>4. \A k \in Key, s \in Session :
            Attests(k)' /\ pc'[s] = "commit" => serial'[s] # stored'[k].id
      BY <2>1, <3>1 DEF RowsNumbered
    <3> QED BY <2>1, <3>2, <3>3, <3>4 DEF RowsNumbered
  <2>4. ASSUME NEW k \in Key, Attests(k)', ~Attests(k)
        PROVE  RowsNumbered'
    <3>1. PICK s \in Session :
           /\ pc[s] = "commit" /\ pc' = [pc EXCEPT ![s] = "idle"]
           /\ stored'[k].id = serial[s] /\ stored'[k].at \in Nat
           /\ \A o \in Key \ {k} : attestations'[o] = attestations[o]
      BY <1>2, <2>4, NewRow
    <3>2. serial[s] \in Nat /\ serial[s] < nextId
      BY <3>1 DEF Numbered
    <3>3. \A o \in Key : Attests(o)' => o = k \/ (Attests(o) /\ stored'[o] = stored[o])
      BY <2>2, <3>1 DEF Attests
    <3>4. \A o \in Key : Attests(o) => stored[o].id # serial[s]
      BY <3>1 DEF RowsNumbered
    <3>5. \A o \in Session : pc'[o] = "commit" => o # s
      BY <3>1 DEF ReadersInv, IInv, TypeOK
    <3>6. \A o \in Session : pc'[o] = "commit" => serial'[o] # serial[s]
      BY <2>1, <3>1, <3>2, <3>5 DEF Numbered
    <3>7. \A o \in Key : Attests(o)' =>
            stored'[o].at \in Nat /\ stored'[o].id \in Nat /\ stored'[o].id < nextId'
      BY <2>1, <3>1, <3>2, <3>3 DEF RowsNumbered
    <3>8. \A r, o \in Key : Attests(r)' /\ Attests(o)' /\ stored'[r].id = stored'[o].id => r = o
      BY <3>1, <3>3, <3>4 DEF RowsNumbered
    <3>9. \A r \in Key, o \in Session :
            Attests(r)' /\ pc'[o] = "commit" => serial'[o] # stored'[r].id
      BY <2>1, <3>1, <3>3, <3>6 DEF RowsNumbered
    <3> QED BY <2>1, <3>7, <3>8, <3>9 DEF RowsNumbered
  <2> QED BY <2>1, <2>3, <2>4
<1> QED BY <1>1, <1>2 DEF NextReaders, Tick, Rotate, Read, ReadLedger, ReadAttestation,
             BeginExport, QueryExport, Finish, vars, dbVars, columnVars
-----------------------------------------------------------------------------
\* An export between its statements: what it could see is still to be seen.
ExportInv ==
  reader.kind = "export" =>
    /\ reader.window \in Windows /\ reader.limit \in Limits
    /\ reader.stage = "query" => reader.seen \subseteq Visible(reader.dep, reader.window)

\* What an export rests on.
ExportsInv == ReadersInv /\ BeganInv /\ Numbered /\ RowsNumbered /\ ExportInv
           /\ NothingSeenIsMissing

\* The second statement answers for the first.
LEMMA QueryAnswers ==
  ASSUME ExportsInv, QueryExport
  PROVE  ExportInv' /\ NothingSeenIsMissing'
<1> DEFINE S == Visible(reader.dep, reader.window)
           F == First(S, reader.limit)
<1>1. /\ reader.kind = "export" /\ reader.seen \subseteq S
      /\ reader.window \in Windows /\ reader.limit \in Nat \ {0}
      /\ reader' = [reader EXCEPT !.stage = "done", !.rows = F]
      /\ UNCHANGED stored
  BY ReadersConstants DEF ExportsInv, ExportInv, QueryExport, columnVars
<1>2. /\ reader'.stage = "done" /\ reader'.seen = reader.seen /\ reader'.limit = reader.limit
      /\ reader'.window = reader.window /\ reader'.rows = F
  BY <1>1
<1>3. IsFiniteSet(S) /\ Dated(S)
  <2>1. S \subseteq Key /\ \A k \in S : Attests(k)
    BY DEF Visible, InWindow, Attests
  <2>2. IsFiniteSet(S)
    BY <2>1, FS_Subset, ReadersConstants
  <2> QED BY <2>1, <2>2 DEF Dated, ExportsInv, RowsNumbered
<1>4. /\ F # S => Cardinality(F) = reader.limit
      /\ \A o \in F, k \in S \ F : Before(o, k)
      /\ F \subseteq S
  BY <1>1, <1>3, FirstIsAPrefix, FirstIsFull DEF First
<1>5. \A k \in S : reader.window.until = None \/ stored[k].at < reader.window.until
  BY DEF Visible, InWindow
<1> HIDE DEF S, F
<1>6. ExportInv'
  BY <1>1, <1>2, ReadersConstants DEF ExportInv, ExportsInv
<1>7. NothingSeenIsMissing'
  <2>1. PossiblyTruncated' \/ reader'.seen \subseteq reader'.rows
    BY <1>1, <1>2, <1>4 DEF PossiblyTruncated
  <2>2. \A k \in reader'.seen \ reader'.rows, o \in reader'.rows : Before(o, k)'
    <3>1. \A k, o : Before(o, k)' <=> Before(o, k)
      BY <1>1 DEF Before
    <3> QED BY <1>1, <1>2, <1>4, <3>1
  <2>3. \A k \in reader'.rows :
          reader'.window.until = None \/ stored'[k].at < reader'.window.until
    BY <1>1, <1>2, <1>4, <1>5
  <2> QED BY <2>1, <2>2, <2>3 DEF NothingSeenIsMissing
<1> QED BY <1>6, <1>7

\* Every step keeps what an export has seen, and what it answers.
LEMMA ExportStep ==
  ASSUME ExportsInv, NextReaders
  PROVE  ExportInv' /\ NothingSeenIsMissing'
<1>1. CASE ~Answered /\ UNCHANGED reader
  <2>1. ExportInv'
    <3>1. ReadersInv /\ ExportInv
      BY DEF ExportsInv
    <3>2. Visible(reader.dep, reader.window) \subseteq Visible(reader.dep, reader.window)'
      BY <1>1, <3>1, ColumnsAreFinal DEF Visible, InWindow, Attests
    <3> QED BY <1>1, <3>1, <3>2 DEF ExportInv
  <2>2. ~Exported'
    BY <1>1 DEF Exported, Answered, Nobody
  <2> QED BY <2>1, <2>2 DEF NothingSeenIsMissing
<1>2. CASE reader'.kind # "export"
  BY <1>2 DEF ExportInv, NothingSeenIsMissing, Exported
<1>3. CASE Finish
  BY <1>2, <1>3 DEF Finish, Nobody
<1>4. ASSUME NEW k \in Key, ReadLedger(k)
      PROVE  reader'.kind # "export"
  BY <1>4 DEF ReadLedger, Audit
<1>5. CASE ReadAttestation
  <2>1. reader'.kind # "export"
    BY <1>5 DEF ReadAttestation
  <2> QED BY <1>2, <2>1
<1>6. ASSUME NEW d \in Deployment, NEW w \in Windows, NEW limit \in Limits, BeginExport(d, w, limit)
      PROVE  ExportInv' /\ NothingSeenIsMissing'
  <2>1. /\ reader'.kind = "export" /\ reader'.stage = "query" /\ reader'.dep = d
        /\ reader'.window = w /\ reader'.limit = limit /\ reader'.seen = Visible(d, w)
    BY <1>6 DEF BeginExport
  <2>2. Visible(reader.dep, reader.window)' = Visible(d, w)
    BY <1>6, <2>1 DEF BeginExport, Visible, InWindow, vars, dbVars, columnVars
  <2> QED BY <2>1, <2>2 DEF ExportInv, NothingSeenIsMissing, Exported
<1>7. CASE ~Answered /\ (Work \/ Tick \/ Rotate)
  BY <1>1, <1>7 DEF Work, Tick, Rotate
<1> QED BY <1>2, <1>3, <1>4, <1>5, <1>6, <1>7, QueryAnswers DEF NextReaders, Read

(* Whatever commits between the two statements of an export: what could be  *)
(* seen when it began is in its answer, or comes after all of it and the    *)
(* answer says that it may be truncated (audit-export.js 48-66, 153-160).   *)
THEOREM ExportsMissNothing == SpecReaders => []NothingSeenIsMissing
<1>1. InitReaders => BeganInv /\ Numbered /\ RowsNumbered /\ ExportInv /\ NothingSeenIsMissing
  BY DEF InitReaders, BeganInv, InTransaction, Numbered, RowsNumbered, Attests, ExportInv,
         NothingSeenIsMissing, Exported, Nobody
<1>2. ExportsInv /\ [NextReaders]_allVars /\ ReadersInv' => ExportsInv'
  <2>1. ASSUME ExportsInv, UNCHANGED allVars, ReadersInv'
        PROVE  ExportsInv'
    <3>1. UNCHANGED <<attestations, pc, clock, began, serial, nextId, stored, reader>>
      BY <2>1 DEF allVars, vars, dbVars, readerVars, columnVars
    <3>2. BeganInv' /\ Numbered' /\ RowsNumbered'
      BY <2>1, <3>1 DEF ExportsInv, BeganInv, Numbered, RowsNumbered, Attests
    <3>3. ExportInv' /\ NothingSeenIsMissing'
      BY <2>1, <3>1 DEF ExportsInv, ExportInv, NothingSeenIsMissing, Visible, InWindow,
                        Exported, PossiblyTruncated, Before
    <3> QED BY <2>1, <3>2, <3>3 DEF ExportsInv
  <2>2. ASSUME ExportsInv, NextReaders, ReadersInv'
        PROVE  ExportsInv'
    BY <2>2, BeganStep, RowsNumberedStep, ExportStep DEF ExportsInv, ReadersInv
  <2> QED BY <2>1, <2>2
<1>3. ExportsInv => NothingSeenIsMissing
  BY DEF ExportsInv
<1>4. InitReaders /\ ReadersInv => ExportsInv
  BY <1>1 DEF ExportsInv
<1> QED BY ReadersInductive, <1>2, <1>3, <1>4, PTL DEF SpecReaders
=============================================================================
