--------------------------- MODULE PgAtomicProofs ---------------------------
(***************************************************************************)
(* Proofs about PgAtomic for any number of sessions, grants, nonces and    *)
(* articles: the inductive invariant IInv, and from it the safety          *)
(* properties the runs check on small instances.                           *)
(***************************************************************************)
EXTENDS PgAtomic, TLAPS

(* The value None is no record, and a grant has the fields of GrantType.    *)
LEMMA NullFacts ==
  /\ None \notin Challenge /\ None \notin LedgerRow /\ None \notin Token
  /\ None \notin Mutation /\ None \notin Request /\ None \notin Signature
  /\ None \notin Status /\ None \notin Digest /\ None \notin Preimage
BY NullIsNoRow

(* What TypeOK and the assumptions say of a grant: its fields and its key.  *)
LEMMA GrantFacts ==
  ASSUME NEW g \in Grant
  PROVE  /\ g.dep \in Deployment /\ g.jti \in Jti /\ g.nonce \in Nonce
         /\ g.op \in {"publish", "deploy"} /\ g.version \in {"v1", "v2"}
         /\ KeyOf(g) \in Key
BY PgConstants DEF GrantType, KeyOf, Key

(* The digest of a target is a digest, whatever the articles hold.          *)
LEMMA DigestType ==
  ASSUME NEW t \in Target PROVE DigestOf(t) \in Digest
BY DEF DigestOf, Digest

(* The empty database with idle sessions satisfies the invariant.           *)
LEMMA InitInv == Init => IInv
<1> SUFFICES ASSUME Init PROVE IInv
  OBVIOUS
<1>1. TypeOK
  <2>1. \A k \in Key : attestations[k] \in Seq(Token) /\ effects[k] \in Seq(Mutation)
    BY DEF Init
  <2>2. attestations \in [Key -> Seq(Token)] /\ effects \in [Key -> Seq(Mutation)]
    BY <2>1 DEF Init
  <2>3. QED
    BY <2>2 DEF Init, TypeOK
<1>2. LocksExclusive /\ \A s \in Session : SessionInv(s)
  BY DEF Init, LocksExclusive, SessionInv
<1>3. OneUse /\ NonceSingleUse /\ EvidenceBindsEffect /\ NoStrayEvidence
  BY DEF Init, OneUse, NonceSingleUse, EvidenceBindsEffect, NoStrayEvidence
<1>4. (\A s \in Session : StageLocks(s) /\ SessionRow(s)) /\ CommittedRows /\ RowsTouchedOnce
  BY DEF Init, StageLocks, SessionRow, CommittedRows, RowsTouchedOnce
<1>5. QED
  BY <1>1, <1>2, <1>3, <1>4 DEF IInv

-----------------------------------------------------------------------------
(* Types: one step per action.                                              *)
LEMMA EndSessionType ==
  ASSUME TypeOK, NEW s \in Session, EndSession(s)
  PROVE  /\ pc' \in [Session -> InTransaction \cup {"idle", "connect"}]
         /\ req' \in [Session -> Request \cup {None}]
         /\ seen' \in [Session -> Challenge \cup {None}]
         /\ locks' \in [Session -> SUBSET Lockable]
         /\ row' \in [Session -> LedgerRow \cup {None}]
         /\ mut' \in [Session -> Mutation \cup {None}]
         /\ paper' \in [Session -> Token \cup {None}]
BY DEF TypeOK, EndSession

(* An answer about a session's own grant is a reply.                        *)
LEMMA ReplyType ==
  ASSUME NEW s \in Session, req[s] \in Request, NEW st \in Status
  PROVE  ReplyOf(s, st) \in Reply
BY GrantFacts DEF ReplyOf, Reply, GrantOf, Request

(* What a session knows has its type from the stage that read it on.        *)
LEMMA SessionFacts ==
  ASSUME TypeOK, NEW s \in Session, SessionInv(s)
  PROVE  /\ pc[s] # "idle" =>
              /\ req[s] \in Request /\ GrantOf(s) \in Grant
              /\ GrantOf(s).nonce \in Nonce /\ KeyOf(GrantOf(s)) \in Key
         /\ pc[s] \in {"mutate", "seal", "persist", "commit"} => row[s] \in LedgerRow
         /\ pc[s] \in {"seal", "persist", "commit"} => mut[s] \in Mutation
<1>1. pc[s] # "idle" => req[s] # None
  BY DEF SessionInv
<1>2. pc[s] \in {"mutate", "seal", "persist", "commit"} => row[s] # None
  BY DEF SessionInv
<1>3. pc[s] \in {"seal", "persist", "commit"} => mut[s] # None
  BY DEF SessionInv
<1>4. req[s] \in Request \cup {None}
  BY DEF TypeOK
<1>5. row[s] \in LedgerRow \cup {None}
  BY DEF TypeOK
<1>6. mut[s] \in Mutation \cup {None}
  BY DEF TypeOK
<1>7. pc[s] # "idle" => req[s] \in Request /\ GrantOf(s) \in Grant
  BY <1>1, <1>4 DEF Request, GrantOf
<1>8. QED
  BY <1>2, <1>3, <1>5, <1>6, <1>7, GrantFacts

(* TypeOK in groups, and the groups a step leaves alone.                    *)
DbTypes ==
  /\ articles \in [Article -> Content \cup {Unborn, Deleted}]
  /\ challenges \in [Nonce -> Challenge \cup {None}]
  /\ ledger \in [Key -> LedgerRow \cup {None}]
  /\ attestations \in [Key -> Seq(Token)]
  /\ drafts \in [Nonce -> Digest \cup {None}]

StageTypes ==
  /\ pc \in [Session -> InTransaction \cup {"idle", "connect"}]
  /\ req \in [Session -> Request \cup {None}]
  /\ seen \in [Session -> Challenge \cup {None}]
  /\ locks \in [Session -> SUBSET Lockable]
  /\ reply \in [Session -> Reply \cup {None}]

OwnTypes ==
  /\ row \in [Session -> LedgerRow \cup {None}]
  /\ mut \in [Session -> Mutation \cup {None}]
  /\ paper \in [Session -> Token \cup {None}]

HistoryTypes ==
  /\ effects \in [Key -> Seq(Mutation)]
  /\ spentBy \in [Nonce -> SUBSET Key]

(* TypeOK is the conjunction of its four groups.                            *)
LEMMA TypeGroups == TypeOK <=> DbTypes /\ StageTypes /\ OwnTypes /\ HistoryTypes
BY Zenon DEF TypeOK, DbTypes, StageTypes, OwnTypes, HistoryTypes

(* A step that keeps the four groups keeps TypeOK.                          *)
LEMMA NextGroups ==
  ASSUME DbTypes', StageTypes', OwnTypes', HistoryTypes'
  PROVE  TypeOK'
BY Zenon DEF TypeOK, DbTypes, StageTypes, OwnTypes, HistoryTypes

(* A step that leaves the tables and the history alone keeps their types.   *)
LEMMA DbKept ==
  ASSUME TypeOK, UNCHANGED <<dbVars, drafts, history>>
  PROVE  DbTypes' /\ HistoryTypes'
<1>1. DbTypes /\ HistoryTypes
  BY TypeGroups
<1>2. QED
  BY <1>1 DEF DbTypes, HistoryTypes, dbVars, history

(* A step that leaves what sessions hold of their own alone keeps its types.*)
LEMMA OwnKept ==
  ASSUME TypeOK, UNCHANGED <<row, mut, paper>>
  PROVE  OwnTypes'
<1>1. OwnTypes
  BY TypeGroups
<1>2. QED
  BY <1>1 DEF OwnTypes

(* A step that moves a session's pc and leaves what the transaction wrote,  *)
(* and everything committed, alone.                                         *)
LEMMA StageMoved ==
  ASSUME TypeOK, NEW s \in Session, NEW stage \in InTransaction \cup {"idle", "connect"},
         pc' = [pc EXCEPT ![s] = stage]
  PROVE  pc' \in [Session -> InTransaction \cup {"idle", "connect"}]
<1>1. pc \in [Session -> InTransaction \cup {"idle", "connect"}]
  BY DEF TypeOK
<1>2. QED
  BY <1>1

(* A refusal keeps pc and reply of their types.                             *)
LEMMA RefuseType ==
  ASSUME TypeOK, NEW s \in Session, NEW st \in Status, req[s] \in Request, Refuse(s, st)
  PROVE  /\ pc' \in [Session -> InTransaction \cup {"idle", "connect"}]
         /\ reply' \in [Session -> Reply \cup {None}]
<1>1. ReplyOf(s, st) \in Reply
  BY ReplyType
<1>2. reply \in [Session -> Reply \cup {None}]
  BY DEF TypeOK
<1>3. pc' = [pc EXCEPT ![s] = "abort"] /\ reply' = [reply EXCEPT ![s] = ReplyOf(s, st)]
  BY DEF Refuse
<1>4. "abort" \in InTransaction
  BY DEF InTransaction
<1>5. QED
  BY <1>1, <1>2, <1>3, <1>4, StageMoved

(* Every action keeps every variable's type.                                *)
LEMMA TypeStep ==
  ASSUME TypeOK, \A o \in Session : SessionInv(o), [Next]_vars
  PROVE  TypeOK'
<1>1. ASSUME NEW n \in Nonce, NEW t \in Target, MeasureState(n, t)
      PROVE  TypeOK'
  BY <1>1, DigestType DEF MeasureState, TypeOK, dbVars, txVars, history
<1>2. ASSUME NEW n \in Nonce, IssueChallenge(n)
      PROVE  TypeOK'
  BY <1>2 DEF IssueChallenge, TypeOK, txVars, history, Challenge, Digest
<1>3. ASSUME NEW n \in Nonce, ChallengeExpires(n)
      PROVE  TypeOK'
  BY <1>3 DEF ChallengeExpires, TypeOK, txVars, history, Challenge
<1>4. ASSUME NEW a \in Article, OwnerWrite(a)
      PROVE  TypeOK'
  BY <1>4 DEF OwnerWrite, TypeOK, txVars, history
<1>5. ASSUME NEW s \in Session, NEW g \in Grant, NEW t \in Target,
             NEW p \in Nonce \cup {NoNonce}, Receive(s, g, t, p)
      PROVE  TypeOK'
  <2>1. PreGateRefusal(s, g, p) \in Status \cup {None}
    BY DEF PreGateRefusal, Status
  <2>2. [grant |-> g, target |-> t] \in Request
    BY DEF Request
  <2>3. PreGateRefusal(s, g, p) # None =>
          [key |-> KeyOf(g), nonce |-> g.nonce, status |-> PreGateRefusal(s, g, p)] \in Reply
    BY <2>1, GrantFacts DEF Reply
  <2>4. /\ UNCHANGED <<dbVars, drafts, history>> /\ UNCHANGED <<row, mut, paper>>
        /\ UNCHANGED <<seen, locks>>
    BY <1>5 DEF Receive
  <2>5. seen \in [Session -> Challenge \cup {None}] /\ locks \in [Session -> SUBSET Lockable]
    BY DEF TypeOK
  <2>6. req \in [Session -> Request \cup {None}] /\ reply \in [Session -> Reply \cup {None}]
        /\ pc \in [Session -> InTransaction \cup {"idle", "connect"}]
    BY DEF TypeOK
  <2>7. \/ /\ pc' = [pc EXCEPT ![s] = "connect"]
           /\ req' = [req EXCEPT ![s] = [grant |-> g, target |-> t]]
           /\ reply' = [reply EXCEPT ![s] = None]
        \/ /\ PreGateRefusal(s, g, p) # None
           /\ reply' = [reply EXCEPT ![s] = [ key |-> KeyOf(g), nonce |-> g.nonce,
                                              status |-> PreGateRefusal(s, g, p) ]]
           /\ UNCHANGED <<pc, req>>
    BY <1>5, Zenon DEF Receive
  <2>8. /\ pc' \in [Session -> InTransaction \cup {"idle", "connect"}]
        /\ req' \in [Session -> Request \cup {None}]
        /\ reply' \in [Session -> Reply \cup {None}]
    BY <2>2, <2>3, <2>6, <2>7
  <2>9. StageTypes'
    BY <2>4, <2>5, <2>8 DEF StageTypes
  <2>10. QED
    BY <2>4, <2>9, DbKept, OwnKept, NextGroups
<1>6. ASSUME NEW s \in Session, Connect(s)
      PROVE  TypeOK'
  BY <1>6 DEF Connect, TypeOK, dbVars, txVars, history, InTransaction
<1>7. ASSUME NEW s \in Session, LockChallenge(s)
      PROVE  TypeOK'
  <2>1. req[s] \in Request /\ GrantOf(s) \in Grant
    BY <1>7, SessionFacts DEF LockChallenge
  <2>2. GrantOf(s).nonce \in Nonce
    BY <2>1, GrantFacts
  <2>3. <<"challenge", GrantOf(s).nonce>> \in Lockable
    BY <2>2 DEF Lockable
  <2>4. LockRefusal(s, challenges[GrantOf(s).nonce]) \in Status \cup {None}
    BY DEF LockRefusal, Status
  <2>5. /\ UNCHANGED <<dbVars, drafts, history>> /\ UNCHANGED <<row, mut, paper>>
        /\ UNCHANGED req
    BY <1>7 DEF LockChallenge
  <2>6. locks' \in [Session -> SUBSET Lockable]
    <3>1. locks \in [Session -> SUBSET Lockable]
      BY DEF TypeOK
    <3>2. \/ locks' = [locks EXCEPT ![s] = @]
          \/ locks' = [locks EXCEPT ![s] = @ \cup {<<"challenge", GrantOf(s).nonce>>}]
      BY <1>7 DEF LockChallenge, ChallengeLock
    <3>3. QED
      BY <2>3, <3>1, <3>2
  <2>7. seen' \in [Session -> Challenge \cup {None}]
    <3>1. /\ seen \in [Session -> Challenge \cup {None}]
          /\ challenges[GrantOf(s).nonce] \in Challenge \cup {None}
      BY <2>2 DEF TypeOK
    <3>2. seen' = [seen EXCEPT ![s] = challenges[GrantOf(s).nonce]]
      BY <1>7 DEF LockChallenge
    <3>3. QED
      BY <3>1, <3>2
  <2>8. /\ pc' \in [Session -> InTransaction \cup {"idle", "connect"}]
        /\ reply' \in [Session -> Reply \cup {None}]
    <3> DEFINE refusal == LockRefusal(s, challenges[GrantOf(s).nonce])
    <3>1. \/ pc' = [pc EXCEPT ![s] = "cas"] /\ UNCHANGED reply
          \/ refusal # None /\ Refuse(s, refusal)
      BY <1>7, Zenon DEF LockChallenge
    <3>2. CASE pc' = [pc EXCEPT ![s] = "cas"] /\ UNCHANGED reply
      <4>1. reply \in [Session -> Reply \cup {None}] /\ "cas" \in InTransaction
        BY DEF TypeOK, InTransaction
      <4>2. QED
        BY <3>2, <4>1, StageMoved
    <3>3. CASE refusal # None /\ Refuse(s, refusal)
      BY <2>1, <2>4, <3>3, RefuseType
    <3>4. QED
      BY <3>1, <3>2, <3>3
  <2>9. req' \in [Session -> Request \cup {None}]
    BY <2>5 DEF TypeOK
  <2>10. StageTypes'
    BY <2>6, <2>7, <2>8, <2>9 DEF StageTypes
  <2>11. QED
    BY <2>5, <2>10, DbKept, OwnKept, NextGroups
<1>8. ASSUME NEW s \in Session, CompareState(s)
      PROVE  TypeOK'
  <2>1. req[s] \in Request
    BY <1>8, SessionFacts DEF CompareState
  <2>2. /\ UNCHANGED <<dbVars, drafts, history>> /\ UNCHANGED <<row, mut, paper>>
        /\ UNCHANGED <<req, seen, locks>>
    BY <1>8 DEF CompareState, txVars
  <2>3. /\ pc' \in [Session -> InTransaction \cup {"idle", "connect"}]
        /\ reply' \in [Session -> Reply \cup {None}]
    <3>1. \/ Refuse(s, "STATE_DRIFT") \/ Refuse(s, "STATE_TOKEN_MISMATCH")
          \/ pc' = [pc EXCEPT ![s] = "claim"] /\ UNCHANGED reply
      BY <1>8, Zenon DEF CompareState
    <3>2. CASE Refuse(s, "STATE_DRIFT") \/ Refuse(s, "STATE_TOKEN_MISMATCH")
      BY <2>1, <3>2, RefuseType DEF Status
    <3>3. CASE pc' = [pc EXCEPT ![s] = "claim"] /\ UNCHANGED reply
      <4>1. reply \in [Session -> Reply \cup {None}] /\ "claim" \in InTransaction
        BY DEF TypeOK, InTransaction
      <4>2. QED
        BY <3>3, <4>1, StageMoved
    <3>4. QED
      BY <3>1, <3>2, <3>3
  <2>4. /\ req' \in [Session -> Request \cup {None}]
        /\ seen' \in [Session -> Challenge \cup {None}]
        /\ locks' \in [Session -> SUBSET Lockable]
    BY <2>2 DEF TypeOK
  <2>5. StageTypes'
    BY <2>3, <2>4 DEF StageTypes
  <2>6. QED
    BY <2>2, <2>5, DbKept, OwnKept, NextGroups
<1>9. ASSUME NEW s \in Session, ClaimGrant(s)
      PROVE  TypeOK'
  <2>1. req[s] \in Request /\ GrantOf(s) \in Grant
    BY <1>9, SessionFacts DEF ClaimGrant
  <2>2. <<"grant", KeyOf(GrantOf(s))>> \in Lockable
    BY <2>1, GrantFacts DEF Lockable
  <2>3. /\ UNCHANGED <<dbVars, drafts, history>>
        /\ UNCHANGED <<req, seen, mut, paper>>
    BY <1>9 DEF ClaimGrant
  <2>4. [status |-> "consumed", preimage |-> None, ref |-> None] \in LedgerRow
    BY DEF LedgerRow
  <2>5. locks' \in [Session -> SUBSET Lockable] /\ row' \in [Session -> LedgerRow \cup {None}]
    <3>1. \/ UNCHANGED <<locks, row>>
          \/ /\ locks' = [locks EXCEPT ![s] = @ \cup {<<"grant", KeyOf(GrantOf(s))>>}]
             /\ row' = [row EXCEPT ![s] =
                         [status |-> "consumed", preimage |-> None, ref |-> None]]
      BY <1>9, Zenon DEF ClaimGrant, Spent, Reused
    <3>2. locks[s] \cup {<<"grant", KeyOf(GrantOf(s))>>} \in SUBSET Lockable
      BY <2>2 DEF TypeOK
    <3>3. locks' \in [Session -> SUBSET Lockable]
      BY <3>1, <3>2 DEF TypeOK
    <3>4. row' \in [Session -> LedgerRow \cup {None}]
      BY <2>4, <3>1 DEF TypeOK
    <3>5. QED
      BY <3>3, <3>4
  <2>6. /\ pc' \in [Session -> InTransaction \cup {"idle", "connect"}]
        /\ reply' \in [Session -> Reply \cup {None}]
    <3>1. \/ Refuse(s, "GRANT_CONSUMED")
          \/ Refuse(s, "STATE_CHALLENGE_CONSUMED")
          \/ pc' = [pc EXCEPT ![s] = "mutate"] /\ UNCHANGED reply
      BY <1>9, Zenon DEF ClaimGrant, Spent, Reused
    <3>2. CASE Refuse(s, "GRANT_CONSUMED") \/ Refuse(s, "STATE_CHALLENGE_CONSUMED")
      BY <2>1, <3>2, RefuseType DEF Status
    <3>3. CASE pc' = [pc EXCEPT ![s] = "mutate"] /\ UNCHANGED reply
      <4>1. reply \in [Session -> Reply \cup {None}] /\ "mutate" \in InTransaction
        BY DEF TypeOK, InTransaction
      <4>2. QED
        BY <3>3, <4>1, StageMoved
    <3>4. QED
      BY <3>1, <3>2, <3>3
  <2>7. /\ req' \in [Session -> Request \cup {None}]
        /\ seen' \in [Session -> Challenge \cup {None}]
        /\ mut' \in [Session -> Mutation \cup {None}]
        /\ paper' \in [Session -> Token \cup {None}]
    BY <2>3 DEF TypeOK
  <2>8. StageTypes' /\ OwnTypes'
    BY <2>5, <2>6, <2>7 DEF StageTypes, OwnTypes
  <2>9. QED
    BY <2>3, <2>8, DbKept, NextGroups
<1>10. ASSUME NEW s \in Session, Mutate(s)
       PROVE  TypeOK'
  <2>1. req[s] \in Request /\ GrantOf(s) \in Grant
    BY <1>10, SessionFacts DEF Mutate
  <2>2. row[s] \in LedgerRow
    BY <1>10, SessionFacts DEF Mutate
  <2>3. PICK m \in Mutation, held \in SUBSET Lockable : Write(s, m, held)
    <3>1. CASE \E a \in Article, c \in Content : Publish(s, a, c)
      BY <3>1 DEF Publish, Mutation, Lockable
    <3>2. CASE req[s].target \in Article /\ DeleteRow(s, req[s].target)
      BY <3>2 DEF DeleteRow, Mutation, Lockable
    <3>3. CASE req[s].target \in Article /\ DeleteNothing(s, req[s].target)
      BY <3>3 DEF DeleteNothing, Mutation
    <3>4. QED
      BY <1>10, <3>1, <3>2, <3>3 DEF Mutate
  <2>4. GatePreimage(s, m) \in Preimage
    BY <2>1, GrantFacts DEF GatePreimage, Preimage, Request
  <2>5. row' \in [Session -> LedgerRow \cup {None}]
    <3>1. [ status |-> row[s].status, ref |-> row[s].ref,
            preimage |-> GatePreimage(s, m) ] \in LedgerRow
      BY <2>2, <2>4 DEF LedgerRow
    <3>2. row' = [row EXCEPT ![s] = [ status |-> row[s].status, ref |-> row[s].ref,
                                      preimage |-> GatePreimage(s, m) ]]
      BY <2>3 DEF Write
    <3>3. row \in [Session -> LedgerRow \cup {None}]
      BY DEF TypeOK
    <3>4. QED
      BY <3>1, <3>2, <3>3
  <2>6. locks' \in [Session -> SUBSET Lockable] /\ mut' \in [Session -> Mutation \cup {None}]
    BY <2>3 DEF Write, TypeOK
  <2>7. /\ UNCHANGED <<dbVars, drafts, history>> /\ UNCHANGED <<req, seen, paper, reply>>
        /\ pc' = [pc EXCEPT ![s] = "seal"]
    BY <1>10 DEF Mutate
  <2>8. pc' \in [Session -> InTransaction \cup {"idle", "connect"}]
    BY <2>7, StageMoved DEF InTransaction
  <2>9. /\ req' \in [Session -> Request \cup {None}]
        /\ seen' \in [Session -> Challenge \cup {None}]
        /\ paper' \in [Session -> Token \cup {None}]
        /\ reply' \in [Session -> Reply \cup {None}]
    BY <2>7 DEF TypeOK
  <2>10. StageTypes' /\ OwnTypes'
    BY <2>5, <2>6, <2>8, <2>9 DEF StageTypes, OwnTypes
  <2>11. QED
    BY <2>7, <2>10, DbKept, NextGroups
<1>11. ASSUME NEW s \in Session, Seal(s)
       PROVE  TypeOK'
  <2>1. req[s] \in Request /\ row[s] \in LedgerRow /\ mut[s] \in Mutation
    BY <1>11, SessionFacts DEF Seal
  <2>2. PreimageOf(s) \in Preimage /\ Sign(PreimageOf(s)) \in Signature
    BY <2>1, GrantFacts DEF PreimageOf, GatePreimage, Preimage, Request, GrantOf, Sign, Signature
  <2>3. ReplyOf(s, "SEAL_FAILED") \in Reply
    BY <2>1, ReplyType DEF Status
  <2>4. CASE Raise(s)
    BY <1>11, <2>3, <2>4, EndSessionType DEF Seal, Raise, TypeOK, dbVars, history
  <2>5. CASE ~Raise(s)
    <3>1. row' = [row EXCEPT ![s] = [ status |-> "sealed", preimage |-> @.preimage,
                                      ref |-> Sign(PreimageOf(s)) ]]
      BY <1>11, <2>5 DEF Seal
    <3>2. [ status |-> "sealed", preimage |-> row[s].preimage,
            ref |-> Sign(PreimageOf(s)) ] \in LedgerRow
      BY <2>1, <2>2 DEF LedgerRow
    <3>3. row' \in [Session -> LedgerRow \cup {None}]
      BY <3>1, <3>2 DEF TypeOK
    <3>4. /\ UNCHANGED <<dbVars, drafts, history>>
          /\ UNCHANGED <<req, seen, locks, mut, paper, reply>>
          /\ pc' = [pc EXCEPT ![s] = "persist"]
      BY <1>11, <2>5 DEF Seal
    <3>5. pc' \in [Session -> InTransaction \cup {"idle", "connect"}]
      BY <3>4, StageMoved DEF InTransaction
    <3>6. /\ req' \in [Session -> Request \cup {None}]
          /\ seen' \in [Session -> Challenge \cup {None}]
          /\ locks' \in [Session -> SUBSET Lockable]
          /\ mut' \in [Session -> Mutation \cup {None}]
          /\ paper' \in [Session -> Token \cup {None}]
          /\ reply' \in [Session -> Reply \cup {None}]
      BY <3>4 DEF TypeOK
    <3>7. StageTypes' /\ OwnTypes'
      BY <3>3, <3>5, <3>6 DEF StageTypes, OwnTypes
    <3>8. QED
      BY <3>4, <3>7, DbKept, NextGroups
  <2>6. QED
    BY <2>4, <2>5
<1>12. ASSUME NEW s \in Session, Persist(s)
       PROVE  TypeOK'
  <2>1. req[s] \in Request /\ mut[s] \in Mutation
    BY <1>12, SessionFacts DEF Persist
  <2>2. PreimageOf(s) \in Preimage /\ TokenOf(s) \in Token
    BY <2>1, GrantFacts
       DEF PreimageOf, GatePreimage, Preimage, Request, GrantOf, Sign, Signature, TokenOf, Token
  <2>3. ReplyOf(s, "SEAL_FAILED") \in Reply
    BY <2>1, ReplyType DEF Status
  <2>4. CASE Raise(s)
    BY <1>12, <2>3, <2>4, EndSessionType DEF Persist, Raise, TypeOK, dbVars, history
  <2>5. CASE ~Raise(s)
    <3>1. /\ UNCHANGED <<dbVars, drafts, history>>
          /\ UNCHANGED <<req, seen, locks, row, mut, reply>>
          /\ pc' = [pc EXCEPT ![s] = "commit"]
          /\ paper' = [paper EXCEPT ![s] = TokenOf(s)]
      BY <1>12, <2>5 DEF Persist
    <3>2. pc' \in [Session -> InTransaction \cup {"idle", "connect"}]
      BY <3>1, StageMoved DEF InTransaction
    <3>3. paper \in [Session -> Token \cup {None}]
      BY DEF TypeOK
    <3>4. paper' \in [Session -> Token \cup {None}]
      BY <2>2, <3>1, <3>3
    <3>5. /\ req' \in [Session -> Request \cup {None}]
          /\ seen' \in [Session -> Challenge \cup {None}]
          /\ locks' \in [Session -> SUBSET Lockable]
          /\ row' \in [Session -> LedgerRow \cup {None}]
          /\ mut' \in [Session -> Mutation \cup {None}]
          /\ reply' \in [Session -> Reply \cup {None}]
      BY <3>1 DEF TypeOK
    <3>6. StageTypes' /\ OwnTypes'
      BY <3>2, <3>4, <3>5 DEF StageTypes, OwnTypes
    <3>7. QED
      BY <3>1, <3>6, DbKept, NextGroups
  <2>6. QED
    BY <2>4, <2>5
<1>13. ASSUME NEW s \in Session, pc[s] = "commit", MakeVisible(s), EndSession(s),
              UNCHANGED drafts, reply' \in [Session -> Reply \cup {None}]
       PROVE  TypeOK'
  <2>1. req[s] \in Request /\ row[s] \in LedgerRow /\ mut[s] \in Mutation
        /\ paper[s] = TokenOf(s)
    <3>1. paper[s] = TokenOf(s)
      BY <1>13 DEF SessionInv
    <3>2. QED
      BY <1>13, <3>1, SessionFacts
  <2>2. GrantOf(s) \in Grant /\ KeyOf(GrantOf(s)) \in Key /\ GrantOf(s).nonce \in Nonce
    BY <2>1, GrantFacts DEF GrantOf, Request
  <2>3. TokenOf(s) \in Token
    BY <2>1, <2>2
       DEF PreimageOf, GatePreimage, Preimage, Request, GrantOf, Sign, Signature, TokenOf, Token
  <2>4. articles' \in [Article -> Content \cup {Unborn, Deleted}]
    BY <1>13, <2>1 DEF MakeVisible, Attested, TypeOK, Mutation
  <2>5. challenges' \in [Nonce -> Challenge \cup {None}]
    <3> DEFINE n == GrantOf(s).nonce
    <3>1. challenges[n] \in Challenge
      <4>1. challenges[n] # None
        BY <1>13 DEF SessionInv
      <4>2. QED
        BY <2>2, <4>1 DEF TypeOK
    <3>2. [ target |-> challenges[n].target, digest |-> challenges[n].digest,
            expired |-> challenges[n].expired, consumed |-> TRUE ] \in Challenge
      BY <3>1 DEF Challenge
    <3>3. QED
      BY <1>13, <2>2, <3>2 DEF MakeVisible, Attested, TypeOK
  <2>6. /\ ledger' \in [Key -> LedgerRow \cup {None}]
        /\ spentBy' \in [Nonce -> SUBSET Key]
    BY <1>13, <2>1, <2>2 DEF MakeVisible, Attested, TypeOK
  <2>7. /\ attestations' \in [Key -> Seq(Token)]
        /\ effects' \in [Key -> Seq(Mutation)]
    BY <1>13, <2>1, <2>2, <2>3 DEF MakeVisible, Attested, TypeOK
  <2>8. QED
    BY <1>13, <2>4, <2>5, <2>6, <2>7, EndSessionType DEF TypeOK
<1>14. ASSUME NEW s \in Session, Commit(s) \/ CommitUnacknowledged(s)
       PROVE  TypeOK'
  <2>1. req[s] \in Request
    BY <1>14, SessionFacts DEF Commit, CommitUnacknowledged
  <2>2. ReplyOf(s, "OK") \in Reply /\ ReplyOf(s, "SEAL_FAILED") \in Reply
    BY <2>1, ReplyType DEF Status
  <2>3. reply' \in [Session -> Reply \cup {None}]
    <3>1. reply \in [Session -> Reply \cup {None}]
      BY DEF TypeOK
    <3>2. \E answer \in {ReplyOf(s, "OK"), ReplyOf(s, "SEAL_FAILED"), None} :
            reply' = [reply EXCEPT ![s] = answer]
      BY <1>14 DEF Commit, CommitUnacknowledged
    <3>3. QED
      BY <2>2, <3>1, <3>2
  <2>4. QED
    BY <1>13, <1>14, <2>3 DEF Commit, CommitUnacknowledged
<1>15. ASSUME NEW s \in Session, Rollback(s) \/ StatementFails(s) \/ ProcessDies(s)
       PROVE  TypeOK'
  <2>1. pc[s] \in InTransaction \cup {"connect"} => req[s] \in Request
    BY SessionFacts DEF InTransaction
  <2>2. StatementFails(s) => ReplyOf(s, "SEAL_FAILED") \in Reply
    BY <2>1, ReplyType DEF Status, StatementFails
  <2>3. reply' \in [Session -> Reply \cup {None}]
    BY <1>15, <2>2 DEF Rollback, StatementFails, ProcessDies, Raise, TypeOK
  <2>4. EndSession(s) /\ UNCHANGED <<dbVars, drafts, history>>
    BY <1>15 DEF Rollback, StatementFails, ProcessDies, Raise
  <2>5. QED
    BY <2>3, <2>4, EndSessionType DEF TypeOK, dbVars, history
<1>16. CASE UNCHANGED vars
  BY <1>16 DEF vars, dbVars, txVars, history, TypeOK
<1>17. QED
  BY <1>1, <1>2, <1>3, <1>4, <1>5, <1>6, <1>7, <1>8, <1>9, <1>10, <1>11, <1>12,
     <1>14, <1>15, <1>16 DEF Next, Step

-----------------------------------------------------------------------------
(* What one session knows survives any step that leaves it alone, because   *)
(* it holds its challenge and its key locked.                               *)
Untouched(o) ==
  /\ pc'[o] = pc[o] /\ req'[o] = req[o] /\ seen'[o] = seen[o]
  /\ locks'[o] = locks[o] /\ row'[o] = row[o] /\ mut'[o] = mut[o]
  /\ paper'[o] = paper[o]

PastLock(o)  == pc[o] \in {"cas", "claim", "mutate", "seal", "persist", "commit"}
PastClaim(o) == pc[o] \in {"mutate", "seal", "persist", "commit"}

(* SessionInv(o) is kept by a step that leaves o and, once o holds them     *)
(* locked, its challenge's stamp and its ledger row alone.                  *)
LEMMA SessionFrame ==
  ASSUME NEW o \in Session, SessionInv(o), Untouched(o),
         PastLock(o) => /\ challenges'[GrantOf(o).nonce] # None
                        /\ challenges'[GrantOf(o).nonce].consumed
                             = challenges[GrantOf(o).nonce].consumed,
         PastClaim(o) => ledger'[KeyOf(GrantOf(o))] = ledger[KeyOf(GrantOf(o))]
  PROVE  SessionInv(o)'
<1>1. /\ GrantOf(o)' = GrantOf(o) /\ PreimageOf(o)' = PreimageOf(o)
      /\ TokenOf(o)' = TokenOf(o)
  BY DEF Untouched, GrantOf, KeyOf, PreimageOf, GatePreimage, TokenOf, Sign
<1>2. KeyOf(GrantOf(o))' = KeyOf(GrantOf(o)) /\ Sign(PreimageOf(o))' = Sign(PreimageOf(o))
  BY <1>1 DEF KeyOf, Sign
<1>3. QED
  BY <1>1, <1>2 DEF SessionInv, Untouched, PastLock, PastClaim

(* The same when the step leaves every challenge and the ledger alone.      *)
LEMMA OthersKept ==
  ASSUME NEW s \in Session, \A o \in Session : SessionInv(o),
         UNCHANGED <<challenges, ledger>>,
         \A o \in Session \ {s} : Untouched(o)
  PROVE  \A o \in Session \ {s} : SessionInv(o)'
<1> SUFFICES ASSUME NEW o \in Session \ {s} PROVE SessionInv(o)'
  OBVIOUS
<1>1. PastLock(o) => challenges[GrantOf(o).nonce] # None
  BY DEF SessionInv, PastLock
<1>2. QED
  BY <1>1, SessionFrame

(* An action of s writes to s only.                                         *)
LEMMA OwnStep ==
  ASSUME TypeOK, NEW s \in Session,
         \/ Connect(s) \/ LockChallenge(s) \/ CompareState(s) \/ ClaimGrant(s)
         \/ Mutate(s) \/ Seal(s) \/ Persist(s) \/ Rollback(s)
         \/ StatementFails(s) \/ ProcessDies(s) \/ Commit(s)
         \/ CommitUnacknowledged(s)
  PROVE  \A o \in Session \ {s} : Untouched(o)
<1>1. CASE Connect(s) \/ CompareState(s)
  BY <1>1 DEF Connect, CompareState, Refuse, TypeOK, txVars, Untouched
<1>2. CASE LockChallenge(s)
  BY <1>2 DEF LockChallenge, ChallengeLock, Refuse, TypeOK, Untouched
<1>3. CASE ClaimGrant(s)
  <2>1. /\ \/ UNCHANGED locks
           \/ locks' = [locks EXCEPT ![s] = @ \cup {<<"grant", KeyOf(GrantOf(s))>>}]
        /\ \/ UNCHANGED row
           \/ row' = [row EXCEPT ![s] =
                       [status |-> "consumed", preimage |-> None, ref |-> None]]
        /\ \/ pc' = [pc EXCEPT ![s] = "mutate"]
           \/ pc' = [pc EXCEPT ![s] = "abort"]
        /\ UNCHANGED <<req, seen, mut, paper>>
    BY <1>3, Zenon DEF ClaimGrant, Spent, Reused, Refuse
  <2>2. QED
    BY <2>1 DEF TypeOK, Untouched
<1>4. CASE Mutate(s)
  BY <1>4 DEF Mutate, Publish, DeleteRow, DeleteNothing, Write, TypeOK, Untouched
<1>5. CASE Seal(s) \/ Persist(s)
  BY <1>5 DEF Seal, Persist, Raise, EndSession, TypeOK, Untouched
<1>6. CASE \/ Rollback(s) \/ StatementFails(s) \/ ProcessDies(s) \/ Commit(s)
           \/ CommitUnacknowledged(s)
  <2>1. EndSession(s)
    BY <1>6 DEF Rollback, StatementFails, ProcessDies, Commit, CommitUnacknowledged, Raise
  <2>2. QED
    BY <2>1 DEF EndSession, TypeOK, Untouched
<1>7. QED
  BY <1>1, <1>2, <1>3, <1>4, <1>5, <1>6

(* Locks stay exclusive when one session takes free ones or drops its own.  *)
LEMMA LocksTaken ==
  ASSUME TypeOK, LocksExclusive, NEW s \in Session, NEW held,
         \A r \in held : Free(s, r),
         locks' = [locks EXCEPT ![s] = @ \cup held]
  PROVE  LocksExclusive'
BY DEF TypeOK, LocksExclusive, Free

(* The same for a single lock.                                              *)
LEMMA LockTaken ==
  ASSUME TypeOK, LocksExclusive, NEW s \in Session, NEW r, Free(s, r),
         locks' = [locks EXCEPT ![s] = @ \cup {r}]
  PROVE  LocksExclusive'
BY DEF TypeOK, LocksExclusive, Free

(* Dropping one's own locks cannot make locks overlap.                      *)
LEMMA LocksDropped ==
  ASSUME TypeOK, LocksExclusive, NEW s \in Session,
         locks' = [locks EXCEPT ![s] = {}]
  PROVE  LocksExclusive'
BY DEF TypeOK, LocksExclusive

(* A session that ended knows nothing.                                      *)
LEMMA EndedInv ==
  ASSUME TypeOK, NEW s \in Session, EndSession(s)
  PROVE  SessionInv(s)'
BY DEF TypeOK, EndSession, SessionInv

(* Every step keeps the locks exclusive and what each session knows true.   *)
LEMMA SessionStep ==
  ASSUME TypeOK, LocksExclusive, \A o \in Session : SessionInv(o), [Next]_vars
  PROVE  LocksExclusive' /\ \A s \in Session : SessionInv(s)'
<1>1. CASE \/ \E n \in Nonce, t \in Target : MeasureState(n, t)
           \/ \E a \in Article : OwnerWrite(a)
           \/ UNCHANGED vars
  <2>1. UNCHANGED <<challenges, ledger, pc, req, seen, locks, row, mut, paper>>
    BY <1>1 DEF MeasureState, OwnerWrite, vars, dbVars, txVars
  <2>2. \A s \in Session : Untouched(s)
    BY <2>1 DEF Untouched
  <2>3. \A s \in Session : PastLock(s) => challenges[GrantOf(s).nonce] # None
    BY DEF PastLock, SessionInv
  <2>4. QED
    BY <2>1, <2>2, <2>3, SessionFrame DEF LocksExclusive
<1>2. ASSUME NEW n \in Nonce, IssueChallenge(n) \/ ChallengeExpires(n)
      PROVE  LocksExclusive' /\ \A s \in Session : SessionInv(s)'
  <2>1. UNCHANGED <<ledger, pc, req, seen, locks, row, mut, paper>>
    BY <1>2 DEF IssueChallenge, ChallengeExpires, txVars
  <2>2. ASSUME NEW s \in Session
        PROVE  SessionInv(s)'
    <3>1. PastLock(s) => challenges[GrantOf(s).nonce] # None
      BY DEF PastLock, SessionInv
    <3>2. PastLock(s) => GrantOf(s).nonce \in Nonce
      <4>1. PastLock(s) => req[s] \in Request
        BY SessionFacts DEF PastLock
      <4>2. QED
        BY <4>1, GrantFacts DEF Request, GrantOf
    <3>3. PastLock(s) => /\ challenges'[GrantOf(s).nonce] # None
                         /\ challenges'[GrantOf(s).nonce].consumed
                              = challenges[GrantOf(s).nonce].consumed
      <4>1. ASSUME PastLock(s), IssueChallenge(n)
            PROVE  challenges'[GrantOf(s).nonce] = challenges[GrantOf(s).nonce]
        BY <3>1, <3>2, <4>1 DEF IssueChallenge, TypeOK
      <4>2. ASSUME PastLock(s), ChallengeExpires(n), GrantOf(s).nonce = n
            PROVE  /\ challenges'[n] # None
                   /\ challenges'[n].consumed = challenges[n].consumed
        <5>1. challenges[n] \in Challenge
          BY <3>1, <4>2 DEF TypeOK
        <5>2. [ target |-> challenges[n].target, digest |-> challenges[n].digest,
                expired |-> TRUE, consumed |-> challenges[n].consumed ] \in Challenge
          BY <5>1 DEF Challenge
        <5>3. challenges'[n] = [ target |-> challenges[n].target,
                digest |-> challenges[n].digest, expired |-> TRUE,
                consumed |-> challenges[n].consumed ]
          BY <4>2 DEF ChallengeExpires, TypeOK
        <5>4. challenges'[n] # None
          BY <5>2, <5>3, NullFacts
        <5>5. challenges'[n].consumed = challenges[n].consumed
          BY <5>3
        <5>6. QED
          BY <5>4, <5>5
      <4>3. ASSUME PastLock(s), ChallengeExpires(n), GrantOf(s).nonce # n
            PROVE  challenges'[GrantOf(s).nonce] = challenges[GrantOf(s).nonce]
        BY <3>2, <4>3 DEF ChallengeExpires, TypeOK
      <4>4. QED
        BY <1>2, <3>1, <4>1, <4>2, <4>3
    <3>4. Untouched(s)
      BY <2>1 DEF Untouched
    <3>5. QED
      BY <2>1, <3>3, <3>4, SessionFrame
  <2>3. QED
    BY <2>1, <2>2 DEF LocksExclusive
<1>3. ASSUME NEW s \in Session, NEW g \in Grant, NEW t \in Target,
             NEW p \in Nonce \cup {NoNonce}, Receive(s, g, t, p)
      PROVE  LocksExclusive' /\ \A o \in Session : SessionInv(o)'
  <2>1. UNCHANGED <<challenges, ledger, locks>>
    BY <1>3 DEF Receive, dbVars
  <2>2. \A o \in Session \ {s} : Untouched(o)
    BY <1>3 DEF Receive, Untouched, TypeOK
  <2>3. SessionInv(s)'
    <3>1. [grant |-> g, target |-> t] # None
      BY NullFacts DEF Request
    <3>2. CASE /\ pc' = [pc EXCEPT ![s] = "connect"]
               /\ req' = [req EXCEPT ![s] = [grant |-> g, target |-> t]]
      BY <3>1, <3>2 DEF SessionInv, TypeOK
    <3>3. CASE UNCHANGED <<pc, req>>
      BY <1>3, <3>3 DEF SessionInv, TypeOK, Receive
    <3>4. QED
      BY <1>3, <3>2, <3>3, Zenon DEF Receive
  <2>4. QED
    BY <2>1, <2>2, <2>3, OthersKept DEF LocksExclusive
<1>4. ASSUME NEW s \in Session,
             Rollback(s) \/ StatementFails(s) \/ ProcessDies(s)
      PROVE  LocksExclusive' /\ \A o \in Session : SessionInv(o)'
  <2>1. EndSession(s) /\ UNCHANGED <<challenges, ledger>>
    BY <1>4 DEF Rollback, StatementFails, ProcessDies, Raise, dbVars
  <2>2. LocksExclusive'
    BY <2>1, LocksDropped DEF EndSession
  <2>3. QED
    BY <1>4, <2>1, <2>2, OwnStep, OthersKept, EndedInv
<1>5. ASSUME NEW s \in Session, Connect(s)
      PROVE  LocksExclusive' /\ \A o \in Session : SessionInv(o)'
  <2>1. UNCHANGED <<challenges, ledger, locks>> /\ SessionInv(s)'
    BY <1>5 DEF Connect, dbVars, txVars, SessionInv, TypeOK
  <2>2. QED
    BY <1>5, <2>1, OwnStep, OthersKept DEF LocksExclusive
<1>6. ASSUME NEW s \in Session, LockChallenge(s)
      PROVE  LocksExclusive' /\ \A o \in Session : SessionInv(o)'
  <2> DEFINE n == GrantOf(s).nonce
  <2>1. UNCHANGED <<challenges, ledger, req>> /\ req[s] # None
    BY <1>6 DEF LockChallenge, ChallengeLock, dbVars, SessionInv
  <2>2. LocksExclusive'
    <3>1. CASE challenges[n] = None
      BY <1>6, <3>1 DEF LockChallenge, ChallengeLock, LocksExclusive, TypeOK
    <3>2. CASE challenges[n] # None
      <4>1. /\ Free(s, <<"challenge", n>>)
            /\ locks' = [locks EXCEPT ![s] = @ \cup {<<"challenge", n>>}]
        BY <1>6, <3>2 DEF LockChallenge, ChallengeLock
      <4>2. QED
        BY <4>1, LockTaken
    <3>3. QED
      BY <3>1, <3>2
  <2>3. SessionInv(s)'
    <3>1. CASE pc' = [pc EXCEPT ![s] = "abort"]
      BY <2>1, <3>1 DEF SessionInv, TypeOK
    <3>2. CASE pc' = [pc EXCEPT ![s] = "cas"] /\ LockRefusal(s, challenges[n]) = None
      <4>1. challenges[n] # None
        BY <3>2, NullFacts DEF LockRefusal, Status
      <4>2. /\ <<"challenge", n>> \in locks'[s]
            /\ seen'[s] = challenges[n] /\ GrantOf(s)' = GrantOf(s)
        BY <1>6, <4>1 DEF LockChallenge, ChallengeLock, TypeOK, GrantOf
      <4>3. QED
        BY <2>1, <3>2, <4>1, <4>2 DEF SessionInv, TypeOK
    <3>3. QED
      BY <1>6, <3>1, <3>2, Zenon DEF LockChallenge, ChallengeLock, Refuse
  <2>4. QED
    BY <1>6, <2>1, <2>2, <2>3, OwnStep, OthersKept
<1>7. ASSUME NEW s \in Session, CompareState(s)
      PROVE  LocksExclusive' /\ \A o \in Session : SessionInv(o)'
  <2>1. UNCHANGED <<challenges, ledger, locks, req, seen>>
    BY <1>7 DEF CompareState, dbVars, txVars
  <2>2. pc[s] = "cas" /\ pc' \in {[pc EXCEPT ![s] = "abort"], [pc EXCEPT ![s] = "claim"]}
    BY <1>7 DEF CompareState, Refuse
  <2>3. SessionInv(s)'
    BY <2>1, <2>2 DEF SessionInv, TypeOK, GrantOf
  <2>4. QED
    BY <1>7, <2>1, <2>3, OwnStep, OthersKept DEF LocksExclusive
<1>8. ASSUME NEW s \in Session, ClaimGrant(s)
      PROVE  LocksExclusive' /\ \A o \in Session : SessionInv(o)'
  <2> DEFINE k == KeyOf(GrantOf(s))
  <2>1. UNCHANGED <<challenges, ledger, req, seen>> /\ pc[s] = "claim"
    BY <1>8 DEF ClaimGrant, Spent, Reused, dbVars
  <2>2. /\ Free(s, <<"grant", k>>)
        /\ \/ pc' = [pc EXCEPT ![s] = "abort"] /\ UNCHANGED locks
           \/ /\ pc' = [pc EXCEPT ![s] = "abort"]
              /\ locks' = [locks EXCEPT ![s] = @ \cup {<<"grant", k>>}]
           \/ /\ pc' = [pc EXCEPT ![s] = "mutate"] /\ ~seen[s].consumed
              /\ ledger[k] = None
              /\ locks' = [locks EXCEPT ![s] = @ \cup {<<"grant", k>>}]
              /\ row' = [row EXCEPT ![s] =
                          [status |-> "consumed", preimage |-> None, ref |-> None]]
    BY <1>8, Zenon DEF ClaimGrant, Spent, Reused, Refuse
  <2>3. LocksExclusive'
    <3>1. CASE UNCHANGED locks
      BY <3>1 DEF LocksExclusive
    <3>2. CASE locks' = [locks EXCEPT ![s] = @ \cup {<<"grant", k>>}]
      BY <2>2, <3>2, LockTaken
    <3>3. QED
      BY <2>2, <3>1, <3>2
  <2>4. SessionInv(s)'
    <3>1. CASE pc' = [pc EXCEPT ![s] = "abort"]
      BY <2>1, <3>1 DEF SessionInv, TypeOK
    <3>2. CASE /\ pc' = [pc EXCEPT ![s] = "mutate"] /\ ~seen[s].consumed
               /\ ledger[k] = None
               /\ locks' = [locks EXCEPT ![s] = @ \cup {<<"grant", k>>}]
               /\ row' = [row EXCEPT ![s] =
                           [status |-> "consumed", preimage |-> None, ref |-> None]]
      <4>1. /\ <<"grant", k>> \in locks'[s] /\ locks[s] \subseteq locks'[s]
            /\ row'[s] = [status |-> "consumed", preimage |-> None, ref |-> None]
            /\ GrantOf(s)' = GrantOf(s) /\ KeyOf(GrantOf(s))' = k
        BY <2>1, <3>2 DEF TypeOK, GrantOf, KeyOf
      <4>2. row'[s] # None
        BY <4>1, NullFacts DEF LedgerRow
      <4>3. QED
        BY <2>1, <3>2, <4>1, <4>2 DEF SessionInv, TypeOK
    <3>3. QED
      BY <2>2, <3>1, <3>2
  <2>5. QED
    BY <1>8, <2>1, <2>3, <2>4, OwnStep, OthersKept
<1>9. ASSUME NEW s \in Session, Mutate(s)
      PROVE  LocksExclusive' /\ \A o \in Session : SessionInv(o)'
  <2>1. /\ UNCHANGED <<challenges, ledger, req, seen>> /\ pc[s] = "mutate"
        /\ pc' = [pc EXCEPT ![s] = "seal"]
    BY <1>9 DEF Mutate, dbVars
  <2>2. PICK m \in Mutation, held \in SUBSET Lockable :
          Write(s, m, held) /\ \A r \in held : Free(s, r)
    <3>1. CASE \E a \in Article, c \in Content : Publish(s, a, c)
      BY <3>1 DEF Publish, Mutation, Lockable
    <3>2. CASE req[s].target \in Article /\ DeleteRow(s, req[s].target)
      BY <3>2 DEF DeleteRow, Mutation, Lockable
    <3>3. CASE req[s].target \in Article /\ DeleteNothing(s, req[s].target)
      BY <3>3 DEF DeleteNothing, Mutation
    <3>4. QED
      BY <1>9, <3>1, <3>2, <3>3 DEF Mutate
  <2>3. LocksExclusive'
    BY <2>2, LocksTaken DEF Write
  <2>4. SessionInv(s)'
    <3>1. /\ locks[s] \subseteq locks'[s] /\ mut'[s] = m /\ m # None
          /\ GrantOf(s)' = GrantOf(s) /\ KeyOf(GrantOf(s))' = KeyOf(GrantOf(s))
      BY <2>1, <2>2, NullFacts DEF Write, TypeOK, GrantOf, KeyOf
    <3>2. row'[s] = [ status |-> row[s].status, ref |-> row[s].ref,
                      preimage |-> GatePreimage(s, m) ]
      BY <2>2 DEF Write, TypeOK
    <3>3. PreimageOf(s)' = row'[s].preimage
      BY <2>1, <3>1, <3>2 DEF PreimageOf, GatePreimage
    <3>4. row'[s] # None
      <4>1. row' \in [Session -> LedgerRow \cup {None}]
        BY TypeStep DEF TypeOK
      <4>2. row[s] \in LedgerRow
        BY <2>1, SessionFacts
      <4>3. PreimageOf(s)' \in Preimage
        <5>1. req[s] \in Request
          BY <2>1, SessionFacts
        <5>2. QED
          BY <2>1, <3>1, <5>1, GrantFacts DEF PreimageOf, GatePreimage, Preimage, Request, GrantOf, KeyOf
      <4>4. row'[s] \in LedgerRow
        BY <3>2, <3>3, <4>2, <4>3 DEF LedgerRow
      <4>5. QED
        BY <4>4, NullFacts
    <3>5. pc'[s] = "seal" /\ ledger'[KeyOf(GrantOf(s))'] = None
      BY <2>1, <3>1 DEF TypeOK, SessionInv
    <3>6. row'[s].status = "consumed" /\ row'[s].ref = None
      <4>1. row[s].status = "consumed" /\ row[s].ref = None
        BY <2>1 DEF SessionInv
      <4>2. QED
        BY <3>2, <4>1
    <3>7. QED
      BY <2>1, <3>1, <3>3, <3>4, <3>5, <3>6 DEF SessionInv
  <2>5. QED
    BY <1>9, <2>1, <2>3, <2>4, OwnStep, OthersKept
<1>10. ASSUME NEW s \in Session, Seal(s)
       PROVE  LocksExclusive' /\ \A o \in Session : SessionInv(o)'
  <2>1. UNCHANGED <<challenges, ledger>> /\ pc[s] = "seal"
    BY <1>10 DEF Seal, dbVars
  <2>2. CASE EndSession(s)
    BY <1>10, <2>1, <2>2, OwnStep, OthersKept, EndedInv, LocksDropped DEF EndSession
  <2>3. CASE /\ row' = [row EXCEPT ![s] = [ status |-> "sealed", preimage |-> @.preimage,
                                            ref |-> Sign(PreimageOf(s)) ]]
             /\ pc' = [pc EXCEPT ![s] = "persist"]
             /\ UNCHANGED <<req, seen, locks, mut, paper, reply>>
    <3>1. /\ PreimageOf(s)' = PreimageOf(s) /\ GrantOf(s)' = GrantOf(s)
          /\ KeyOf(GrantOf(s))' = KeyOf(GrantOf(s))
          /\ Sign(PreimageOf(s))' = Sign(PreimageOf(s))
      BY <2>3 DEF PreimageOf, GatePreimage, GrantOf, KeyOf, Sign
    <3>2. row'[s] = [ status |-> "sealed", preimage |-> row[s].preimage,
                      ref |-> Sign(PreimageOf(s)) ]
      BY <2>3 DEF TypeOK
    <3>3. row'[s] # None
      <4>1. /\ req[s] \in Request /\ row[s] \in LedgerRow /\ mut[s] \in Mutation
            /\ row[s].preimage = PreimageOf(s)
        <5>1. row[s].preimage = PreimageOf(s)
          BY <2>1 DEF SessionInv
        <5>2. QED
          BY <2>1, <5>1, SessionFacts
      <4>2. PreimageOf(s) \in Preimage /\ Sign(PreimageOf(s)) \in Signature
        BY <4>1, GrantFacts DEF PreimageOf, GatePreimage, Preimage, Request, GrantOf, Sign, Signature
      <4>3. row'[s] \in LedgerRow
        BY <3>2, <4>1, <4>2 DEF LedgerRow
      <4>4. QED
        BY <4>3, NullFacts
    <3>4. SessionInv(s)'
      BY <2>1, <2>3, <3>1, <3>2, <3>3 DEF SessionInv, TypeOK
    <3>5. QED
      BY <1>10, <2>1, <2>3, <3>4, OwnStep, OthersKept DEF LocksExclusive
  <2>4. QED
    BY <1>10, <2>2, <2>3 DEF Seal, Raise
<1>11. ASSUME NEW s \in Session, Persist(s)
       PROVE  LocksExclusive' /\ \A o \in Session : SessionInv(o)'
  <2>1. UNCHANGED <<challenges, ledger>> /\ pc[s] = "persist"
    BY <1>11 DEF Persist, dbVars
  <2>2. CASE EndSession(s)
    BY <1>11, <2>1, <2>2, OwnStep, OthersKept, EndedInv, LocksDropped DEF EndSession
  <2>3. CASE /\ paper' = [paper EXCEPT ![s] = TokenOf(s)]
             /\ pc' = [pc EXCEPT ![s] = "commit"]
             /\ UNCHANGED <<req, seen, locks, row, mut, reply>>
    <3>1. /\ PreimageOf(s)' = PreimageOf(s) /\ GrantOf(s)' = GrantOf(s)
          /\ KeyOf(GrantOf(s))' = KeyOf(GrantOf(s)) /\ TokenOf(s)' = TokenOf(s)
          /\ Sign(PreimageOf(s))' = Sign(PreimageOf(s))
      BY <2>3 DEF PreimageOf, GatePreimage, GrantOf, KeyOf, Sign, TokenOf
    <3>2. paper'[s] = TokenOf(s) /\ pc'[s] = "commit"
      BY <2>3 DEF TypeOK
    <3>3. SessionInv(s)'
      BY <2>1, <2>3, <3>1, <3>2 DEF SessionInv
    <3>4. QED
      BY <1>11, <2>1, <2>3, <3>3, OwnStep, OthersKept DEF LocksExclusive
  <2>4. QED
    BY <1>11, <2>2, <2>3 DEF Persist, Raise
<1>12. ASSUME NEW s \in Session, Commit(s) \/ CommitUnacknowledged(s)
       PROVE  LocksExclusive' /\ \A o \in Session : SessionInv(o)'
  <2>1. pc[s] = "commit" /\ MakeVisible(s) /\ EndSession(s)
    BY <1>12 DEF Commit, CommitUnacknowledged
  <2>2. LocksExclusive' /\ SessionInv(s)'
    BY <2>1, LocksDropped, EndedInv DEF EndSession
  <2>3. ASSUME NEW o \in Session \ {s}
        PROVE  SessionInv(o)'
    <3>1. Untouched(o)
      BY <1>12, OwnStep
    <3>2. /\ <<"challenge", GrantOf(s).nonce>> \in locks[s]
          /\ <<"grant", KeyOf(GrantOf(s))>> \in locks[s]
      BY <2>1 DEF SessionInv
    <3>3. PastLock(o) => /\ GrantOf(o).nonce # GrantOf(s).nonce
                         /\ challenges[GrantOf(o).nonce] # None
      <4>1. PastLock(o) => /\ <<"challenge", GrantOf(o).nonce>> \in locks[o]
                           /\ challenges[GrantOf(o).nonce] # None
        BY DEF PastLock, SessionInv
      <4>2. QED
        BY <3>2, <4>1 DEF LocksExclusive
    <3>4. PastClaim(o) => KeyOf(GrantOf(o)) # KeyOf(GrantOf(s))
      BY <3>2 DEF PastClaim, SessionInv, LocksExclusive
    <3>5. req[s] \in Request /\ (PastLock(o) \/ PastClaim(o) => req[o] \in Request)
      BY <2>1, SessionFacts DEF PastLock, PastClaim
    <3>6. /\ GrantOf(s).nonce \in Nonce /\ KeyOf(GrantOf(s)) \in Key
          /\ PastLock(o) => GrantOf(o).nonce \in Nonce
          /\ PastClaim(o) => KeyOf(GrantOf(o)) \in Key
      BY <3>5, GrantFacts DEF Request, GrantOf
    <3>7. PastLock(o) => challenges'[GrantOf(o).nonce] = challenges[GrantOf(o).nonce]
      BY <2>1, <3>3, <3>6 DEF MakeVisible, Attested, TypeOK
    <3>8. PastClaim(o) => ledger'[KeyOf(GrantOf(o))] = ledger[KeyOf(GrantOf(o))]
      BY <2>1, <3>4, <3>6 DEF MakeVisible, Attested, TypeOK
    <3>9. QED
      BY <3>1, <3>3, <3>7, <3>8, SessionFrame
  <2>4. QED
    BY <2>2, <2>3
<1>13. QED
  BY <1>1, <1>2, <1>3, <1>4, <1>5, <1>6, <1>7, <1>8, <1>9, <1>10, <1>11, <1>12
     DEF Next, Step

-----------------------------------------------------------------------------
(* What a commit makes visible, key by key: the ledger row and the token    *)
(* speak of the one mutation that took place.                               *)
LEMMA CommitFacts ==
  ASSUME TypeOK, \A o \in Session : SessionInv(o),
         OneUse, NonceSingleUse, NoStrayEvidence, NEW s \in Session, pc[s] = "commit", MakeVisible(s)
  PROVE  LET n == GrantOf(s).nonce
             k == KeyOf(GrantOf(s))
         IN /\ n \in Nonce /\ k \in Key /\ mut[s] \in Mutation
            /\ ledger[k] = None /\ effects[k] = <<>> /\ attestations[k] = <<>>
            /\ row[s] \in LedgerRow /\ row[s].status = "sealed"
            /\ row[s].preimage = PreimageOf(s) /\ row[s].ref = Sign(PreimageOf(s))
            /\ ledger' = [ledger EXCEPT ![k] = row[s]]
            /\ effects' = [effects EXCEPT ![k] = <<mut[s]>>]
            /\ attestations' = [attestations EXCEPT ![k] = <<TokenOf(s)>>]
            /\ spentBy[n] = {} /\ spentBy' = [spentBy EXCEPT ![n] = {k}]
            /\ challenges[n] \in Challenge
            /\ challenges' = [challenges EXCEPT ![n] =
                 [ target |-> @.target, digest |-> @.digest,
                   expired |-> @.expired, consumed |-> TRUE ]]
<1> DEFINE n == GrantOf(s).nonce
           k == KeyOf(GrantOf(s))
<1>1. req[s] \in Request /\ row[s] \in LedgerRow /\ mut[s] \in Mutation
  BY SessionFacts
<1>2. n \in Nonce /\ k \in Key
  BY <1>1, GrantFacts DEF Request, GrantOf
<1>3. /\ ledger[k] = None /\ challenges[n] # None /\ ~seen[s].consumed
      /\ seen[s].consumed = challenges[n].consumed
      /\ row[s].status = "sealed" /\ row[s].preimage = PreimageOf(s)
      /\ row[s].ref = Sign(PreimageOf(s)) /\ paper[s] = TokenOf(s)
  BY DEF SessionInv
<1>4. challenges[n] \in Challenge
  BY <1>2, <1>3 DEF TypeOK
<1>5. effects[k] = <<>> /\ attestations[k] = <<>>
  BY <1>2, <1>3 DEF OneUse, NoStrayEvidence
<1>6. spentBy[n] = {}
  BY <1>2, <1>3 DEF NonceSingleUse
<1>7. /\ effects' = [effects EXCEPT ![k] = <<mut[s]>>]
      /\ attestations' = [attestations EXCEPT ![k] = <<TokenOf(s)>>]
  <2>1. Append(effects[k], mut[s]) = <<mut[s]>> /\ Append(attestations[k], paper[s]) = <<TokenOf(s)>>
    BY <1>3, <1>5
  <2>2. QED
    BY <2>1 DEF MakeVisible, Attested
<1>8. spentBy' = [spentBy EXCEPT ![n] = {k}]
  BY <1>6 DEF MakeVisible, Attested
<1>9. QED
  BY <1>1, <1>2, <1>3, <1>4, <1>5, <1>6, <1>7, <1>8 DEF MakeVisible, Attested

(* Every step keeps a grant single-use, a nonce single-use, and the stored  *)
(* evidence bound to what happened.                                         *)
LEMMA LedgerStep ==
  ASSUME TypeOK, \A o \in Session : SessionInv(o),
         OneUse, NonceSingleUse, NoStrayEvidence, EvidenceBindsEffect, [Next]_vars
  PROVE  OneUse' /\ NonceSingleUse' /\ EvidenceBindsEffect' /\ NoStrayEvidence'
<1>1. CASE UNCHANGED <<challenges, ledger, attestations, effects, spentBy>>
  BY <1>1 DEF OneUse, NonceSingleUse, EvidenceBindsEffect, NoStrayEvidence
<1>2. ASSUME NEW n \in Nonce, IssueChallenge(n) \/ ChallengeExpires(n)
      PROVE  OneUse' /\ NonceSingleUse' /\ EvidenceBindsEffect' /\ NoStrayEvidence'
  <2>1. UNCHANGED <<ledger, attestations, effects, spentBy>>
    BY <1>2 DEF IssueChallenge, ChallengeExpires, history
  <2>2. OneUse' /\ EvidenceBindsEffect' /\ NoStrayEvidence'
    BY <2>1 DEF OneUse, EvidenceBindsEffect, NoStrayEvidence
  <2>3. ASSUME NEW m \in Nonce
        PROVE  challenges'[m] # None /\ challenges'[m].consumed
                 <=> challenges[m] # None /\ challenges[m].consumed
    <3>1. CASE m # n
      BY <1>2, <3>1 DEF IssueChallenge, ChallengeExpires, TypeOK
    <3>2. CASE m = n /\ IssueChallenge(n)
      <4>1. challenges[n] = None /\ challenges'[n] =
              [ target |-> drafts[n].target, digest |-> drafts[n],
                expired |-> FALSE, consumed |-> FALSE ]
        BY <3>2 DEF IssueChallenge, TypeOK
      <4>2. challenges[n] = None /\ challenges'[n].consumed = FALSE
        BY <4>1
      <4>3. QED
        BY <3>2, <4>2
    <3>3. CASE m = n /\ ChallengeExpires(n)
      <4>1. challenges[n] # None /\ challenges[n] \in Challenge
        BY <3>3 DEF ChallengeExpires, TypeOK
      <4>2. challenges'[n] = [ target |-> challenges[n].target,
              digest |-> challenges[n].digest, expired |-> TRUE,
              consumed |-> challenges[n].consumed ]
        BY <3>3 DEF ChallengeExpires, TypeOK
      <4>3. challenges'[n] # None
        <5>1. challenges'[n] \in Challenge
          BY <4>1, <4>2 DEF Challenge
        <5>2. QED
          BY <5>1, NullFacts
      <4>4. challenges'[n].consumed = challenges[n].consumed
        BY <4>2
      <4>5. QED
        BY <3>3, <4>1, <4>3, <4>4
    <3>4. QED
      BY <1>2, <3>1, <3>2, <3>3
  <2>4. NonceSingleUse'
    BY <2>1, <2>3 DEF NonceSingleUse
  <2>5. QED
    BY <2>2, <2>4
<1>3. ASSUME NEW s \in Session, pc[s] = "commit", MakeVisible(s)
      PROVE  OneUse' /\ NonceSingleUse' /\ EvidenceBindsEffect' /\ NoStrayEvidence'
  <2> DEFINE n == GrantOf(s).nonce
             k == KeyOf(GrantOf(s))
  <2>1. /\ n \in Nonce /\ k \in Key /\ ledger' = [ledger EXCEPT ![k] = row[s]]
        /\ effects' = [effects EXCEPT ![k] = <<mut[s]>>]
        /\ attestations' = [attestations EXCEPT ![k] = <<TokenOf(s)>>]
        /\ row[s] # None
    BY <1>3, CommitFacts, NullFacts
  <2>2. OneUse'
    <3>1. ASSUME NEW j \in Key, j # k
          PROVE  ledger'[j] = ledger[j] /\ effects'[j] = effects[j]
      BY <2>1, <3>1 DEF TypeOK
    <3>2. ledger'[k] # None /\ effects'[k] = <<mut[s]>>
      BY <2>1 DEF TypeOK
    <3>3. ASSUME NEW j \in Key
          PROVE  Len(effects'[j]) <= 1 /\ (ledger'[j] = None <=> effects'[j] = <<>>)
      <4>1. CASE j = k
        <5>1. \A m : Len(<<m>>) = 1 /\ <<m>> # <<>>
          OBVIOUS
        <5>2. Len(effects'[k]) = 1 /\ effects'[k] # <<>>
          BY <3>2, <5>1, Zenon
        <5>3. \A i : i = 1 => i <= 1
          OBVIOUS
        <5>4. Len(effects'[k]) <= 1
          BY <5>2, <5>3, Zenon
        <5>5. QED
          BY <3>2, <4>1, <5>2, <5>4, Zenon
      <4>2. CASE j # k
        BY <3>1, <4>2 DEF OneUse
      <4>3. QED
        BY <4>1, <4>2
    <3>4. QED
      BY <3>3 DEF OneUse
  <2>3. NonceSingleUse'
    <3>0. /\ challenges[n] \in Challenge /\ n \in Nonce
          /\ spentBy' = [spentBy EXCEPT ![n] = {k}]
          /\ challenges' = [challenges EXCEPT ![n] =
               [ target |-> @.target, digest |-> @.digest,
                 expired |-> @.expired, consumed |-> TRUE ]]
      BY <1>3, CommitFacts
    <3> challenges \in [Nonce -> Challenge \cup {None}] /\ spentBy \in [Nonce -> SUBSET Key]
      BY DEF TypeOK
    <3>1. ASSUME NEW m \in Nonce, m # n
          PROVE  challenges'[m] = challenges[m] /\ spentBy'[m] = spentBy[m]
      BY <3>0, <3>1
    <3>2. challenges[n] \in Challenge /\ challenges'[n] =
            [ target |-> challenges[n].target, digest |-> challenges[n].digest,
              expired |-> challenges[n].expired, consumed |-> TRUE ]
      BY <3>0
    <3>3. challenges'[n] \in Challenge /\ challenges'[n].consumed = TRUE
      BY <3>2 DEF Challenge
    <3>4. spentBy'[n] = {k}
      <4>1. spentBy' = [spentBy EXCEPT ![n] = {k}]
        BY <1>3, CommitFacts
      <4>2. QED
        BY <2>1, <4>1 DEF TypeOK
    <3>5. QED
      BY <3>1, <3>3, <3>4, NullFacts DEF NonceSingleUse
  <2>4. EvidenceBindsEffect'
    <3>1. SUFFICES ASSUME NEW j \in Key, ledger'[j] # None
                   PROVE  /\ ledger'[j].status = "sealed"
                          /\ attestations'[j] = <<[ preimage |-> ledger'[j].preimage,
                                                    signature |-> ledger'[j].ref ]>>
                          /\ ledger'[j].ref = Sign(ledger'[j].preimage)
                          /\ ledger'[j].preimage.key = j
                          /\ effects'[j] = <<ledger'[j].preimage.mut>>
      BY DEF EvidenceBindsEffect, Sign
    <3>2. CASE j # k
      <4>1. /\ ledger'[j] = ledger[j] /\ effects'[j] = effects[j]
            /\ attestations'[j] = attestations[j]
        BY <2>1, <3>2 DEF TypeOK
      <4>2. QED
        BY <3>1, <4>1 DEF EvidenceBindsEffect
    <3>3. CASE j = k
      <4>1. /\ ledger'[k] = row[s] /\ effects'[k] = <<mut[s]>>
            /\ attestations'[k] = <<TokenOf(s)>>
        BY <2>1 DEF TypeOK
      <4>2. /\ row[s].status = "sealed" /\ row[s].preimage = PreimageOf(s)
            /\ row[s].ref = Sign(PreimageOf(s))
        BY <1>3, CommitFacts
      <4>3. PreimageOf(s).key = k /\ PreimageOf(s).mut = mut[s]
        BY DEF PreimageOf, GatePreimage
      <4>4. QED
        BY <3>3, <4>1, <4>2, <4>3 DEF TokenOf
    <3>4. QED
      BY <3>2, <3>3
  <2>5. NoStrayEvidence'
    BY <2>1 DEF NoStrayEvidence, TypeOK
  <2>6. QED
    BY <2>2, <2>3, <2>4, <2>5
<1>4. QED
  <2>1. CASE \/ \E n \in Nonce, t \in Target : MeasureState(n, t)
             \/ \E a \in Article : OwnerWrite(a)
             \/ \E s \in Session, g \in Grant, t \in Target, p \in Nonce \cup {NoNonce} :
                  Receive(s, g, t, p)
             \/ UNCHANGED vars
    <3>1. UNCHANGED <<challenges, ledger, attestations, effects, spentBy>>
      <4>1. CASE \E n \in Nonce, t \in Target : MeasureState(n, t)
        BY <4>1 DEF MeasureState, dbVars, history
      <4>2. CASE \E a \in Article : OwnerWrite(a)
        BY <4>2 DEF OwnerWrite, history
      <4>3. CASE \E s \in Session, g \in Grant, t \in Target, p \in Nonce \cup {NoNonce} :
                   Receive(s, g, t, p)
        BY <4>3 DEF Receive, dbVars, history
      <4>4. CASE UNCHANGED vars
        BY <4>4 DEF vars, dbVars, history
      <4>5. QED
        BY <2>1, <4>1, <4>2, <4>3, <4>4
    <3>2. QED
      BY <1>1, <3>1
  <2>2. CASE \E s \in Session : \/ Rollback(s) \/ StatementFails(s) \/ ProcessDies(s)
                                \/ Connect(s) \/ LockChallenge(s) \/ CompareState(s)
    BY <1>1, <2>2 DEF Rollback, StatementFails, ProcessDies, Connect, LockChallenge, ChallengeLock,
       CompareState, dbVars, history
  <2>3. CASE \E s \in Session : ClaimGrant(s) \/ Mutate(s) \/ Seal(s) \/ Persist(s)
    BY <1>1, <2>3 DEF ClaimGrant, Spent, Reused, Mutate, Seal, Persist, dbVars, history
  <2>4. CASE \E s \in Session : Commit(s) \/ CommitUnacknowledged(s)
    BY <1>3, <2>4 DEF Commit, CommitUnacknowledged
  <2>5. QED
    BY <1>2, <2>1, <2>2, <2>3, <2>4 DEF Next, Step

-----------------------------------------------------------------------------
(* Every step keeps the locks of a session in the order of its stages.      *)
LEMMA StageStep ==
  ASSUME TypeOK, \A o \in Session : StageLocks(o), [Next]_vars
  PROVE  \A s \in Session : StageLocks(s)'
<1>1. ASSUME NEW o \in Session, Untouched(o)
      PROVE  StageLocks(o)'
  BY <1>1 DEF StageLocks, Untouched
<1>2. CASE \A o \in Session : Untouched(o)
  BY <1>1, <1>2
<1>3. ASSUME NEW s \in Session, \A o \in Session \ {s} : Untouched(o), StageLocks(s)'
      PROVE  \A o \in Session : StageLocks(o)'
  BY <1>1, <1>3
<1>4. ASSUME NEW s \in Session, EndSession(s)
      PROVE  StageLocks(s)'
  BY <1>4 DEF EndSession, StageLocks, TypeOK
<1>5. ASSUME NEW s \in Session, NEW g \in Grant, NEW t \in Target,
             NEW p \in Nonce \cup {NoNonce}, Receive(s, g, t, p)
      PROVE  \A o \in Session : StageLocks(o)'
  <2>1. \A o \in Session \ {s} : Untouched(o)
    BY <1>5 DEF Receive, Untouched, TypeOK
  <2>2. locks'[s] = locks[s] /\ pc[s] = "idle"
    BY <1>5 DEF Receive
  <2>3. StageLocks(s)'
    <3>1. locks'[s] = {}
      BY <2>2 DEF StageLocks
    <3>2. QED
      BY <3>1 DEF StageLocks
  <2>4. QED
    BY <1>3, <2>1, <2>3
<1>6. ASSUME NEW s \in Session, Step(s) \/ CommitUnacknowledged(s)
                                \/ StatementFails(s) \/ ProcessDies(s)
      PROVE  StageLocks(s)'
  <2>1. CASE EndSession(s)
    BY <1>4, <2>1
  <2>2. CASE Connect(s)
    BY <2>2 DEF Connect, txVars, StageLocks, TypeOK
  <2>3. CASE LockChallenge(s)
    <3>1. /\ locks[s] = {} /\ pc'[s] \in {"cas", "abort"}
          /\ locks'[s] \subseteq {<<"challenge", GrantOf(s).nonce>>}
      BY <2>3 DEF LockChallenge, ChallengeLock, Refuse, StageLocks, TypeOK
    <3>2. QED
      BY <3>1 DEF StageLocks
  <2>4. CASE CompareState(s)
    <3>1. pc[s] = "cas" /\ pc'[s] \in {"abort", "claim"} /\ locks'[s] = locks[s]
      BY <2>4 DEF CompareState, Refuse, txVars, TypeOK
    <3>2. QED
      BY <3>1 DEF StageLocks
  <2>5. CASE ClaimGrant(s)
    <3>1. /\ pc[s] = "claim"
          /\ pc' \in {[pc EXCEPT ![s] = "abort"], [pc EXCEPT ![s] = "mutate"]}
          /\ \/ UNCHANGED locks
             \/ locks' = [locks EXCEPT ![s] = @ \cup {<<"grant", KeyOf(GrantOf(s))>>}]
      BY <2>5, Zenon DEF ClaimGrant, Spent, Reused, Refuse
    <3>2. /\ pc'[s] \in {"abort", "mutate"}
          /\ locks'[s] \subseteq locks[s] \cup {<<"grant", KeyOf(GrantOf(s))>>}
      BY <3>1 DEF TypeOK
    <3>3. QED
      BY <3>1, <3>2 DEF StageLocks
  <2>6. CASE Mutate(s)
    <3>1. pc'[s] = "seal"
      BY <2>6 DEF Mutate, TypeOK
    <3>2. QED
      BY <3>1 DEF StageLocks
  <2>7. CASE Seal(s) \/ Persist(s)
    <3>1. EndSession(s) \/ pc'[s] \in {"persist", "commit"}
      BY <2>7 DEF Seal, Persist, Raise, TypeOK
    <3>2. QED
      BY <1>4, <3>1 DEF StageLocks
  <2>8. CASE Commit(s) \/ Rollback(s) \/ CommitUnacknowledged(s) \/ StatementFails(s)
             \/ ProcessDies(s)
    BY <1>4, <2>8 DEF Commit, Rollback, CommitUnacknowledged, StatementFails, Raise, ProcessDies
  <2>9. QED
    BY <1>6, <2>2, <2>3, <2>4, <2>5, <2>6, <2>7, <2>8 DEF Step
<1>7. QED
  <2>1. CASE \/ \E n \in Nonce, t \in Target : MeasureState(n, t)
             \/ \E n \in Nonce : IssueChallenge(n) \/ ChallengeExpires(n)
             \/ \E a \in Article : OwnerWrite(a)
             \/ UNCHANGED vars
    BY <1>2, <2>1
       DEF MeasureState, IssueChallenge, ChallengeExpires, OwnerWrite, vars, txVars, Untouched
  <2>2. ASSUME NEW s \in Session, Step(s) \/ CommitUnacknowledged(s)
                                  \/ StatementFails(s) \/ ProcessDies(s)
        PROVE  \A o \in Session : StageLocks(o)'
    <3>1. \A o \in Session \ {s} : Untouched(o)
      BY <2>2, OwnStep DEF Step
    <3>2. QED
      BY <1>3, <1>6, <2>2, <3>1
  <2>3. QED
    BY <1>5, <2>1, <2>2 DEF Next

-----------------------------------------------------------------------------
(* Every step leaves a row that an open transaction has written as that     *)
(* transaction found it, and no row is created or removed twice.            *)
LEMMA RowFrame ==
  ASSUME NEW o \in Session, SessionRow(o), Untouched(o),
         pc[o] \in {"seal", "persist", "commit"} /\ mut[o].id # NoTarget
           => articles'[mut[o].id] = articles[mut[o].id]
  PROVE  SessionRow(o)'
<1>1. GrantOf(o)' = GrantOf(o)
  BY DEF Untouched, GrantOf
<1>2. QED
  BY <1>1 DEF SessionRow, Untouched

(* Every step keeps an uncommitted mutation's row as it found it, and no    *)
(* row's creation or removal is committed a second time.                    *)
LEMMA RowStep ==
  ASSUME TypeOK, LocksExclusive, \A o \in Session : SessionInv(o),
         \A o \in Session : SessionRow(o), CommittedRows, RowsTouchedOnce,
         EvidenceBindsEffect,
         [Next]_vars
  PROVE  (\A s \in Session : SessionRow(s)') /\ CommittedRows' /\ RowsTouchedOnce'
<1> DEFINE Rows == CommittedRows /\ RowsTouchedOnce
           Goal == (\A o \in Session : SessionRow(o)') /\ Rows'
<1>1. ASSUME UNCHANGED <<ledger, articles>>
      PROVE  Rows'
  BY <1>1 DEF CommittedRows, RowsTouchedOnce
<1>2. ASSUME NEW s \in Session, UNCHANGED <<ledger, articles>>,
             \A o \in Session \ {s} : Untouched(o), SessionRow(s)'
      PROVE  Goal
  BY <1>1, <1>2, RowFrame
<1>3. ASSUME UNCHANGED <<ledger, articles>>, \A o \in Session : Untouched(o)
      PROVE  Goal
  BY <1>1, <1>3, RowFrame
<1>4. ASSUME NEW s \in Session, EndSession(s)
      PROVE  SessionRow(s)'
  BY <1>4 DEF EndSession, SessionRow, TypeOK
<1>5. ASSUME NEW a \in Article, OwnerWrite(a)
      PROVE  Goal
  <2>1. PICK c \in Content \cup {Deleted} : articles' = [articles EXCEPT ![a] = c]
    BY <1>5 DEF OwnerWrite
  <2>2. /\ UNCHANGED <<ledger, pc, req, seen, locks, row, mut, paper>>
        /\ articles[a] \in Content /\ \A o \in Session : <<"article", a>> \notin locks[o]
    BY <1>5 DEF OwnerWrite, txVars
  <2>3. ASSUME NEW o \in Session
        PROVE  SessionRow(o)'
    <3>1. ASSUME pc[o] \in {"seal", "persist", "commit"}, mut[o].id # NoTarget
          PROVE  articles'[mut[o].id] = articles[mut[o].id]
      <4>1. <<"article", mut[o].id>> \in locks[o]
        BY <3>1 DEF SessionRow
      <4>2. mut[o].id # a
        BY <2>2, <4>1
      <4>3. mut[o] \in Mutation
        BY <3>1, SessionFacts
      <4>4. mut[o].id \in Article
        BY <3>1, <4>3 DEF Mutation, NoRowHit
      <4>5. QED
        BY <2>1, <4>2, <4>4 DEF TypeOK
    <3>2. Untouched(o)
      BY <2>2 DEF Untouched
    <3>3. QED
      BY <3>1, <3>2, RowFrame
  <2>4. CommittedRows'
    <3>1. SUFFICES ASSUME NEW k \in Key, ledger'[k] # None,
                          ledger'[k].preimage.mut.id # NoTarget
                   PROVE  IF ledger'[k].preimage.target = NoTarget
                            THEN articles'[ledger'[k].preimage.mut.id] # Unborn
                            ELSE articles'[ledger'[k].preimage.mut.id] = Deleted
      BY DEF CommittedRows
    <3>2. ledger'[k] = ledger[k] /\ c # Unborn /\ Deleted \notin Content
      BY <2>1, <2>2, PgConstants DEF Unborn, Deleted
    <3>3. CASE ledger[k].preimage.mut.id = a
      <4>1. ledger[k].preimage.target = NoTarget
        BY <2>2, <3>1, <3>2, <3>3 DEF CommittedRows
      <4>2. QED
        BY <2>1, <3>2, <3>3, <4>1 DEF TypeOK
    <3>4. CASE ledger[k].preimage.mut.id # a
      BY <2>1, <3>1, <3>2, <3>4 DEF CommittedRows, TypeOK
    <3>5. QED
      BY <3>3, <3>4
  <2>5. RowsTouchedOnce'
    BY <2>2 DEF RowsTouchedOnce
  <2>6. QED
    BY <2>3, <2>4, <2>5
<1>6. ASSUME NEW s \in Session, NEW g \in Grant, NEW t \in Target,
             NEW p \in Nonce \cup {NoNonce}, Receive(s, g, t, p)
      PROVE  Goal
  <2>1. UNCHANGED <<ledger, articles>> /\ \A o \in Session \ {s} : Untouched(o)
    BY <1>6 DEF Receive, dbVars, Untouched, TypeOK
  <2>2. SessionRow(s)'
    <3>1. CASE /\ pc' = [pc EXCEPT ![s] = "connect"]
               /\ req' = [req EXCEPT ![s] = [grant |-> g, target |-> t]]
      <4>1. pc'[s] = "connect" /\ req'[s] = [grant |-> g, target |-> t]
        BY <3>1 DEF TypeOK
      <4>2. (t = NoTarget) <=> (g.op = "publish")
        BY <1>6 DEF Receive
      <4>3. QED
        BY <4>1, <4>2 DEF SessionRow, GrantOf
    <3>2. CASE UNCHANGED <<pc, req>>
      BY <1>6, <3>2 DEF SessionRow, Receive
    <3>3. QED
      BY <1>6, <3>1, <3>2, Zenon DEF Receive
  <2>3. QED
    BY <1>2, <2>1, <2>2
<1>7. ASSUME NEW s \in Session, Mutate(s)
      PROVE  Goal
  <2>1. /\ UNCHANGED <<ledger, articles, req>> /\ pc' = [pc EXCEPT ![s] = "seal"]
        /\ pc[s] = "mutate" /\ \A o \in Session \ {s} : Untouched(o)
    BY <1>7, OwnStep DEF Mutate, dbVars
  <2>2. GrantOf(s)' = GrantOf(s) /\ (req[s].target = NoTarget <=> GrantOf(s).op = "publish")
    BY <2>1 DEF SessionRow, GrantOf
  <2>3. SessionRow(s)'
    <3>1. CASE \E a \in Article, c \in Content : Publish(s, a, c)
      <4>1. PICK a \in Article, c \in Content : Publish(s, a, c)
        BY <3>1
      <4>2. /\ mut'[s] = [id |-> a, content |-> c] /\ <<"article", a>> \in locks'[s]
            /\ articles[a] = Unborn /\ GrantOf(s).op = "publish"
        BY <4>1 DEF Publish, Write, TypeOK
      <4>3. QED
        BY <2>1, <2>2, <4>2 DEF SessionRow
    <3>2. CASE req[s].target \in Article /\ DeleteRow(s, req[s].target)
      <4> DEFINE a == req[s].target
      <4>1. /\ mut'[s] = [id |-> a, content |-> articles[a]]
            /\ <<"article", a>> \in locks'[s]
            /\ articles[a] \in Content /\ GrantOf(s).op = "deploy"
        BY <3>2 DEF DeleteRow, Write, TypeOK
      <4>2. QED
        BY <2>1, <2>2, <4>1 DEF SessionRow
    <3>3. CASE req[s].target \in Article /\ DeleteNothing(s, req[s].target)
      <4>1. mut'[s].id = NoTarget
        BY <3>3 DEF DeleteNothing, Write, NoRowHit, TypeOK
      <4>2. QED
        BY <2>1, <2>2, <4>1 DEF SessionRow
    <3>4. QED
      BY <1>7, <3>1, <3>2, <3>3 DEF Mutate
  <2>4. QED
    BY <1>2, <2>1, <2>3
<1>8. ASSUME NEW s \in Session,
             \/ Connect(s) \/ LockChallenge(s) \/ CompareState(s) \/ ClaimGrant(s)
             \/ Seal(s) \/ Persist(s) \/ Rollback(s) \/ StatementFails(s) \/ ProcessDies(s)
      PROVE  Goal
  <2>1. UNCHANGED <<ledger, articles>>
    BY <1>8 DEF Connect, LockChallenge, CompareState, ClaimGrant, Seal, Persist, Rollback,
       StatementFails, ProcessDies, dbVars
  <2>2. \A o \in Session \ {s} : Untouched(o)
    BY <1>8, OwnStep
  <2>3. SessionRow(s)'
    <3>1. CASE Connect(s) \/ LockChallenge(s) \/ CompareState(s)
      <4>1. /\ pc[s] # "idle" /\ pc'[s] \in {"lock", "cas", "claim", "abort"}
            /\ UNCHANGED req
        BY <3>1 DEF Connect, LockChallenge, CompareState, Refuse, txVars, TypeOK
      <4>2. QED
        BY <4>1 DEF SessionRow, GrantOf
    <3>2. CASE ClaimGrant(s)
      <4>1. /\ pc[s] = "claim" /\ UNCHANGED req
            /\ pc' \in {[pc EXCEPT ![s] = "abort"], [pc EXCEPT ![s] = "mutate"]}
        BY <3>2, Zenon DEF ClaimGrant, Refuse
      <4>2. pc'[s] \in {"abort", "mutate"}
        BY <4>1 DEF TypeOK
      <4>3. QED
        BY <4>1, <4>2 DEF SessionRow, GrantOf
    <3>3. CASE (Seal(s) \/ Persist(s)) /\ ~EndSession(s)
      <4>1. /\ pc[s] \in {"seal", "persist"} /\ pc'[s] \in {"persist", "commit"}
            /\ UNCHANGED <<req, mut, locks, articles>>
        BY <3>3 DEF Seal, Persist, Raise, dbVars, TypeOK
      <4>2. GrantOf(s)' = GrantOf(s)
        BY <4>1 DEF GrantOf
      <4>3. QED
        BY <4>1, <4>2 DEF SessionRow
    <3>4. CASE EndSession(s)
      BY <1>4, <3>4
    <3>5. QED
      BY <1>8, <3>1, <3>2, <3>3, <3>4 DEF Rollback, StatementFails, ProcessDies, Raise
  <2>4. QED
    BY <1>2, <2>1, <2>2, <2>3
<1>9. ASSUME NEW s \in Session, Commit(s) \/ CommitUnacknowledged(s)
      PROVE  Goal
  <2> DEFINE k == KeyOf(GrantOf(s))
             a == mut[s].id
  <2>1. pc[s] = "commit" /\ MakeVisible(s) /\ EndSession(s)
    BY <1>9 DEF Commit, CommitUnacknowledged
  <2>2. /\ req[s] \in Request /\ mut[s] \in Mutation /\ row[s].preimage = PreimageOf(s)
        /\ row[s] # None /\ ledger[k] = None
    <3>1. row[s].preimage = PreimageOf(s) /\ row[s] # None /\ ledger[k] = None
      BY <2>1 DEF SessionInv
    <3>2. QED
      BY <2>1, <3>1, SessionFacts
  <2>3. GrantOf(s) \in Grant /\ k \in Key /\ GrantOf(s).op \in {"publish", "deploy"}
    BY <2>2, GrantFacts DEF Request, GrantOf
  <2>4. ledger' = [ledger EXCEPT ![k] = row[s]]
    BY <2>1 DEF MakeVisible
  <2>5. PreimageOf(s).mut = mut[s] /\ PreimageOf(s).target = req[s].target
    BY DEF PreimageOf, GatePreimage
  <2>6. /\ a = NoTarget => UNCHANGED articles
        /\ a # NoTarget =>
             /\ a \in Article /\ <<"article", a>> \in locks[s]
             /\ \/ /\ req[s].target = NoTarget /\ articles[a] = Unborn
                   /\ mut[s].content \in Content
                   /\ articles' = [articles EXCEPT ![a] = mut[s].content]
                \/ /\ req[s].target # NoTarget /\ articles[a] \in Content
                   /\ articles' = [articles EXCEPT ![a] = Deleted]
    <3>1. a = NoTarget => mut[s] = NoRowHit
      BY <2>2, PgConstants DEF Mutation
    <3>2. a # NoTarget => a \in Article /\ mut[s] # NoRowHit
      BY <2>2 DEF Mutation, NoRowHit
    <3>3. CASE a = NoTarget
      BY <2>1, <3>1, <3>3 DEF MakeVisible
    <3>4. CASE a # NoTarget /\ GrantOf(s).op = "publish"
      <4>1. articles' = [articles EXCEPT ![a] = mut[s].content]
        BY <2>1, <3>2, <3>4 DEF MakeVisible
      <4>2. QED
        BY <2>1, <3>2, <3>4, <4>1 DEF SessionRow
    <3>5. CASE a # NoTarget /\ GrantOf(s).op = "deploy"
      <4>1. articles' = [articles EXCEPT ![a] = Deleted]
        BY <2>1, <3>2, <3>5 DEF MakeVisible
      <4>2. QED
        BY <2>1, <3>2, <3>5, <4>1 DEF SessionRow
    <3>6. QED
      BY <2>3, <3>3, <3>4, <3>5
  <2>7. Deleted \notin Content /\ Unborn \notin Content /\ Unborn # Deleted
    BY PgConstants DEF Deleted, Unborn
  <2>8. ASSUME NEW o \in Session
        PROVE  SessionRow(o)'
    <3>1. CASE o = s
      BY <1>4, <2>1, <3>1
    <3>2. CASE o # s
      <4>1. ASSUME pc[o] \in {"seal", "persist", "commit"}, mut[o].id # NoTarget
            PROVE  articles'[mut[o].id] = articles[mut[o].id]
        <5>1. <<"article", mut[o].id>> \in locks[o]
          BY <4>1 DEF SessionRow
        <5>2. a # NoTarget => mut[o].id # a
          BY <2>6, <3>2, <5>1 DEF LocksExclusive
        <5>3. mut[o] \in Mutation
          BY <4>1, SessionFacts
        <5>4. mut[o].id \in Article
          BY <4>1, <5>3 DEF Mutation, NoRowHit
        <5>5. QED
          BY <2>6, <5>2, <5>4 DEF TypeOK
      <4>2. Untouched(o)
        BY <1>9, <3>2, OwnStep
      <4>3. QED
        BY <4>1, <4>2, RowFrame
    <3>3. QED
      BY <3>1, <3>2
  <2>9. ASSUME NEW j \in Key, j # k
        PROVE  ledger'[j] = ledger[j]
    BY <2>3, <2>4, <2>9 DEF TypeOK
  <2>10. /\ ledger'[k].preimage.mut = mut[s] /\ ledger'[k].preimage.target = req[s].target
         /\ ledger'[k] # None
    BY <2>2, <2>3, <2>4, <2>5 DEF TypeOK
  <2>11. CommittedRows'
    <3>1. SUFFICES ASSUME NEW j \in Key, ledger'[j] # None,
                          ledger'[j].preimage.mut.id # NoTarget
                   PROVE  IF ledger'[j].preimage.target = NoTarget
                            THEN articles'[ledger'[j].preimage.mut.id] # Unborn
                            ELSE articles'[ledger'[j].preimage.mut.id] = Deleted
      BY DEF CommittedRows
    <3>2. CASE j = k
      BY <2>6, <2>7, <2>10, <3>1, <3>2 DEF TypeOK
    <3>3. CASE j # k
      <4> DEFINE b == ledger[j].preimage.mut.id
      <4>1. IF ledger[j].preimage.target = NoTarget
              THEN articles[b] # Unborn
              ELSE articles[b] = Deleted
        BY <2>9, <3>1, <3>3 DEF CommittedRows
      <4>2. CASE a = b
        BY <2>6, <2>7, <2>9, <3>1, <3>3, <4>1, <4>2 DEF TypeOK
      <4>3. CASE a # b
        <5>1. effects[j] = <<ledger[j].preimage.mut>> /\ effects[j] \in Seq(Mutation)
          BY <2>9, <3>1, <3>3 DEF EvidenceBindsEffect, TypeOK
        <5>2. ledger[j].preimage.mut \in Mutation
          BY <5>1
        <5>3. b \in Article
          BY <2>9, <3>1, <3>3, <5>2 DEF Mutation, NoRowHit
        <5>4. articles'[b] = articles[b]
          BY <2>6, <4>3, <5>3 DEF TypeOK
        <5>5. QED
          BY <2>9, <3>1, <3>3, <4>1, <5>4
      <4>4. QED
        BY <4>2, <4>3
    <3>4. QED
      BY <3>2, <3>3
  <2>12. ASSUME NEW j \in Key, ledger[j] # None, a # NoTarget,
                ledger[j].preimage.mut.id = a
         PROVE  ~((ledger[j].preimage.target = NoTarget) <=> (req[s].target = NoTarget))
    BY <2>6, <2>7, <2>12 DEF CommittedRows
  <2>13. RowsTouchedOnce'
    <3>1. SUFFICES ASSUME NEW k1 \in Key, NEW k2 \in Key,
                          ledger'[k1] # None, ledger'[k2] # None,
                          ledger'[k1].preimage.mut.id = ledger'[k2].preimage.mut.id,
                          ledger'[k1].preimage.mut.id # NoTarget,
                          (ledger'[k1].preimage.target = NoTarget)
                            <=> (ledger'[k2].preimage.target = NoTarget)
                   PROVE  k1 = k2
      BY DEF RowsTouchedOnce
    <3>2. CASE k1 # k /\ k2 # k
      <4>1. ledger'[k1] = ledger[k1] /\ ledger'[k2] = ledger[k2]
        BY <2>9, <3>2
      <4>2. k1 \in {j \in Key : ledger[j] # None} /\ k2 \in {j \in Key : ledger[j] # None}
        BY <3>1, <4>1
      <4>3. QED
        BY <3>1, <4>1, <4>2 DEF RowsTouchedOnce
    <3>3. CASE k1 = k /\ k2 # k
      BY <2>9, <2>10, <2>12, <3>1, <3>3
    <3>4. CASE k1 # k /\ k2 = k
      BY <2>9, <2>10, <2>12, <3>1, <3>4
    <3>5. QED
      BY <3>2, <3>3, <3>4
  <2>14. QED
    BY <2>8, <2>11, <2>13
<1>10. QED
  <2>1. CASE \/ \E n \in Nonce, t \in Target : MeasureState(n, t)
             \/ \E n \in Nonce : IssueChallenge(n) \/ ChallengeExpires(n)
             \/ UNCHANGED vars
    <3>1. UNCHANGED <<ledger, articles>> /\ \A o \in Session : Untouched(o)
      BY <2>1 DEF MeasureState, IssueChallenge, ChallengeExpires, vars, dbVars, txVars, Untouched
    <3>2. QED
      BY <1>3, <3>1
  <2>2. QED
    BY <1>5, <1>6, <1>7, <1>8, <1>9, <2>1 DEF Next, Step

-----------------------------------------------------------------------------
\* Every step keeps IInv.
LEMMA InvStep == IInv /\ [Next]_vars => IInv'
BY TypeStep, SessionStep, LedgerStep, StageStep, RowStep DEF IInv

(* IInv is inductive, so every reachable state satisfies it.                *)
THEOREM Inductive == Spec => []IInv
BY InitInv, InvStep, PTL DEF Spec

(* Type correctness of the executor's state.                                *)
THEOREM TypeCorrect == Spec => []TypeOK
<1>1. IInv => TypeOK
  BY DEF IInv
<1>2. QED
  BY Inductive, <1>1, PTL

(* A grant moves the database at most once, for any number of sidecars and  *)
(* sessions and whatever fails in between.                                  *)
THEOREM GrantsAreSingleUse == Spec => []OneUse
<1>1. IInv => OneUse
  BY DEF IInv
<1>2. QED
  BY Inductive, <1>1, PTL

(* A nonce authorises at most one committed execution.                      *)
THEOREM NoncesAreSingleUse == Spec => []NonceSingleUse
<1>1. IInv => NonceSingleUse
  BY DEF IInv
<1>2. QED
  BY Inductive, <1>1, PTL

(* Every committed consumption carries exactly one attestation, of the      *)
(* mutation that took place.                                                *)
THEOREM EvidenceIsBound == Spec => []EvidenceBindsEffect
<1>1. IInv => EvidenceBindsEffect
  BY DEF IInv
<1>2. QED
  BY Inductive, <1>1, PTL

(* No two attestations claim the same removal or the same creation.         *)
THEOREM RowsAreTouchedOnce == Spec => []RowsTouchedOnce
<1>1. IInv => RowsTouchedOnce
  BY DEF IInv
<1>2. QED
  BY Inductive, <1>1, PTL

(* Every session asks for its locks in one order, so no set of transactions *)
(* can wait in a circle.                                                    *)
THEOREM NoDeadlockedTransactions == Spec => []NoLockCycle
<1>1. IInv => NoLockCycle
  <2>1. SUFFICES ASSUME IInv, NEW s \in Session, NEW w \in Awaits(s), NEW h \in locks[s]
                 PROVE  LockOrder[h[1]] < LockOrder[w[1]]
    BY DEF IInv, NoLockCycle
  <2>2. StageLocks(s) /\ h \in Lockable
    BY <2>1 DEF IInv, TypeOK
  <2>3. CASE pc[s] = "lock"
    BY <2>1, <2>2, <2>3 DEF StageLocks
  <2>4. CASE pc[s] = "claim"
    <3>1. h[1] = "challenge" /\ w[1] = "grant"
      BY <2>1, <2>2, <2>4 DEF StageLocks, Awaits
    <3>2. QED
      BY <3>1 DEF LockOrder
  <2>5. CASE pc[s] = "mutate"
    <3>1. h[1] \in {"challenge", "grant"} /\ w[1] = "article"
      BY <2>1, <2>2, <2>5 DEF StageLocks, Awaits
    <3>2. QED
      BY <3>1 DEF LockOrder
  <2>6. QED
    BY <2>1, <2>3, <2>4, <2>5 DEF Awaits
<1>2. QED
  BY Inductive, <1>1, PTL

-----------------------------------------------------------------------------
(* The executor implements the abstract ledger: each of its steps is a step *)
(* of the ledger, or leaves what the ledger shows alone.                    *)
LEMMA InitPromised == Init => Promise!Init
<1> SUFFICES ASSUME Init PROVE Promise!Init
  OBVIOUS
<1>1. effects = [k \in Key |-> <<>>] /\ attestations = [k \in Key |-> <<>>]
  BY DEF Init
<1>2. \A k \in Key : Spoken(attestations[k]) = <<>>
  BY <1>1 DEF Spoken
<1>3. QED
  BY <1>1, <1>2 DEF Promise!Init

(* What a one-token history speaks of.                                      *)
LEMMA OneToken ==
  ASSUME NEW t
  PROVE  Spoken(<<t>>) = <<t.preimage.mut>>
<1> DEFINE f == [i \in DOMAIN <<t>> |-> <<t>>[i].preimage.mut]
<1>1. DOMAIN <<t>> = {1} /\ <<t>>[1] = t
  OBVIOUS
<1>2. f = [i \in {1} |-> t.preimage.mut]
  BY <1>1
<1>3. <<t.preimage.mut>> = [i \in {1} |-> t.preimage.mut]
  OBVIOUS
<1>4. QED
  BY <1>2, <1>3 DEF Spoken

(* Every step of the executor is a step of the abstract ledger or leaves    *)
(* its variables alone; the only step that moves them is a commit.          *)
LEMMA StepPromised ==
  ASSUME TypeOK, \A o \in Session : SessionInv(o),
         OneUse, NonceSingleUse, NoStrayEvidence, [Next]_vars
  PROVE  [Promise!Next]_(Promise!vars)
<1>1. ASSUME UNCHANGED <<effects, attestations>>
      PROVE  UNCHANGED Promise!vars
  BY <1>1 DEF Promise!vars
<1>2. ASSUME NEW s \in Session, pc[s] = "commit", MakeVisible(s)
      PROVE  Promise!Next
  <2> DEFINE k == KeyOf(GrantOf(s))
  <2>1. /\ k \in Key /\ mut[s] \in Mutation /\ effects[k] = <<>>
        /\ effects' = [effects EXCEPT ![k] = <<mut[s]>>]
        /\ attestations' = [attestations EXCEPT ![k] = <<TokenOf(s)>>]
    BY <1>2, CommitFacts
  <2>2. Spoken(attestations'[k]) = <<mut[s]>>
    <3>1. attestations'[k] = <<TokenOf(s)>>
      BY <2>1 DEF TypeOK
    <3>2. TokenOf(s).preimage.mut = mut[s]
      BY DEF TokenOf, PreimageOf, GatePreimage
    <3>3. Spoken(<<TokenOf(s)>>) = <<mut[s]>>
      BY <3>2, OneToken
    <3>4. QED
      BY <3>1, <3>3
  <2>3. \A j \in Key : j # k => attestations'[j] = attestations[j]
    BY <2>1 DEF TypeOK
  <2>4. [j \in Key |-> Spoken(attestations'[j])]
          = [[j \in Key |-> Spoken(attestations[j])] EXCEPT ![k] = <<mut[s]>>]
    <3>1. ASSUME NEW j \in Key
          PROVE  Spoken(attestations'[j]) = IF j = k THEN <<mut[s]>> ELSE Spoken(attestations[j])
      BY <2>2, <2>3
    <3>2. QED
      BY <2>1, <3>1
  <2>5. PICK j \in Key, e \in Mutation : j = k /\ e = mut[s]
    BY <2>1
  <2>6. Promise!Execute(j, e)
    BY <2>1, <2>4, <2>5 DEF Promise!Execute
  <2>7. QED
    BY <2>6 DEF Promise!Next
<1>3. QED
  <2>1. CASE \/ \E n \in Nonce, t \in Target : MeasureState(n, t)
             \/ \E n \in Nonce : IssueChallenge(n) \/ ChallengeExpires(n)
             \/ \E a \in Article : OwnerWrite(a)
             \/ \E s \in Session, g \in Grant, t \in Target, p \in Nonce \cup {NoNonce} :
                  Receive(s, g, t, p)
             \/ UNCHANGED vars
    <3>1. UNCHANGED <<attestations, effects, ledger>>
      <4>1. CASE \/ \E n \in Nonce, t \in Target : MeasureState(n, t)
                 \/ \E s \in Session, g \in Grant, t \in Target, p \in Nonce \cup {NoNonce} :
                      Receive(s, g, t, p)
                 \/ UNCHANGED vars
        BY <4>1 DEF MeasureState, Receive, vars, dbVars, history
      <4>2. CASE \/ \E n \in Nonce : IssueChallenge(n) \/ ChallengeExpires(n)
                 \/ \E a \in Article : OwnerWrite(a)
        BY <4>2 DEF IssueChallenge, ChallengeExpires, OwnerWrite, history
      <4>3. QED
        BY <2>1, <4>1, <4>2
    <3>2. QED
      BY <1>1, <3>1
  <2>2. CASE \E s \in Session : \/ Rollback(s) \/ StatementFails(s) \/ ProcessDies(s)
                                \/ Connect(s) \/ LockChallenge(s) \/ CompareState(s)
                                \/ ClaimGrant(s) \/ Mutate(s) \/ Seal(s) \/ Persist(s)
    BY <1>1, <2>2 DEF Rollback, StatementFails, ProcessDies, Connect, LockChallenge,
       CompareState, ClaimGrant, Mutate, Seal, Persist, dbVars, history
  <2>3. CASE \E s \in Session : Commit(s) \/ CommitUnacknowledged(s)
    BY <1>2, <2>3 DEF Commit, CommitUnacknowledged
  <2>4. QED
    BY <2>1, <2>2, <2>3 DEF Next, Step

(* The mutation, the consumption and the evidence of a grant appear in one  *)
(* step, at most once: PgAtomic implements OneUseLedger in its strict form. *)
THEOREM ExecutorKeepsPromise == Spec => ImplementsOneUseLedger
<1>1. IInv /\ [Next]_vars => [Promise!Next]_(Promise!vars)
  BY StepPromised DEF IInv
<1>2. QED
  BY InitPromised, Inductive, <1>1, PTL DEF Spec, ImplementsOneUseLedger, Promise!Spec
=============================================================================
