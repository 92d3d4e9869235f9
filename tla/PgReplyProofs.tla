---------------------------- MODULE PgReplyProofs ----------------------------
(***************************************************************************)
(* What the Postgres executor answers is so, and stays so, for any number  *)
(* of sessions, sidecars, grants and nonces.                               *)
(***************************************************************************)
EXTENDS PgAtomicProofs

\* What a nonce was spent by has a row in the ledger.
SpentHasRow == \A n \in Nonce : \A k \in spentBy[n] : ledger[k] # None

\* What ReplyTruthful asks of one reply.
Holds(r) ==
  /\ r.status = "OK" =>
       ledger[r.key] # None /\ r.key \in spentBy[r.nonce] /\ Len(attestations[r.key]) = 1
  /\ r.status = "GRANT_CONSUMED" => ledger[r.key] # None
  /\ r.status = "STATE_CHALLENGE_CONSUMED" => \E k \in spentBy[r.nonce] : k # r.key

\* The statuses that promise something.
Promising == {"OK", "GRANT_CONSUMED", "STATE_CHALLENGE_CONSUMED"}

ReplyInv ==
  /\ SpentHasRow
  /\ \A s \in Session : reply[s] # None => Holds(reply[s])

\* Only a commit touches the ledger and what is attested.
LEMMA LedgerByCommit ==
  ASSUME Next
  PROVE  \/ UNCHANGED <<ledger, attestations, spentBy>>
         \/ \E s \in Session : pc[s] = "commit" /\ MakeVisible(s)
<1>1. ASSUME NEW n \in Nonce, NEW t \in Target, MeasureState(n, t)
      PROVE  UNCHANGED <<ledger, attestations, spentBy>>
  BY <1>1 DEF MeasureState, dbVars, history
<1>2. ASSUME NEW a \in Article, OwnerWrite(a)
      PROVE  UNCHANGED <<ledger, attestations, spentBy>>
  BY <1>2 DEF OwnerWrite, history
<1>3. ASSUME NEW s \in Session, NEW g \in Grant, NEW t \in Target, NEW p \in Nonce \cup {NoNonce},
             Receive(s, g, t, p)
      PROVE  UNCHANGED <<ledger, attestations, spentBy>>
  BY <1>3 DEF Receive, dbVars, history
<1>4. ASSUME NEW s \in Session,
             \/ Connect(s) \/ LockChallenge(s) \/ CompareState(s) \/ ClaimGrant(s) \/ Mutate(s)
             \/ Seal(s) \/ Persist(s) \/ Rollback(s) \/ StatementFails(s) \/ ProcessDies(s)
      PROVE  UNCHANGED <<ledger, attestations, spentBy>>
  BY <1>4, Zenon DEF Connect, LockChallenge, CompareState, ClaimGrant, Mutate, Seal, Persist,
              Rollback, StatementFails, ProcessDies, dbVars, history
<1>5. ASSUME NEW s \in Session, Commit(s) \/ CommitUnacknowledged(s)
      PROVE  pc[s] = "commit" /\ MakeVisible(s)
  BY <1>5, Zenon DEF Commit, CommitUnacknowledged
<1>6. ASSUME NEW n \in Nonce, IssueChallenge(n) \/ ChallengeExpires(n)
      PROVE  UNCHANGED <<ledger, attestations, spentBy>>
  BY <1>6 DEF IssueChallenge, ChallengeExpires, dbVars, history
<1> QED BY <1>1, <1>2, <1>3, <1>4, <1>5, <1>6, Zenon DEF Next, Step

(* The ledger only grows, a spent nonce stays spent, and what is attested   *)
(* for a spent grant is final.                                              *)
LEMMA LedgerGrows ==
  ASSUME IInv, SpentHasRow, [Next]_vars
  PROVE  /\ \A k \in Key : ledger[k] # None =>
                /\ ledger'[k] # None
                /\ ledger'[k] = ledger[k] /\ attestations'[k] = attestations[k]
         /\ \A n \in Nonce : spentBy[n] \subseteq spentBy'[n]
         /\ SpentHasRow'
<1>1. CASE UNCHANGED <<ledger, attestations, spentBy>>
  BY <1>1 DEF SpentHasRow
<1>2. ASSUME NEW s \in Session, pc[s] = "commit", MakeVisible(s)
      PROVE  /\ \A k \in Key : ledger[k] # None =>
                   /\ ledger'[k] # None
                   /\ ledger'[k] = ledger[k] /\ attestations'[k] = attestations[k]
             /\ \A n \in Nonce : spentBy[n] \subseteq spentBy'[n]
             /\ SpentHasRow'
  <2> DEFINE m == GrantOf(s).nonce
             j == KeyOf(GrantOf(s))
  <2>1. /\ m \in Nonce /\ j \in Key /\ ledger[j] = None
        /\ row[s] \in LedgerRow
        /\ ledger' = [ledger EXCEPT ![j] = row[s]]
        /\ attestations' = [attestations EXCEPT ![j] = <<TokenOf(s)>>]
        /\ spentBy[m] = {} /\ spentBy' = [spentBy EXCEPT ![m] = {j}]
    BY <1>2, CommitFacts DEF IInv
  <2>2. row[s] # None
    BY <2>1, NullFacts
  <2>3. /\ ledger \in [Key -> LedgerRow \cup {None}] /\ spentBy \in [Nonce -> SUBSET Key]
        /\ attestations \in [Key -> Seq(Token)]
    BY DEF IInv, TypeOK
  <2> HIDE DEF m, j
  <2> QED BY <2>1, <2>2, <2>3 DEF SpentHasRow
<1>3. CASE UNCHANGED vars
  BY <1>1, <1>3 DEF vars, dbVars, history
<1> QED BY <1>1, <1>2, <1>3, LedgerByCommit

\* What a reply promises stays kept.
LEMMA HoldsStays ==
  ASSUME IInv, SpentHasRow, [Next]_vars
  PROVE  \A r \in Reply : Holds(r) => Holds(r)'
<1> SUFFICES ASSUME NEW r \in Reply, Holds(r)
             PROVE  Holds(r)'
  OBVIOUS
<1>1. r.key \in Key /\ r.nonce \in Nonce
  BY DEF Reply
<1> QED BY <1>1, LedgerGrows DEF Holds

-----------------------------------------------------------------------------
(* What a step makes of the answer of a session: it is as before, or gone,  *)
(* or promises nothing, or holds.                                           *)
Sound(o) ==
  \/ reply'[o] = reply[o] \/ reply'[o] = None
  \/ reply'[o].status \notin Promising
  \/ Holds(reply[o])'

\* The answer of one session changes and keeps its word.
LEMMA ReplyBy ==
  ASSUME TypeOK, NEW s \in Session, NEW r, reply' = [reply EXCEPT ![s] = r],
         r = None \/ r.status \notin Promising
  PROVE  \A o \in Session : Sound(o)
BY DEF TypeOK, Sound

\* An answer names its status and the grant it is about.
LEMMA ReplyFields ==
  ASSUME NEW s, NEW st
  PROVE  /\ ReplyOf(s, st).status = st /\ ReplyOf(s, st).key = KeyOf(GrantOf(s))
         /\ ReplyOf(s, st).nonce = GrantOf(s).nonce
BY DEF ReplyOf

\* An exception promises nothing.
LEMMA RaiseIsSound ==
  ASSUME TypeOK, NEW s \in Session, Raise(s)
  PROVE  \A o \in Session : Sound(o)
<1>1. reply' = [reply EXCEPT ![s] = ReplyOf(s, "SEAL_FAILED")]
  BY DEF Raise
<1>2. ReplyOf(s, "SEAL_FAILED").status \notin Promising
  BY ReplyFields DEF Promising
<1> QED BY <1>1, <1>2, ReplyBy

(* Before the INSERT no answer promises anything: neither the refusals      *)
(* before the gate nor those over the challenge and the state.              *)
LEMMA ReceiveIsSound ==
  ASSUME TypeOK, NEW s \in Session, NEW g \in Grant, NEW t, NEW p, Receive(s, g, t, p)
  PROVE  \A o \in Session : Sound(o)
<1> DEFINE refusal == PreGateRefusal(s, g, p)
<1>1. refusal # None => refusal \notin Promising
  BY Zenon DEF PreGateRefusal, Promising
<1>2. \/ reply' = [reply EXCEPT ![s] = None]
      \/ /\ refusal # None
         /\ reply' = [reply EXCEPT ![s] =
              [key |-> KeyOf(g), nonce |-> g.nonce, status |-> refusal]]
  BY Zenon DEF Receive
<1>3. CASE reply' = [reply EXCEPT ![s] = None]
  BY <1>3, ReplyBy
<1>4. CASE /\ refusal # None
           /\ reply' = [reply EXCEPT ![s] =
                [key |-> KeyOf(g), nonce |-> g.nonce, status |-> refusal]]
  <2> HIDE DEF refusal
  <2>1. [key |-> KeyOf(g), nonce |-> g.nonce, status |-> refusal].status \notin Promising
    BY <1>1, <1>4
  <2> QED BY <1>4, <2>1, ReplyBy
<1> QED BY <1>2, <1>3, <1>4

\* The refusals over the challenge and over the state.
LEMMA EarlyIsSound ==
  ASSUME TypeOK, NEW s \in Session, LockChallenge(s) \/ CompareState(s)
  PROVE  \A o \in Session : Sound(o)
<1>1. \/ UNCHANGED reply
      \/ \E st : st \notin Promising /\ Refuse(s, st)
  <2>1. CASE LockChallenge(s)
    <3> DEFINE st == LockRefusal(s, challenges[GrantOf(s).nonce])
    <3>1. UNCHANGED reply \/ (st # None /\ Refuse(s, st))
      BY <2>1, Zenon DEF LockChallenge
    <3>2. st # None => st \notin Promising
      BY Zenon DEF LockRefusal, Promising
    <3> QED BY <3>1, <3>2, Zenon
  <2>2. CASE CompareState(s)
    <3>1. UNCHANGED reply \/ Refuse(s, "STATE_DRIFT") \/ Refuse(s, "STATE_TOKEN_MISMATCH")
      BY <2>2, Zenon DEF CompareState
    <3> QED BY <3>1, Zenon DEF Promising
  <2> QED BY <2>1, <2>2
<1>2. CASE UNCHANGED reply
  BY <1>2 DEF Sound
<1>3. ASSUME NEW st, st \notin Promising, Refuse(s, st)
      PROVE  \A o \in Session : Sound(o)
  <2>1. reply' = [reply EXCEPT ![s] = ReplyOf(s, st)] /\ ReplyOf(s, st).status \notin Promising
    BY <1>3, ReplyFields DEF Refuse
  <2> QED BY <2>1, ReplyBy
<1> QED BY <1>1, <1>2, <1>3

(* The INSERT: a committed row of the same key is this grant's own; a       *)
(* challenge that was stamped was stamped by a grant with a committed row,  *)
(* and this grant has none.                                                 *)
LEMMA ClaimIsSound ==
  ASSUME IInv, SpentHasRow, NEW s \in Session, ClaimGrant(s)
  PROVE  \A o \in Session : Sound(o)
<1> DEFINE n == GrantOf(s).nonce
           k == KeyOf(GrantOf(s))
<1>1. /\ TypeOK /\ n \in Nonce /\ k \in Key
      /\ challenges[n] # None /\ seen[s].consumed = challenges[n].consumed
      /\ UNCHANGED <<ledger, spentBy>>
  <2>1. TypeOK /\ SessionInv(s) /\ pc[s] = "claim" /\ UNCHANGED <<ledger, spentBy>>
    BY DEF IInv, ClaimGrant, dbVars, history
  <2>2. n \in Nonce /\ k \in Key
    BY <2>1, SessionFacts
  <2> QED BY <2>1, <2>2 DEF SessionInv
<1>2. \/ UNCHANGED reply
      \/ ledger[k] # None /\ Refuse(s, "GRANT_CONSUMED")
      \/ ledger[k] = None /\ seen[s].consumed /\ Refuse(s, "STATE_CHALLENGE_CONSUMED")
  BY Zenon DEF ClaimGrant, Spent, Reused
<1>3. CASE UNCHANGED reply
  BY <1>3 DEF Sound
<1>4. CASE ledger[k] # None /\ Refuse(s, "GRANT_CONSUMED")
  <2>1. reply' = [reply EXCEPT ![s] = ReplyOf(s, "GRANT_CONSUMED")]
    BY <1>4 DEF Refuse
  <2>2. reply'[s] = ReplyOf(s, "GRANT_CONSUMED")
    BY <1>1, <2>1 DEF TypeOK
  <2>3. reply'[s].status = "GRANT_CONSUMED" /\ reply'[s].key = k
    BY <2>2, ReplyFields
  <2>4. Holds(reply[s])'
    BY <1>1, <1>4, <2>3 DEF Holds
  <2> QED BY <1>1, <2>1, <2>4 DEF Sound, TypeOK
<1>5. CASE ledger[k] = None /\ seen[s].consumed /\ Refuse(s, "STATE_CHALLENGE_CONSUMED")
  <2>1. reply' = [reply EXCEPT ![s] = ReplyOf(s, "STATE_CHALLENGE_CONSUMED")]
    BY <1>5 DEF Refuse
  <2>2. reply'[s] = ReplyOf(s, "STATE_CHALLENGE_CONSUMED")
    BY <1>1, <2>1 DEF TypeOK
  <2>3. /\ reply'[s].status = "STATE_CHALLENGE_CONSUMED"
        /\ reply'[s].key = k /\ reply'[s].nonce = n
    BY <2>2, ReplyFields
  <2>4. \E j \in spentBy[n] : j # k
    <3>1. spentBy[n] # {}
      BY <1>1, <1>5 DEF IInv, NonceSingleUse
    <3> QED BY <1>1, <1>5, <3>1 DEF SpentHasRow
  <2>5. Holds(reply[s])'
    BY <1>1, <2>3, <2>4 DEF Holds
  <2> QED BY <1>1, <2>1, <2>5 DEF Sound, TypeOK
<1> QED BY <1>2, <1>3, <1>4, <1>5

\* A commit: OK is said of a row, a stamp and an attestation that are there.
LEMMA CommitIsSound ==
  ASSUME IInv, NEW s \in Session, Commit(s) \/ CommitUnacknowledged(s)
  PROVE  \A o \in Session : Sound(o)
<1> DEFINE n == GrantOf(s).nonce
           k == KeyOf(GrantOf(s))
<1>1. TypeOK
  BY DEF IInv
<1>2. CASE CommitUnacknowledged(s)
  <2>1. \/ reply' = [reply EXCEPT ![s] = ReplyOf(s, "SEAL_FAILED")]
        \/ reply' = [reply EXCEPT ![s] = None]
    BY <1>2 DEF CommitUnacknowledged
  <2>2. ReplyOf(s, "SEAL_FAILED").status \notin Promising
    BY ReplyFields DEF Promising
  <2> QED BY <1>1, <2>1, <2>2, ReplyBy
<1>3. CASE Commit(s)
  <2>1. pc[s] = "commit" /\ MakeVisible(s) /\ reply' = [reply EXCEPT ![s] = ReplyOf(s, "OK")]
    BY <1>3 DEF Commit
  <2>2. reply'[s] = ReplyOf(s, "OK")
    BY <1>1, <2>1 DEF TypeOK
  <2>3. reply'[s].key = k /\ reply'[s].nonce = n /\ reply'[s].status = "OK"
    BY <2>2, ReplyFields
  <2>4. /\ n \in Nonce /\ k \in Key /\ row[s] \in LedgerRow
        /\ ledger' = [ledger EXCEPT ![k] = row[s]]
        /\ attestations' = [attestations EXCEPT ![k] = <<TokenOf(s)>>]
        /\ spentBy' = [spentBy EXCEPT ![n] = {k}]
    BY <2>1, CommitFacts DEF IInv
  <2>5. row[s] # None
    BY <2>4, NullFacts
  <2>6. ledger'[k] # None /\ k \in spentBy'[n] /\ Len(attestations'[k]) = 1
    <3>1. ledger'[k] = row[s] /\ spentBy'[n] = {k} /\ attestations'[k] = <<TokenOf(s)>>
      BY <1>1, <2>4 DEF TypeOK
    <3> QED BY <2>5, <3>1
  <2>7. Holds(reply[s])'
    BY <2>3, <2>6 DEF Holds
  <2> QED BY <1>1, <2>1, <2>7 DEF Sound, TypeOK
<1> QED BY <1>2, <1>3

\* Every step of every session keeps its word.
LEMMA StepIsSound ==
  ASSUME IInv, SpentHasRow, [Next]_vars
  PROVE  \A o \in Session : Sound(o)
<1>0. TypeOK
  BY DEF IInv
<1>1. CASE UNCHANGED reply
  BY <1>1 DEF Sound
<1>2. CASE UNCHANGED vars
  BY <1>1, <1>2 DEF vars
<1>3. ASSUME NEW n, NEW t, NEW a,
             MeasureState(n, t) \/ IssueChallenge(n) \/ ChallengeExpires(n) \/ OwnerWrite(a)
      PROVE  UNCHANGED reply
  BY <1>3, Zenon DEF MeasureState, IssueChallenge, ChallengeExpires, OwnerWrite
<1>4. ASSUME NEW s \in Session,
             Connect(s) \/ Mutate(s) \/ Rollback(s)
      PROVE  UNCHANGED reply
  BY <1>4, Zenon DEF Connect, Mutate, Rollback
<1>5. ASSUME NEW s \in Session, Seal(s) \/ Persist(s) \/ StatementFails(s)
      PROVE  UNCHANGED reply \/ Raise(s)
  BY <1>5, Zenon DEF Seal, Persist, StatementFails
<1>6. ASSUME NEW s \in Session, ProcessDies(s)
      PROVE  \A o \in Session : Sound(o)
  <2>1. reply' = [reply EXCEPT ![s] = None]
    BY <1>6 DEF ProcessDies
  <2> QED BY <1>0, <2>1, ReplyBy
<1>7. CASE Next
  BY <1>0, <1>1, <1>3, <1>4, <1>5, <1>6, <1>7, RaiseIsSound, ReceiveIsSound, EarlyIsSound,
     ClaimIsSound, CommitIsSound, Zenon DEF Next, Step
<1> QED BY <1>2, <1>7

(* Whatever the interleaving of sessions, and whatever fails: what a caller *)
(* is told about its grant and its nonce is so, and remains so as long as   *)
(* the answer stands (gate.sql 121-135, atomic.js 200-262).                 *)
THEOREM RepliesAreTrue == Spec => []ReplyTruthful
<1>1. Init => ReplyInv
  BY DEF Init, ReplyInv, SpentHasRow
<1>2. IInv /\ ReplyInv /\ [Next]_vars => ReplyInv'
  <2> SUFFICES ASSUME IInv, ReplyInv, [Next]_vars
               PROVE  ReplyInv'
    OBVIOUS
  <2>1. SpentHasRow /\ SpentHasRow'
    BY LedgerGrows DEF ReplyInv
  <2>2. ASSUME NEW o \in Session, reply'[o] # None
        PROVE  Holds(reply[o])'
    <3>1. Sound(o)
      BY <2>1, StepIsSound
    <3>2. CASE reply'[o] = reply[o]
      <4>1. reply[o] \in Reply /\ Holds(reply[o])
        BY <2>2, <3>2 DEF ReplyInv, IInv, TypeOK
      <4> QED BY <2>1, <3>2, <4>1, HoldsStays DEF Holds
    <3>3. CASE reply'[o].status \notin Promising
      BY <3>3 DEF Holds, Promising
    <3> QED BY <2>2, <3>1, <3>2, <3>3 DEF Sound
  <2> QED BY <2>1, <2>2 DEF ReplyInv
<1>3. ReplyInv => ReplyTruthful
  BY DEF ReplyInv, Holds, ReplyTruthful
<1> QED BY Inductive, <1>1, <1>2, <1>3, PTL DEF Spec
-----------------------------------------------------------------------------
(* A nonce is spent once it bears a stamp, and it bears it for good.        *)
LEMMA StampsStay ==
  ASSUME IInv, SpentHasRow, [Next]_vars, NEW n \in Nonce,
         challenges[n] # None, challenges[n].consumed
  PROVE  /\ spentBy[n] # {}
         /\ challenges'[n] # None /\ challenges'[n].consumed
<1>1. NonceSingleUse /\ NonceSingleUse'
  BY InvStep DEF IInv
<1>2. spentBy[n] # {}
  BY <1>1 DEF NonceSingleUse
<1>3. spentBy'[n] # {}
  BY <1>2, LedgerGrows
<1> QED BY <1>1, <1>2, <1>3 DEF NonceSingleUse

\* A grant whose nonces are all stamped gets no row.
LEMMA NoUseGetsNoRow ==
  ASSUME IInv, [Next]_vars, NEW k \in Key, NoUseLeft(k)
  PROVE  ledger'[k] = None
<1>1. CASE UNCHANGED ledger
  BY <1>1 DEF NoUseLeft
<1>2. ASSUME NEW s \in Session, pc[s] = "commit", MakeVisible(s)
      PROVE  ledger'[k] = None
  <2> DEFINE m == GrantOf(s).nonce
             j == KeyOf(GrantOf(s))
  <2>1. m \in Nonce /\ spentBy[m] = {} /\ ledger' = [ledger EXCEPT ![j] = row[s]]
    BY <1>2, CommitFacts DEF IInv
  <2>2. GrantOf(s) \in Grant
    BY <1>2, SessionFacts DEF IInv, Request, GrantOf
  <2>3. ~(challenges[m] # None /\ challenges[m].consumed)
    BY <2>1 DEF IInv, NonceSingleUse
  <2>4. j # k
    BY <2>2, <2>3 DEF NoUseLeft
  <2> QED BY <2>1, <2>4 DEF NoUseLeft, IInv, TypeOK
<1> QED BY <1>1, <1>2, LedgerByCommit DEF vars, dbVars

(* Once every nonce a grant could be used over bears a stamp, a grant       *)
(* without a row stays without one: a reconciliation's REJECTED is then     *)
(* final (gate.sql 74-78, 132; reconcile.js 487-494).                       *)
THEOREM RejectionsAreFinal == Spec => RejectionIsFinal
<1>1. Init => SpentHasRow
  BY DEF Init, SpentHasRow
<1>2. IInv /\ SpentHasRow /\ [Next]_vars => SpentHasRow'
  BY LedgerGrows
<1>3. IInv /\ SpentHasRow /\ [Next]_vars
        => [\A k \in Key : NoUseLeft(k) => NoUseLeft(k)']_vars
  <2> SUFFICES ASSUME IInv, SpentHasRow, [Next]_vars, NEW k \in Key, NoUseLeft(k)
               PROVE  NoUseLeft(k)'
    OBVIOUS
  <2>1. ledger'[k] = None
    BY NoUseGetsNoRow
  <2>2. ASSUME NEW g \in Grant, KeyOf(g) = k
        PROVE  challenges'[g.nonce] # None /\ challenges'[g.nonce].consumed
    <3>1. g.nonce \in Nonce
      BY GrantFacts
    <3> QED BY <2>2, <3>1, StampsStay DEF NoUseLeft
  <2> QED BY <2>1, <2>2 DEF NoUseLeft
<1> QED BY Inductive, <1>1, <1>2, <1>3, PTL DEF Spec, RejectionIsFinal
=============================================================================
