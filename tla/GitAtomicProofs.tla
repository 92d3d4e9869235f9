-------------------------- MODULE GitAtomicProofs --------------------------
(***************************************************************************)
(* Proofs about GitAtomic for any number of sessions, grants, refs and     *)
(* pushes: the inductive invariant IInv, and from it that a grant is       *)
(* single-use behind the hook, that answers are true, that STATE_DRIFT     *)
(* leaves the grant unspent where the ledger can be read, and that the     *)
(* executor implements the abstract ledger; and about GitReconcile, behind *)
(* the hook and with git commands that can read: whatever races the        *)
(* reconciliation, it accounts for every use, confirms nothing that is not *)
(* proven, and says so when a move is.                                     *)
(***************************************************************************)
EXTENDS GitReconcile, TLAPS

(* None is neither a request nor a reply, and Absent is no object.          *)
LEMMA NoneFacts ==
  /\ None \notin Request /\ None \notin Reply /\ None \notin Object
  /\ Absent \notin Object /\ None # Absent
BY NoneIsNoValue, GitConstants

(* The parts of a session's request.                                        *)
LEMMA RequestFacts ==
  ASSUME NEW s \in Session, TypeOK, req[s] # None, req[s].body.pin # None
  PROVE  /\ req[s].grant \in Grant /\ req[s].body \in Body
         /\ JtiOf(s) \in Jti /\ RefOf(s) \in Ref
         /\ req[s].body.new \in Object \cup {Absent}
         /\ MoveOf(s) \in Move
<1>1. req[s] \in Request
  BY DEF TypeOK
<1>2. req[s].grant \in Grant /\ req[s].body \in Body
  BY <1>1 DEF Request
<1>3. req[s].grant \in GrantType /\ req[s].body \in BodyType
  BY <1>2, GitConstants
<1>4. JtiOf(s) \in Jti /\ RefOf(s) \in Ref /\ req[s].body.new \in Object \cup {Absent}
  BY <1>3 DEF JtiOf, RefOf, GrantType, BodyType
<1>5. req[s].body.pin \in Object \cup {Absent}
  BY <1>3 DEF BodyType
<1>6. DeploymentOf[s] \in Deployment
  BY GitConstants
<1>7. MoveOf(s) \in Move
  BY <1>4, <1>5, <1>6 DEF MoveOf, Move, RefOf
<1>8. QED
  BY <1>2, <1>4, <1>7

(* A list that notes its first two entries keeps their type.                *)
LEMMA NotedType ==
  ASSUME NEW S, NEW list \in Seq(S), NEW e \in S
  PROVE  Noted(list, e) \in Seq(S)
BY DEF Noted

(* The first entry noted is the whole list.                                 *)
LEMMA NotedFirst ==
  ASSUME NEW e
  PROVE  Noted(<< >>, e) = <<e>>
BY DEF Noted

(* An answer is a reply, and leaves the session idle.                       *)
LEMMA AnswerType ==
  ASSUME TypeOK, NEW s \in Session, NEW j \in Jti, NEW st \in Status, Answer(s, j, st)
  PROVE  /\ pc' \in [Session -> {"idle", "replay", "batch", "explain", "sign"}]
         /\ req' \in [Session -> Request \cup {None}]
         /\ reply' \in [Session -> Reply \cup {None}]
<1>1. [jti |-> j, status |-> st] \in Reply
  BY DEF Reply
<1>2. QED
  BY <1>1 DEF TypeOK, Answer

(* A batch that lands adds its own jti to the log of its ref, or nothing.   *)
LEMMA LogAfterFacts ==
  ASSUME NEW s \in Session
  PROVE  LogAfter(s) \subseteq reflog[RefOf(s)] \cup {JtiOf(s)}
BY DEF LogAfter

(* The start satisfies the invariant.                                       *)
LEMMA InitInv == Init => IInv
<1>1. ASSUME Init PROVE TypeOK /\ Busy
  BY <1>1, GitConstants DEF Init, TypeOK, Busy
<1>2. ASSUME Init, Protected PROVE Guarded
  BY <1>2
     DEF Protected, Init, Guarded, SignerInv, OneSigner, LedgerInv, MarkersAreClaims, OneUse, RepliesTruthful
<1>3. QED
  BY <1>1, <1>2 DEF IInv
-----------------------------------------------------------------------------
(* Every action keeps every variable's type, and a busy session's request.  *)
LEMMA TypeStep ==
  ASSUME TypeOK, Busy, [Next]_vars
  PROVE  TypeOK' /\ Busy'
<1> USE NoneFacts
<1>1. ASSUME NEW s \in Session, NEW g \in Grant, NEW b \in Body, Receive(s, g, b)
      PROVE  TypeOK' /\ Busy'
  <2>1. g.jti \in Jti
    BY GitConstants DEF GrantType
  <2>2. CASE \E st \in Status : Answer(s, g.jti, st)
    <3>1. PICK st \in Status : Answer(s, g.jti, st)
      BY <2>2
    <3>2. TypeOK'
      BY <1>1, <2>1, <3>1, AnswerType DEF Receive, TypeOK, gitVars
    <3>3. Busy'
      BY <3>1 DEF Answer, Busy, TypeOK
    <3>4. QED
      BY <3>2, <3>3
  <2>3. CASE /\ b.pin # None
             /\ pc'    = [pc EXCEPT ![s] = "replay"]
             /\ req'   = [req EXCEPT ![s] = [grant |-> g, body |-> b]]
             /\ reply' = [reply EXCEPT ![s] = None]
    <3>1. [grant |-> g, body |-> b] \in Request
      BY DEF Request
    <3>2. TypeOK'
      BY <1>1, <2>3, <3>1 DEF Receive, TypeOK, gitVars
    <3>3. Busy'
      BY <2>3, <3>1 DEF Busy, TypeOK
    <3>4. QED
      BY <3>2, <3>3
  <2>4. QED
    BY <1>1, <2>2, <2>3 DEF Receive, Status
<1>2. ASSUME NEW s \in Session, CheckReplay(s)
      PROVE  TypeOK' /\ Busy'
  <2>1. JtiOf(s) \in Jti
    BY <1>2, RequestFacts DEF CheckReplay, Busy
  <2>2. CASE Answer(s, JtiOf(s), "GRANT_CONSUMED")
    BY <1>2, <2>1, <2>2, AnswerType DEF CheckReplay, TypeOK, gitVars, Status, Answer, Busy
  <2>3. CASE pc' = [pc EXCEPT ![s] = "batch"] /\ UNCHANGED <<req, reply>>
    BY <1>2, <2>3 DEF CheckReplay, TypeOK, gitVars, Busy
  <2>4. QED
    BY <1>2, <2>2, <2>3 DEF CheckReplay
<1>3. ASSUME NEW s \in Session, RunBatch(s)
      PROVE  TypeOK' /\ Busy'
  <2>1. JtiOf(s) \in Jti /\ RefOf(s) \in Ref /\ req[s].body.new \in Object \cup {Absent} /\ MoveOf(s) \in Move
    BY <1>3, RequestFacts DEF RunBatch, Busy
  <2>2. CASE Land(s) /\ \E next \in {"sign", "explain"} : pc' = [pc EXCEPT ![s] = next]
    <3>1. Noted(applied[JtiOf(s)], MoveOf(s)) \in Seq(Move)
      BY <2>1, NotedType DEF TypeOK
    <3>2. applied' \in [Jti -> Seq(Move)]
      BY <2>2, <3>1 DEF Land, TypeOK
    <3>3. refs' \in [Ref -> Object \cup {Absent}] /\ claims' \in [Jti -> Object \cup {Absent}]
      BY <2>1, <2>2 DEF Land, TypeOK
    <3>4. reflog' \in [Ref -> SUBSET Jti]
      BY <2>1, <2>2, LogAfterFacts DEF Land, TypeOK
    <3>5. QED
      BY <1>3, <2>2, <3>2, <3>3, <3>4 DEF RunBatch, TypeOK, Busy
  <2>3. CASE pc' = [pc EXCEPT ![s] = "explain"] /\ UNCHANGED <<gitVars, applied>>
    BY <1>3, <2>3 DEF RunBatch, TypeOK, gitVars, Busy
  <2>4. QED
    BY <1>3, <2>2, <2>3 DEF RunBatch
<1>4. ASSUME NEW s \in Session, Explain(s)
      PROVE  TypeOK' /\ Busy'
  <2>1. JtiOf(s) \in Jti
    BY <1>4, RequestFacts DEF Explain, Busy
  <2>2. PICK st \in Status : Answer(s, JtiOf(s), st)
    BY <1>4 DEF Explain, Status
  <2>3. QED
    BY <1>4, <2>1, <2>2, AnswerType DEF Explain, TypeOK, gitVars, Answer, Busy
<1>5. ASSUME NEW s \in Session, Sign(s)
      PROVE  TypeOK' /\ Busy'
  <2>1. JtiOf(s) \in Jti /\ MoveOf(s) \in Move
    BY <1>5, RequestFacts DEF Sign, Busy
  <2>2. Noted(evidence[JtiOf(s)], Signed(s)) \in Seq(Move)
    BY <2>1, NotedType DEF TypeOK, Signed
  <2>3. evidence' \in [Jti -> Seq(Move)]
    BY <1>5, <2>2 DEF Sign, TypeOK
  <2>4. Answer(s, JtiOf(s), "OK")
    BY <1>5 DEF Sign
  <2>5. QED
    BY <1>5, <2>1, <2>3, <2>4, AnswerType DEF Sign, TypeOK, gitVars, Status, Answer, Busy
<1>6. ASSUME NEW s \in Session, Crash(s)
      PROVE  TypeOK' /\ Busy'
  BY <1>6 DEF Crash, TypeOK, gitVars, Busy
<1>7. ASSUME NEW p \in PushSet, Push(p)
      PROVE  TypeOK' /\ Busy'
  <2>1. p.refs \in Updates(Ref) /\ p.claims \in Updates(Jti)
    BY GitConstants DEF PushType
  <2>2. \A r \in DOMAIN p.refs : p.refs[r] \in Object \cup {Absent}
    BY <2>1 DEF Updates
  <2>3. \A j \in DOMAIN p.claims : p.claims[j] \in Object \cup {Absent}
    BY <2>1 DEF Updates
  <2>4. QED
    BY <1>7, <2>2, <2>3 DEF Push, TypeOK, Busy
<1>8. ASSUME NEW force \in BOOLEAN, InstallHook(force)
      PROVE  TypeOK' /\ Busy'
  BY <1>8 DEF InstallHook, TypeOK, gitVars, Busy
<1>9. ASSUME UNCHANGED vars
      PROVE  TypeOK' /\ Busy'
  BY <1>9 DEF vars, gitVars, TypeOK, Busy
<1>10. QED
  BY <1>1, <1>2, <1>3, <1>4, <1>5, <1>6, <1>7, <1>8, <1>9 DEF Next, Step
-----------------------------------------------------------------------------
(* A true answer: OK is backed by a move and its evidence, GRANT_CONSUMED   *)
(* by a claim.                                                              *)
Truthful(r) ==
  /\ r.status = "OK" => applied[r.jti] # <<>> /\ evidence[r.jti] = applied[r.jti]
  /\ r.status = "GRANT_CONSUMED" => claims[r.jti] # Absent

(* A step that leaves the ledger, the moves and the evidence alone keeps    *)
(* what the hook guards, if it makes nobody a signer and answers truly.     *)
LEMMA QuietStep ==
  ASSUME Protected, Guarded, hook' = "ours",
         UNCHANGED <<claims, reflog, applied, evidence>>,
         \A o \in Session : pc'[o] = "sign" => pc[o] = "sign" /\ req'[o] = req[o],
         \A o \in Session : reply'[o] # None => reply'[o] = reply[o] \/ Truthful(reply'[o])
  PROVE  Guarded'
<1>1. ASSUME NEW o \in Session PROVE SignerInv(o)'
  BY <1>1 DEF Guarded, SignerInv, JtiOf, MoveOf, RefOf
<1>2. OneSigner'
  BY DEF Guarded, OneSigner, JtiOf
<1>3. LedgerInv' /\ MarkersAreClaims' /\ OneUse'
  BY DEF Guarded, LedgerInv, MarkersAreClaims, OneUse
<1>4. ASSUME NEW o \in Session, reply'[o] # None PROVE Truthful(reply'[o])
  BY <1>4 DEF Guarded, RepliesTruthful, Truthful
<1>5. RepliesTruthful'
  BY <1>4 DEF RepliesTruthful, Truthful
<1>6. QED
  BY <1>1, <1>2, <1>3, <1>5 DEF Guarded

(* An answer is its session's reply, and nobody else's.                     *)
LEMMA AnswerQuiet ==
  ASSUME TypeOK, NEW s \in Session, NEW j \in Jti, NEW st \in Status, Answer(s, j, st)
  PROVE  /\ \A o \in Session : pc'[o] = "sign" => pc[o] = "sign" /\ req'[o] = req[o]
         /\ \A o \in Session : reply'[o] # None =>
              reply'[o] = reply[o] \/ (o = s /\ reply'[o] = [jti |-> j, status |-> st])
BY DEF Answer, TypeOK

(* The batch lands only for a jti without a claim, so its move is the       *)
(* first, and nobody else is about to sign it.                              *)
LEMMA LandStep ==
  ASSUME Protected, TypeOK, Busy, Guarded, NEW s \in Session, pc[s] = "batch", Land(s),
         NEW next \in {"sign", "explain"}, pc' = [pc EXCEPT ![s] = next],
         UNCHANGED <<hook, req, reply, evidence>>
  PROVE  Guarded'
<1> DEFINE j == JtiOf(s)
<1>1. j \in Jti /\ RefOf(s) \in Ref /\ req[s].body.new \in Object \cup {Absent}
  BY RequestFacts DEF Busy
<1>2. claims[j] = Absent /\ applied[j] = <<>> /\ evidence[j] = <<>>
  <2>1. claims[j] = Absent
    BY DEF Land, Possible
  <2>2. applied[j] = <<>>
    BY <1>1, <2>1 DEF Guarded, LedgerInv
  <2>3. QED
    BY <1>1, <2>1, <2>2 DEF Guarded, LedgerInv
<1>3. applied'[j] = <<MoveOf(s)>> /\ \A i \in Jti : i # j => applied'[i] = applied[i]
  BY <1>1, <1>2, NotedFirst DEF Land, TypeOK
<1>4. claims'[j] # Absent /\ \A i \in Jti : i # j => claims'[i] = claims[i]
  <2>1. req[s].body.new # Absent
    BY RequestFacts DEF Protected, Busy
  <2>2. QED
    BY <1>1, <2>1 DEF Land, TypeOK
<1>5. ASSUME NEW o \in Session, o # s, pc[o] = "sign"
      PROVE  JtiOf(o) # j /\ JtiOf(o) \in Jti
  <2>1. applied[JtiOf(o)] = <<MoveOf(o)>> /\ JtiOf(o) \in Jti
    BY <1>5, RequestFacts DEF Guarded, SignerInv, Busy
  <2>2. <<MoveOf(o)>> # <<>>
    OBVIOUS
  <2>3. QED
    BY <1>2, <2>1, <2>2
<1>6. \A o \in Session : JtiOf(o)' = JtiOf(o) /\ MoveOf(o)' = MoveOf(o)
  BY DEF JtiOf, MoveOf, RefOf
<1>7. \A o \in Session : o # s => pc'[o] = pc[o]
  BY DEF TypeOK
<1>8. ASSUME NEW o \in Session PROVE SignerInv(o)'
  <2>1. CASE o = s
    BY <1>2, <1>3, <1>6, <2>1 DEF SignerInv
  <2>2. CASE o # s
    BY <1>3, <1>5, <1>6, <1>7, <2>2 DEF SignerInv, Guarded
  <2>3. QED
    BY <2>1, <2>2
<1>9. OneSigner'
  BY <1>5, <1>6, <1>7 DEF OneSigner, Guarded
<1>10. LedgerInv'
  BY <1>2, <1>3, <1>4 DEF LedgerInv, Guarded
<1>11. MarkersAreClaims'
  <2>1. ASSUME NEW r \in Ref, NEW i \in reflog'[r] PROVE i = j \/ i \in reflog[r]
    BY <1>1, <2>1, LogAfterFacts DEF Land, TypeOK
  <2>2. ASSUME NEW r \in Ref, NEW i \in reflog[r] PROVE i \in Jti /\ claims[i] # Absent
    BY <2>2 DEF TypeOK, Guarded, MarkersAreClaims
  <2>3. QED
    BY <1>4, <2>1, <2>2 DEF MarkersAreClaims
<1>12. OneUse'
  <2>1. Len(<<MoveOf(s)>>) = 1
    OBVIOUS
  <2>2. Len(applied'[j]) <= 1
    BY <1>3, <2>1
  <2>3. \A i \in Jti : Len(applied[i]) <= 1
    BY DEF OneUse, Guarded
  <2>4. \A i \in Jti : i # j => Len(applied'[i]) <= 1
    BY <1>3, <2>3
  <2>5. QED
    BY <2>2, <2>4 DEF OneUse
<1>13. RepliesTruthful'
  <2>1. ASSUME NEW o \in Session, reply[o] # None
        PROVE  reply[o].jti \in Jti
    BY <2>1 DEF TypeOK, Reply
  <2>2. QED
    BY <1>2, <1>3, <1>4, <2>1 DEF RepliesTruthful, Guarded
<1>14. QED
  BY <1>8, <1>9, <1>10, <1>11, <1>12, <1>13 DEF Guarded

(* Signing makes the evidence of a jti what its move was, and no other      *)
(* session was about to.                                                    *)
LEMMA SignStep ==
  ASSUME Protected, TypeOK, Busy, Guarded, NEW s \in Session, Sign(s)
  PROVE  Guarded'
<1> DEFINE j == JtiOf(s)
<1>1. j \in Jti /\ pc[s] = "sign"
  BY RequestFacts DEF Busy, Sign
<1>2. applied[j] = <<MoveOf(s)>> /\ evidence[j] = <<>>
  BY <1>1 DEF Guarded, SignerInv
<1>3. /\ evidence'[j] = applied[j] /\ applied[j] # <<>>
      /\ \A i \in Jti : i # j => evidence'[i] = evidence[i]
  BY <1>1, <1>2, NotedFirst DEF Sign, Signed, TypeOK
<1>4. UNCHANGED <<claims, reflog, hook, applied>>
  BY DEF Sign, gitVars
<1>5. /\ pc' = [pc EXCEPT ![s] = "idle"] /\ req' = [req EXCEPT ![s] = None]
      /\ reply' = [reply EXCEPT ![s] = [jti |-> j, status |-> "OK"]]
  BY DEF Sign, Answer
<1>6. ASSUME NEW o \in Session, pc'[o] = "sign"
      PROVE  /\ o # s /\ pc[o] = "sign" /\ JtiOf(o) \in Jti /\ JtiOf(o) # j
             /\ JtiOf(o)' = JtiOf(o) /\ MoveOf(o)' = MoveOf(o)
  <2>1. o # s /\ pc[o] = "sign" /\ req'[o] = req[o]
    BY <1>5, <1>6 DEF TypeOK
  <2>2. JtiOf(o) \in Jti
    BY <2>1, RequestFacts DEF Busy
  <2>3. QED
    BY <1>1, <2>1, <2>2 DEF Guarded, OneSigner, JtiOf, MoveOf, RefOf
<1>7. ASSUME NEW o \in Session PROVE SignerInv(o)'
  BY <1>3, <1>4, <1>6 DEF SignerInv, Guarded
<1>8. OneSigner'
  BY <1>6 DEF OneSigner, Guarded
<1>9. LedgerInv' /\ MarkersAreClaims' /\ OneUse'
  BY <1>3, <1>4 DEF LedgerInv, MarkersAreClaims, OneUse, Guarded
<1>10. RepliesTruthful'
  <2>1. SUFFICES ASSUME NEW o \in Session, reply'[o] # None
                 PROVE  /\ reply'[o].status = "OK" =>
                             /\ applied'[reply'[o].jti] # <<>>
                             /\ evidence'[reply'[o].jti] = applied'[reply'[o].jti]
                        /\ reply'[o].status = "GRANT_CONSUMED" => claims'[reply'[o].jti] # Absent
    BY DEF RepliesTruthful
  <2>2. CASE o = s
    <3>1. reply'[o].jti = j /\ reply'[o].status = "OK"
      BY <1>5, <2>2 DEF TypeOK
    <3>2. QED
      BY <1>3, <1>4, <3>1
  <2>3. CASE o # s
    <3>1. reply'[o] = reply[o] /\ reply[o].jti \in Jti
      BY <1>5, <2>1, <2>3 DEF TypeOK, Reply
    <3>2. QED
      BY <1>3, <1>4, <2>1, <3>1 DEF RepliesTruthful, Guarded
  <2>4. QED
    BY <2>2, <2>3
<1>11. QED
  BY <1>4, <1>7, <1>8, <1>9, <1>10 DEF Guarded

(* A push the hook lets through only adds claims.                           *)
LEMMA PushStep ==
  ASSUME Protected, TypeOK, Busy, Guarded, NEW p \in PushSet, Push(p)
  PROVE  Guarded'
<1>1. \A j \in Jti : claims[j] # Absent => claims'[j] = claims[j]
  BY DEF Push, HookRefuses, Guarded
<1>2. UNCHANGED <<hook, pc, req, reply, evidence, applied>>
  BY DEF Push
<1>3. \A r \in Ref : reflog'[r] \subseteq reflog[r]
  BY DEF Push
<1>4. \A r \in Ref : reflog[r] \subseteq Jti
  BY DEF TypeOK
<1>5. \A o \in Session : SignerInv(o)'
  BY <1>2 DEF SignerInv, Guarded, JtiOf, MoveOf, RefOf
<1>6. OneSigner' /\ OneUse'
  BY <1>2 DEF OneSigner, OneUse, Guarded, JtiOf
<1>7. LedgerInv'
  BY <1>1, <1>2 DEF LedgerInv, Guarded
<1>8. MarkersAreClaims'
  BY <1>1, <1>3, <1>4 DEF MarkersAreClaims, Guarded
<1>9. RepliesTruthful'
  <2>1. \A o \in Session : reply[o] # None => reply[o].jti \in Jti
    BY DEF TypeOK, Reply
  <2>2. QED
    BY <1>1, <1>2, <2>1 DEF RepliesTruthful, Guarded
<1>10. QED
  BY <1>2, <1>5, <1>6, <1>7, <1>8, <1>9 DEF Guarded

(* Every action keeps what the hook guards.                                 *)
LEMMA GuardedStep ==
  ASSUME Protected, TypeOK, Busy, Guarded, [Next]_vars
  PROVE  Guarded'
<1>1. ASSUME NEW s \in Session, NEW g \in Grant, NEW b \in Body, Receive(s, g, b)
      PROVE  Guarded'
  <2>1. g.jti \in Jti /\ UNCHANGED <<claims, reflog, hook, evidence, applied>>
    BY <1>1, GitConstants DEF GrantType, Receive, gitVars
  <2>2. CASE \E st \in {"DEPLOYMENT_MISMATCH", "STATE_CHALLENGE_UNKNOWN"} : Answer(s, g.jti, st)
    <3>1. PICK st \in {"DEPLOYMENT_MISMATCH", "STATE_CHALLENGE_UNKNOWN"} : Answer(s, g.jti, st)
      BY <2>2
    <3>2. Truthful([jti |-> g.jti, status |-> st])
      BY DEF Truthful
    <3>3. st \in Status
      BY DEF Status
    <3>4. QED
      BY <2>1, <3>1, <3>2, <3>3, AnswerQuiet, QuietStep DEF Guarded
  <2>3. CASE /\ pc'    = [pc EXCEPT ![s] = "replay"]
             /\ req'   = [req EXCEPT ![s] = [grant |-> g, body |-> b]]
             /\ reply' = [reply EXCEPT ![s] = None]
    <3>1. \A o \in Session : pc'[o] = "sign" => pc[o] = "sign" /\ req'[o] = req[o]
      BY <2>3 DEF TypeOK
    <3>2. \A o \in Session : reply'[o] # None => reply'[o] = reply[o]
      BY <2>3 DEF TypeOK
    <3>3. QED
      BY <2>1, <3>1, <3>2, QuietStep DEF Guarded
  <2>4. QED
    BY <1>1, <2>2, <2>3 DEF Receive
<1>2. ASSUME NEW s \in Session, CheckReplay(s)
      PROVE  Guarded'
  <2>1. JtiOf(s) \in Jti /\ RefOf(s) \in Ref
    BY <1>2, RequestFacts DEF CheckReplay, Busy
  <2>2. UNCHANGED <<claims, reflog, hook, evidence, applied>>
    BY <1>2 DEF CheckReplay, gitVars
  <2>3. CASE JtiOf(s) \in reflog[RefOf(s)] /\ Answer(s, JtiOf(s), "GRANT_CONSUMED")
    <3>1. claims[JtiOf(s)] # Absent
      BY <2>1, <2>3 DEF Guarded, MarkersAreClaims
    <3>2. Truthful([jti |-> JtiOf(s), status |-> "GRANT_CONSUMED"])
      BY <3>1 DEF Truthful
    <3>3. "GRANT_CONSUMED" \in Status
      BY DEF Status
    <3>4. QED
      BY <2>1, <2>2, <2>3, <3>2, <3>3, AnswerQuiet, QuietStep DEF Guarded
  <2>4. CASE pc' = [pc EXCEPT ![s] = "batch"] /\ UNCHANGED <<req, reply>>
    <3>1. \A o \in Session : pc'[o] = "sign" => pc[o] = "sign"
      BY <2>4 DEF TypeOK
    <3>2. QED
      BY <2>2, <2>4, <3>1, QuietStep DEF Guarded
  <2>5. QED
    BY <1>2, <2>3, <2>4 DEF CheckReplay, Readings
<1>3. ASSUME NEW s \in Session, RunBatch(s)
      PROVE  Guarded'
  <2>1. CASE Land(s) /\ \E next \in {"sign", "explain"} : pc' = [pc EXCEPT ![s] = next]
    BY <1>3, <2>1, LandStep DEF RunBatch
  <2>2. CASE pc' = [pc EXCEPT ![s] = "explain"] /\ UNCHANGED <<gitVars, applied>>
    <3>1. \A o \in Session : pc'[o] = "sign" => pc[o] = "sign"
      BY <2>2 DEF TypeOK
    <3>2. UNCHANGED <<claims, reflog, applied, evidence, hook, req, reply>>
      BY <1>3, <2>2 DEF RunBatch, gitVars
    <3>3. QED
      BY <3>1, <3>2, QuietStep DEF Guarded
  <2>3. QED
    BY <1>3, <2>1, <2>2 DEF RunBatch
<1>4. ASSUME NEW s \in Session, Explain(s)
      PROVE  Guarded'
  <2>1. JtiOf(s) \in Jti
    BY <1>4, RequestFacts DEF Explain, Busy
  <2>2. UNCHANGED <<claims, reflog, hook, evidence, applied>>
    BY <1>4 DEF Explain, gitVars
  <2>3. PICK ledgerNow \in ClaimReadings(s) :
          Answer(s, JtiOf(s), IF ledgerNow # Absent THEN "GRANT_CONSUMED" ELSE "STATE_DRIFT")
    BY <1>4 DEF Explain
  <2>4. ledgerNow # Absent => claims[JtiOf(s)] # Absent
    BY DEF ClaimReadings, Readings, Peeled
  <2>5. PICK st \in {"GRANT_CONSUMED", "STATE_DRIFT"} :
          Answer(s, JtiOf(s), st) /\ (st = "GRANT_CONSUMED" => claims[JtiOf(s)] # Absent)
    BY <2>3, <2>4
  <2>6. Truthful([jti |-> JtiOf(s), status |-> st]) /\ st \in Status
    BY <2>5 DEF Truthful, Status
  <2>7. QED
    BY <2>1, <2>2, <2>5, <2>6, AnswerQuiet, QuietStep DEF Guarded
<1>5. ASSUME NEW s \in Session, Crash(s)
      PROVE  Guarded'
  <2>1. \A o \in Session : pc'[o] = "sign" => pc[o] = "sign" /\ req'[o] = req[o]
    BY <1>5 DEF Crash, TypeOK
  <2>2. \A o \in Session : reply'[o] # None => reply'[o] = reply[o]
    BY <1>5 DEF Crash, TypeOK
  <2>3. UNCHANGED <<claims, reflog, hook, evidence, applied>>
    BY <1>5 DEF Crash, gitVars
  <2>4. QED
    BY <2>1, <2>2, <2>3, QuietStep DEF Guarded
<1>6. ASSUME NEW force \in BOOLEAN, InstallHook(force)
      PROVE  Guarded'
  BY <1>6, QuietStep DEF InstallHook, gitVars, Guarded
<1>7. ASSUME UNCHANGED vars
      PROVE  Guarded'
  BY <1>7, QuietStep DEF vars, gitVars, Guarded
<1>8. QED
  BY <1>1, <1>2, <1>3, <1>4, <1>5, <1>6, <1>7, SignStep, PushStep DEF Next, Step
-----------------------------------------------------------------------------
(* IInv is inductive, so every reachable state satisfies it.                *)
THEOREM Inductive == Spec => []IInv
<1>1. IInv /\ [Next]_vars => IInv'
  BY TypeStep, GuardedStep DEF IInv
<1>2. QED
  BY InitInv, <1>1, PTL DEF Spec

(* Type correctness of the repository's and the sidecars' state.            *)
THEOREM TypeCorrect == Spec => []TypeOK
<1>1. IInv => TypeOK
  BY DEF IInv
<1>2. QED
  BY Inductive, <1>1, PTL

(* Behind the hook a grant moves at most one ref once, for any number of    *)
(* sidecars, sessions and pushes and however git commands fail.             *)
THEOREM GrantsAreSingleUse == Spec => []OneUse
<1>1. IInv => OneUse
  BY DEF IInv, Guarded, OneUse
<1>2. QED
  BY Inductive, <1>1, PTL

(* OK and GRANT_CONSUMED are true when they are answered and stay true.     *)
THEOREM AnswersAreTrue == Spec => []RepliesTruthful
<1>1. IInv => RepliesTruthful
  BY DEF IInv, Guarded, RepliesTruthful
<1>2. QED
  BY Inductive, <1>1, PTL

(* From the moment the hook is there a claim stays as it is, and its grant  *)
(* moves nothing any more, wherever the repository started from.            *)
THEOREM ClaimsStay == Spec => ClaimsAreFinal
<1> DEFINE Final == \A j \in Jti : hook = "ours" /\ claims[j] # Absent =>
                      claims'[j] = claims[j] /\ applied'[j] = applied[j]
<1>1. ASSUME IInv, [Next]_vars PROVE Final
  <2>1. SUFFICES ASSUME NEW j \in Jti, hook = "ours", claims[j] # Absent
                 PROVE  claims'[j] = claims[j] /\ applied'[j] = applied[j]
    OBVIOUS
  <2>2. CASE UNCHANGED <<claims, applied>>
    BY <2>2
  <2>3. ASSUME NEW s \in Session, pc[s] = "batch", Land(s)
        PROVE  claims'[j] = claims[j] /\ applied'[j] = applied[j]
    <3>1. JtiOf(s) # j
      BY <2>1, <2>3 DEF Land, Possible
    <3>2. QED
      BY <2>3, <3>1 DEF Land, IInv, TypeOK
  <2>4. ASSUME NEW p \in PushSet, Push(p)
        PROVE  claims'[j] = claims[j] /\ applied'[j] = applied[j]
    BY <2>1, <2>4 DEF Push, HookRefuses
  <2>5. QED
    BY <1>1, <2>2, <2>3, <2>4
       DEF Next, Step, Receive, CheckReplay, RunBatch, Explain, Sign, Crash, InstallHook,
           vars, gitVars
<1>2. IInv /\ [Next]_vars => [Final]_vars
  BY <1>1
<1>3. QED
  BY Inductive, <1>2, PTL DEF Spec, ClaimsAreFinal
-----------------------------------------------------------------------------
(* Every request moves its ref to a commit, which is what readRef can read. *)
MovesToCommits == \A b \in Body : b.new \in Commit

(* A session that runs commands has not answered yet, and the claim of a    *)
(* grant that moved something is a commit.                                  *)
Unanswered == \A s \in Session : pc[s] # "idle" => reply[s] = None

ClaimsAreCommits == \A j \in Jti : applied[j] # <<>> => claims[j] \in Commit

DriftInv == IInv /\ Unanswered /\ ClaimsAreCommits

(* A session answers and turns idle in one step.                            *)
LEMMA UnansweredStep ==
  ASSUME TypeOK, Unanswered, [Next]_vars
  PROVE  Unanswered'
<1>1. CASE UNCHANGED <<pc, reply>>
  BY <1>1 DEF Unanswered
<1>2. ASSUME NEW s \in Session, pc'[s] = "idle" \/ reply'[s] = None,
             \A o \in Session \ {s} : pc'[o] = pc[o] /\ reply'[o] = reply[o]
      PROVE  Unanswered'
  BY <1>2 DEF Unanswered
<1>3. ASSUME NEW s \in Session, NEW j, NEW st, Answer(s, j, st)
      PROVE  Unanswered'
  BY <1>2, <1>3 DEF Answer, TypeOK
<1>4. ASSUME NEW s \in Session, NEW g \in Grant, NEW b \in Body, Receive(s, g, b)
      PROVE  Unanswered'
  BY <1>2, <1>3, <1>4 DEF Receive, TypeOK
<1>5. ASSUME NEW s \in Session, pc[s] # "idle", NEW next, pc' = [pc EXCEPT ![s] = next],
             UNCHANGED reply
      PROVE  Unanswered'
  BY <1>2, <1>5 DEF Unanswered, TypeOK
<1>6. ASSUME NEW s \in Session, Step(s)
      PROVE  Unanswered'
  <2>1. CASE CheckReplay(s)
    BY <1>3, <1>5, <2>1 DEF CheckReplay
  <2>2. CASE RunBatch(s)
    BY <1>5, <2>2 DEF RunBatch
  <2>3. CASE Explain(s)
    BY <1>3, <2>3 DEF Explain
  <2>4. CASE Sign(s)
    BY <1>3, <2>4 DEF Sign
  <2>5. CASE Crash(s)
    BY <1>2, <2>5 DEF Crash, TypeOK
  <2>6. QED
    BY <1>6, <2>1, <2>2, <2>3, <2>4, <2>5 DEF Step
<1>7. QED
  BY <1>1, <1>4, <1>6 DEF Next, Push, InstallHook, vars

(* Behind the hook only a batch that lands moves a ref with a grant, and    *)
(* its claim is the commit it moved to.                                     *)
LEMMA ClaimsAreCommitsStep ==
  ASSUME Protected, MovesToCommits, IInv, ClaimsAreCommits, [Next]_vars
  PROVE  ClaimsAreCommits'
<1>1. TypeOK /\ Busy /\ hook = "ours" /\ LedgerInv
  BY DEF IInv, Guarded
<1>2. CASE UNCHANGED <<claims, applied>>
  BY <1>2 DEF ClaimsAreCommits
<1>3. ASSUME NEW s \in Session, pc[s] = "batch", Land(s)
      PROVE  ClaimsAreCommits'
  <2>1. JtiOf(s) \in Jti /\ req[s].body \in Body
    BY <1>1, <1>3, RequestFacts DEF Busy
  <2>2. claims'[JtiOf(s)] \in Commit
    BY <1>1, <1>3, <2>1 DEF Land, TypeOK, MovesToCommits
  <2>3. \A j \in Jti : j # JtiOf(s) => claims'[j] = claims[j] /\ applied'[j] = applied[j]
    BY <1>1, <1>3 DEF Land, TypeOK
  <2>4. QED
    BY <2>2, <2>3 DEF ClaimsAreCommits
<1>4. ASSUME NEW p \in PushSet, Push(p)
      PROVE  ClaimsAreCommits'
  <2>1. \A j \in Jti : claims[j] # Absent => claims'[j] = claims[j]
    BY <1>1, <1>4 DEF Push, HookRefuses
  <2>2. \A j \in Jti : applied[j] # <<>> => claims[j] # Absent
    BY <1>1 DEF LedgerInv
  <2>3. UNCHANGED applied
    BY <1>4 DEF Push
  <2>4. QED
    BY <2>1, <2>2, <2>3 DEF ClaimsAreCommits
<1>5. QED
  BY <1>2, <1>3, <1>4
     DEF Next, Step, Receive, CheckReplay, RunBatch, Explain, Sign, Crash, InstallHook,
         vars, gitVars

(* STATE_DRIFT with grant_spent: false is true when it is answered, if the  *)
(* repository is behind the hook, requests move refs to commits, and the    *)
(* ledger read that tells the two refusals apart does not fail.             *)
THEOREM DriftIsUnspent ==
  ASSUME Protected, MovesToCommits, ReadsFail = FALSE
  PROVE  Spec => DriftMeansUnspent
<1> DEFINE Told == \A s \in Session :
              pc[s] = "explain" /\ reply'[s] # None /\ reply'[s].status = "STATE_DRIFT"
                => applied[JtiOf(s)] = <<>>
<1>1. Init => DriftInv
  BY InitInv DEF Init, DriftInv, Unanswered, ClaimsAreCommits
<1>2. DriftInv /\ [Next]_vars => DriftInv'
  <2>1. IInv /\ [Next]_vars => IInv'
    BY TypeStep, GuardedStep DEF IInv
  <2>2. QED
    BY <2>1, UnansweredStep, ClaimsAreCommitsStep DEF DriftInv, IInv
<1>3. ASSUME DriftInv, [Next]_vars PROVE Told
  <2>1. SUFFICES ASSUME NEW s \in Session, pc[s] = "explain", reply'[s] # None,
                        reply'[s].status = "STATE_DRIFT"
                 PROVE  applied[JtiOf(s)] = <<>>
    OBVIOUS
  <2>2. TypeOK /\ Busy /\ ClaimsAreCommits /\ reply[s] = None
    BY <1>3, <2>1 DEF DriftInv, IInv, Unanswered
  <2>3. JtiOf(s) \in Jti
    BY <2>1, <2>2, RequestFacts DEF Busy
  <2>4. Explain(s)
    <3>1. ASSUME NEW o \in Session, NEW j, NEW st, Answer(o, j, st) PROVE o = s
      BY <2>1, <2>2, <3>1 DEF Answer, TypeOK
    <3>2. ASSUME NEW o \in Session, reply' = [reply EXCEPT ![o] = None] PROVE FALSE
      BY <2>1, <2>2, <3>2 DEF TypeOK
    <3>3. reply' # reply
      BY <2>1, <2>2
    <3>4. ASSUME NEW o \in Session, NEW g \in Grant, NEW b \in Body, Receive(o, g, b)
          PROVE  FALSE
      BY <2>1, <3>1, <3>2, <3>4 DEF Receive
    <3>5. PICK o \in Session : Step(o)
      BY <1>3, <3>3, <3>4 DEF Next, Push, InstallHook, vars
    <3>6. ~Crash(o) /\ ~RunBatch(o)
      BY <3>2, <3>3 DEF Crash, RunBatch
    <3>7. ~CheckReplay(o) /\ ~Sign(o)
      BY <2>1, <3>1, <3>3 DEF CheckReplay, Sign
    <3>8. Explain(o)
      BY <3>5, <3>6, <3>7 DEF Step
    <3>9. QED
      BY <3>1, <3>8 DEF Explain
  <2>5. PICK ledgerNow \in ClaimReadings(s) :
          Answer(s, JtiOf(s), IF ledgerNow # Absent THEN "GRANT_CONSUMED" ELSE "STATE_DRIFT")
    BY <2>4 DEF Explain
  <2>6. ledgerNow = Peeled(claims[JtiOf(s)])
    BY DEF ClaimReadings, Readings
  <2>7. ledgerNow = Absent
    BY <2>1, <2>2, <2>5 DEF Answer, TypeOK
  <2>8. claims[JtiOf(s)] \notin Commit
    BY <2>6, <2>7, NoneFacts DEF Peeled, Object
  <2>9. QED
    BY <2>2, <2>3, <2>8 DEF ClaimsAreCommits
<1>4. DriftInv /\ [Next]_vars => [Told]_vars
  BY <1>3
<1>5. QED
  BY <1>1, <1>2, <1>4, PTL DEF Spec, DriftMeansUnspent
-----------------------------------------------------------------------------
(* Each step is a step of the abstract ledger, or leaves what it shows      *)
(* alone: the batch executes, and signing attests what was executed.        *)
LEMMA StepPromised ==
  ASSUME Protected, TypeOK, Busy, Guarded, [Next]_vars
  PROVE  [Promise!Next]_(Promise!vars)
<1>1. CASE UNCHANGED <<applied, evidence>>
  BY <1>1 DEF Promise!vars
<1>2. ASSUME NEW s \in Session, RunBatch(s), Land(s)
      PROVE  Promise!Next
  <2>1. JtiOf(s) \in Jti /\ MoveOf(s) \in Move
    BY <1>2, RequestFacts DEF Busy, RunBatch
  <2>2. PICK j \in Jti, e \in Move : j = JtiOf(s) /\ e = MoveOf(s)
    BY <2>1
  <2>3. applied[j] = <<>>
    BY <1>2, <2>2 DEF Land, Possible, Guarded, LedgerInv
  <2>4. applied' = [applied EXCEPT ![j] = <<e>>]
    BY <1>2, <2>2, <2>3, NotedFirst DEF Land, TypeOK
  <2>5. Promise!Execute(j, e)
    BY <1>2, <2>3, <2>4 DEF RunBatch, Promise!Execute
  <2>6. QED
    BY <2>5 DEF Promise!Next
<1>3. ASSUME NEW s \in Session, Sign(s)
      PROVE  Promise!Next
  <2>1. JtiOf(s) \in Jti
    BY <1>3, RequestFacts DEF Busy, Sign
  <2>2. PICK j \in Jti : j = JtiOf(s)
    BY <2>1
  <2>3. applied[j] = <<MoveOf(s)>> /\ evidence[j] = <<>>
    BY <1>3, <2>2 DEF Guarded, SignerInv, Sign
  <2>4. evidence' = [evidence EXCEPT ![j] = applied[j]]
    BY <1>3, <2>2, <2>3, NotedFirst DEF Sign, Signed, TypeOK
  <2>5. Promise!Attest(j)
    BY <1>3, <2>3, <2>4 DEF Sign, Promise!Attest
  <2>6. QED
    BY <2>5 DEF Promise!Next
<1>4. QED
  BY <1>1, <1>2, <1>3
     DEF Next, Step, Receive, CheckReplay, RunBatch, Explain, Crash, Push, InstallHook,
         vars, gitVars

(* Behind the hook the git executor implements OneUseLedger in its weaker   *)
(* form: evidence speaks only of a move that happened, once, but may come   *)
(* after it or never.                                                       *)
THEOREM ExecutorKeepsPromise ==
  ASSUME Protected
  PROVE  Spec => ImplementsOneUseLedger
<1>1. Init => Promise!Init
  BY DEF Init, Promise!Init
<1>2. IInv /\ [Next]_vars => [Promise!Next]_(Promise!vars)
  BY StepPromised DEF IInv
<1>3. QED
  BY <1>1, Inductive, <1>2, PTL DEF Spec, ImplementsOneUseLedger, Promise!Spec
-----------------------------------------------------------------------------

(* What an audit holds, and what its history still says of the repository.  *)
AuditType ==
  /\ audit.stage \in {"idle", "list", "read"}
  /\ audit.moves \subseteq Ref \X Jti
  /\ audit.marked \subseteq Ref \X Jti
  /\ audit.spent \subseteq Jti
  /\ audit.have \subseteq Jti
  /\ audit.stage = "list" => audit.todo = Ref

SpentIsClaimed ==
  /\ \A j \in audit.spent : claims[j] # Absent
  /\ \A m \in audit.marked : claims[m[2]] # Absent
  /\ audit.stage = "read" => audit.spent \subseteq audit.have

\* A marker that was there throughout has been read once its ref has.
MarkersSeen ==
  audit.stage = "read" =>
    \A m \in audit.marked \cap Marked : m[1] \notin audit.todo => m \in audit.moves

(* A listed claim stays, so its marker, if a ref that was read bears it, was *)
(* there when the ref was read.                                             *)
ListedIsRead ==
  /\ \A j \in audit.have : claims[j] # Absent
  /\ audit.stage = "read" =>
       \A m \in Marked : m[2] \in audit.have /\ m[1] \notin audit.todo => m \in audit.moves

AuditInv == AuditType /\ SpentIsClaimed /\ MarkersSeen /\ ListedIsRead

(* A step of the repository while an audit runs is a step of GitAtomic, and *)
(* a step of the audit leaves the repository alone.                         *)
LEMMA AuditedStep ==
  ASSUME [NextAudit]_auditVars
  PROVE  ([Next]_vars /\ UNCHANGED audit) \/ (Audit /\ UNCHANGED vars)
BY DEF NextAudit, auditVars

(* An executor that is audited is still the executor.                       *)
LEMMA AuditLooksOn == SpecAudit => Spec
<1>1. InitAudit => Init
  BY DEF InitAudit
<1>2. [NextAudit]_auditVars => [Next]_vars
  BY AuditedStep
<1>3. QED
  BY <1>1, <1>2, PTL DEF SpecAudit, Spec

(* So the invariant of the executor holds whoever reads along,              *)
LEMMA InductiveAudit == SpecAudit => []IInv
BY AuditLooksOn, Inductive, PTL

(* and what STATE_DRIFT says of the grant is true whoever reads along.      *)
THEOREM DriftIsUnspentUnderAudit ==
  ASSUME Protected, MovesToCommits, ReadsFail = FALSE
  PROVE  SpecAudit => DriftMeansUnspent
BY AuditLooksOn, DriftIsUnspent, PTL

(* Behind the hook a claim stays, and a marker appears only with its claim. *)
LEMMA Lasting ==
  ASSUME Protected, IInv, [Next]_vars
  PROVE  /\ \A j \in Jti : claims[j] # Absent => claims'[j] # Absent
         /\ \A m \in Marked' : m \in Marked \/ claims[m[2]] = Absent
<1>1. hook = "ours" /\ TypeOK /\ Busy
  BY DEF IInv, Guarded
<1>2. CASE UNCHANGED <<claims, reflog>>
  BY <1>2 DEF Marked
<1>3. ASSUME NEW s \in Session, pc[s] = "batch", Land(s)
      PROVE  /\ \A j \in Jti : claims[j] # Absent => claims'[j] # Absent
             /\ \A m \in Marked' : m \in Marked \/ claims[m[2]] = Absent
  <2>1. JtiOf(s) \in Jti /\ RefOf(s) \in Ref /\ claims[JtiOf(s)] = Absent
    BY <1>1, <1>3, RequestFacts DEF Busy, Land, Possible
  <2>2. \A j \in Jti : claims[j] # Absent => claims'[j] # Absent
    BY <1>1, <1>3, <2>1 DEF Land, TypeOK
  <2>3. \A r \in Ref : reflog'[r] \subseteq reflog[r] \cup {JtiOf(s)}
    BY <1>1, <1>3, <2>1, LogAfterFacts DEF Land, TypeOK
  <2>4. QED
    BY <2>1, <2>2, <2>3 DEF Marked
<1>4. ASSUME NEW p \in PushSet, Push(p)
      PROVE  /\ \A j \in Jti : claims[j] # Absent => claims'[j] # Absent
             /\ \A m \in Marked' : m \in Marked \/ claims[m[2]] = Absent
  <2>1. \A j \in Jti : claims[j] # Absent => claims'[j] # Absent
    BY <1>1, <1>4 DEF Push, HookRefuses
  <2>2. \A r \in Ref : reflog'[r] \subseteq reflog[r]
    BY <1>4 DEF Push
  <2>3. QED
    BY <2>1, <2>2 DEF Marked
<1>5. QED
  BY <1>2, <1>3, <1>4
     DEF Next, Step, Receive, CheckReplay, RunBatch, Explain, Sign, Crash, InstallHook,
         vars, gitVars

(* What the audit has read stays good while requests and pushes go on.      *)
LEMMA RepositoryStep ==
  ASSUME Protected, IInv, AuditInv, [Next]_vars, UNCHANGED audit
  PROVE  AuditInv'
<1>1. AuditType'
  BY DEF AuditInv, AuditType
<1>2. SpentIsClaimed'
  <2>1. \A m \in audit.marked : m[2] \in Jti
    BY DEF AuditInv, AuditType
  <2>2. \A j \in audit.spent : j \in Jti
    BY DEF AuditInv, AuditType
  <2>3. QED
    BY <2>1, <2>2, Lasting DEF AuditInv, SpentIsClaimed
<1>3. MarkersSeen'
  <2>1. \A m \in audit.marked \cap Marked' : m \in Marked
    BY Lasting DEF AuditInv, SpentIsClaimed
  <2>2. QED
    BY <2>1 DEF AuditInv, MarkersSeen
<1>4. ListedIsRead'
  <2>1. \A j \in audit.have : j \in Jti
    BY DEF AuditInv, AuditType
  <2>2. \A m \in Marked' : m[2] \in audit.have => m \in Marked
    BY Lasting DEF AuditInv, ListedIsRead
  <2>3. QED
    BY <2>1, <2>2, Lasting DEF AuditInv, ListedIsRead
<1>5. QED
  BY <1>1, <1>2, <1>3, <1>4 DEF AuditInv

(* Each step of the audit keeps what it holds, when commands can read.      *)
LEMMA AuditStep ==
  ASSUME Protected, ReadsFail = FALSE, IInv, AuditInv, Audit, UNCHANGED vars
  PROVE  AuditInv'
<1>1. UNCHANGED <<claims, reflog>>
  BY DEF vars, gitVars
<1>2. TypeOK /\ Guarded
  BY DEF IInv
<1>3. ASSUME NEW dep \in Deployment, NEW given \in SUBSET Jti, Begin(dep, given)
      PROVE  AuditInv'
  <2>1. /\ audit'.stage = "list" /\ audit'.todo = Ref /\ audit'.moves = {} /\ audit'.have = {}
        /\ audit'.spent = {j \in Jti : applied[j] # <<>>} /\ audit'.marked = Marked
    BY <1>3 DEF Begin, NothingRead
  <2>2. \A j \in Jti : applied[j] # <<>> => claims[j] # Absent
    BY <1>2 DEF Guarded, LedgerInv
  <2>3. \A m \in Marked : m \in Ref \X Jti /\ claims[m[2]] # Absent
    BY <1>2 DEF Guarded, MarkersAreClaims, Marked
  <2>4. QED
    BY <1>1, <2>1, <2>2, <2>3 DEF AuditInv, AuditType, SpentIsClaimed, MarkersSeen, ListedIsRead
<1>4. ASSUME ListLedger
      PROVE  AuditInv'
  <2>1. audit' = [audit EXCEPT !.stage = "read", !.have = {j \in Jti : claims[j] # Absent}]
    BY <1>4 DEF ListLedger, Readings
  <2>2. audit.stage = "list"
    BY <1>4 DEF ListLedger
  <2>3. /\ audit'.stage = "read" /\ audit'.have = {j \in Jti : claims[j] # Absent}
        /\ audit'.todo = Ref
        /\ UNCHANGED <<audit.moves, audit.spent, audit.marked>>
    BY <2>1, <2>2 DEF AuditInv, AuditType
  <2>4. AuditType' /\ SpentIsClaimed'
    BY <1>1, <2>3 DEF AuditInv, AuditType, SpentIsClaimed
  <2>5. \A m \in audit'.marked : m[1] \in audit'.todo
    BY <2>3 DEF AuditInv, AuditType
  <2>6. ListedIsRead'
    <3>1. \A m \in Marked' : m[1] \in Ref
      BY DEF Marked
    <3>2. QED
      BY <1>1, <2>3, <3>1 DEF ListedIsRead
  <2>7. QED
    BY <2>4, <2>5, <2>6 DEF AuditInv, MarkersSeen
<1>5. ASSUME NEW r \in Ref, ReadMarkers(r)
      PROVE  AuditInv'
  <2>1. audit' = [audit EXCEPT !.todo = @ \ {r}, !.moves = @ \cup ({r} \X reflog[r])]
    BY <1>5 DEF ReadMarkers, Readings
  <2>2. audit.stage = "read"
    BY <1>5 DEF ReadMarkers
  <2>3. /\ audit'.todo = audit.todo \ {r} /\ audit'.moves = audit.moves \cup ({r} \X reflog[r])
        /\ UNCHANGED <<audit.stage, audit.have, audit.spent, audit.marked>>
    BY <2>1
  <2>4. reflog[r] \subseteq Jti
    BY <1>2 DEF TypeOK
  <2>5. AuditType' /\ SpentIsClaimed'
    BY <1>1, <2>2, <2>3, <2>4 DEF AuditInv, AuditType, SpentIsClaimed
  <2>6. \A m \in Marked : m[1] = r => m \in {r} \X reflog[r]
    BY DEF Marked
  <2>7. Marked' = Marked
    BY <1>1 DEF Marked
  <2>8. MarkersSeen'
    BY <2>2, <2>3, <2>6, <2>7 DEF AuditInv, MarkersSeen
  <2>9. ListedIsRead'
    BY <1>1, <2>2, <2>3, <2>6, <2>7 DEF AuditInv, ListedIsRead
  <2>10. QED
    BY <2>5, <2>8, <2>9 DEF AuditInv
<1>6. ASSUME Finish
      PROVE  AuditInv'
  BY <1>6 DEF Finish, NothingRead, AuditInv, AuditType, SpentIsClaimed, MarkersSeen, ListedIsRead
<1>7. QED
  BY <1>3, <1>4, <1>5, <1>6 DEF Audit

(* The audit's invariant holds of every reconciliation.                     *)
LEMMA AuditInductive ==
  ASSUME Protected, ReadsFail = FALSE
  PROVE  SpecAudit => []AuditInv
<1>1. InitAudit => AuditInv
  BY DEF InitAudit, NothingRead, AuditInv, AuditType, SpentIsClaimed, MarkersSeen, ListedIsRead
<1>2. IInv /\ AuditInv /\ [NextAudit]_auditVars => AuditInv'
  BY AuditedStep, RepositoryStep, AuditStep
<1>3. QED
  BY <1>1, InductiveAudit, <1>2, PTL DEF SpecAudit
-----------------------------------------------------------------------------
(* Every grant that was spent when an operator asked is in the report, even *)
(* when its ref keeps no reflog or was deleted since.                       *)
THEOREM UsesAreAccounted ==
  ASSUME Protected, ReadsFail = FALSE
  PROVE  SpecAudit => []EveryUseIsAccounted
<1>1. AuditInv => EveryUseIsAccounted
  BY DEF AuditInv, SpentIsClaimed, EveryUseIsAccounted, Done, LedgerWithoutMove
<1>2. QED
  BY AuditInductive, <1>1, PTL

(* A move is confirmed only if it happened, on that ref, under that         *)
(* deployment, and as its attestation says.                                 *)
THEOREM ConfirmationsAreProven ==
  ASSUME Protected, ReadsFail = FALSE
  PROVE  SpecAudit => []ConfirmedIsProven
<1>1. IInv /\ AuditInv => ConfirmedIsProven
  <2>1. SUFFICES ASSUME IInv, AuditInv, NEW m \in audit.moves, MoveOutcome(m) = "CONFIRMED"
                 PROVE  /\ applied[m[2]] # <<>> /\ evidence[m[2]] = applied[m[2]]
                        /\ applied[m[2]][1].ref = m[1] /\ applied[m[2]][1].dep = audit.dep
    BY DEF ConfirmedIsProven
  <2>2. m[2] \in Jti
    BY <2>1 DEF AuditInv, AuditType
  <2>3. PICK i \in DOMAIN evidence[m[2]] :
          evidence[m[2]][i].dep = audit.dep /\ evidence[m[2]][i].ref = m[1]
    BY <2>1 DEF MoveOutcome, Verifies
  <2>4. evidence[m[2]] \in Seq(Move) /\ applied[m[2]] \in Seq(Move)
    BY <2>1, <2>2 DEF IInv, TypeOK
  <2>5. evidence[m[2]] # <<>>
    BY <2>3, <2>4
  <2>6. evidence[m[2]] = applied[m[2]] /\ Len(applied[m[2]]) <= 1
    BY <2>1, <2>2, <2>5 DEF IInv, Guarded, LedgerInv, OneUse
  <2>7. i = 1
    BY <2>3, <2>4, <2>6
  <2>8. QED
    BY <2>3, <2>5, <2>6, <2>7
<1>2. QED
  BY InductiveAudit, AuditInductive, <1>1, PTL

(* No ref of the report bears the marker of a claim called RELEASED.        *)
THEOREM ReleasedClaimsAreUnmarked ==
  ASSUME Protected, ReadsFail = FALSE
  PROVE  SpecAudit => []ReleasedIsUnmarked
<1>1. AuditInv => ReleasedIsUnmarked
  <2>1. SUFFICES ASSUME AuditInv, Done, NEW j \in LedgerWithoutMove, NEW r \in Ref, j \in reflog[r]
                 PROVE  FALSE
    BY DEF ReleasedIsUnmarked
  <2>2. j \in audit.have /\ j \in Jti
    BY <2>1 DEF LedgerWithoutMove, AuditInv, AuditType
  <2>3. <<r, j>> \in Marked
    BY <2>1, <2>2 DEF Marked
  <2>4. <<r, j>> \in audit.moves
    BY <2>1, <2>2, <2>3 DEF Done, AuditInv, ListedIsRead
  <2>5. QED
    BY <2>1, <2>4 DEF LedgerWithoutMove
<1>2. QED
  BY AuditInductive, <1>1, PTL

(* A move whose marker was there throughout, and for which no attestation   *)
(* was given, makes the report INDETERMINATE.                               *)
THEOREM UnprovenIsReported ==
  ASSUME Protected, ReadsFail = FALSE
  PROVE  SpecAudit => []UnprovenIsIndeterminate
<1>1. AuditInv => UnprovenIsIndeterminate
  <2>1. SUFFICES ASSUME AuditInv, Done, NEW m \in audit.marked \cap Marked,
                        m[2] \notin audit.given
                 PROVE  Outcome = "INDETERMINATE"
    BY DEF UnprovenIsIndeterminate
  <2>2. m \in audit.moves
    BY <2>1 DEF Done, AuditInv, MarkersSeen
  <2>3. QED
    BY <2>1, <2>2 DEF Outcome, Unattested
<1>2. QED
  BY AuditInductive, <1>1, PTL
=============================================================================
