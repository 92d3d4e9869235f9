---------------------------- MODULE GuardProofs ----------------------------
(***************************************************************************)
(* For every set of grants, key files and requests, and every leeway: the  *)
(* guard admits exactly the authorized, its remedies fit, and no grant is  *)
(* replayed after a reclaim; with the invariants these rest on.            *)
(***************************************************************************)
EXTENDS Guard, NaturalsInduction, WellFoundedInduction, TLAPS

\* A refusal is one, whatever its reason.
LEMMA RefusalFails ==
  ASSUME NEW checks
  PROVE  Refusal(checks).fails
BY Zenon DEF Refusal, Check

(* A grant that passes is signed by the key its kid names in the ring, and  *)
(* has an expiry that is not past for the verifier (verify-grant.js         *)
(* 280-319).                                                                *)
LEMMA PassedIsSigned ==
  ASSUME NEW rg, NEW t, NEW rq, NEW now,
         ~Verdict(rg, t, rq, now).fails
  PROVE  /\ PinnedKey(rg, t).key # None
         /\ t.signer = PinnedKey(rg, t).key
         /\ TimesParse(t)
         /\ ~Expired(t, now)
<1>1. Failing(AuthenticityChecks(rg, t, now)) = {}
  BY RefusalFails, Zenon DEF Verdict
<1>2. \A i \in DOMAIN AuthenticityChecks(rg, t, now) : ~AuthenticityChecks(rg, t, now)[i].fails
  BY <1>1, Zenon DEF Failing
<1>3. /\ PinnedKey(rg, t).key # None
      /\ ~(t.signer # PinnedKey(rg, t).key)
      /\ TimesParse(t)
      /\ ~(TimesParse(t) /\ Expired(t, now))
  <2>1. 3 \in DOMAIN AuthenticityChecks(rg, t, now) /\ 5 \in DOMAIN AuthenticityChecks(rg, t, now)
        /\ 6 \in DOMAIN AuthenticityChecks(rg, t, now) /\ 7 \in DOMAIN AuthenticityChecks(rg, t, now)
    BY DEF AuthenticityChecks
  <2>2. ~AuthenticityChecks(rg, t, now)[3].fails /\ ~AuthenticityChecks(rg, t, now)[5].fails
        /\ ~AuthenticityChecks(rg, t, now)[6].fails /\ ~AuthenticityChecks(rg, t, now)[7].fails
    BY <1>2, <2>1
  <2> QED BY <2>2 DEF AuthenticityChecks, Check
<1> QED BY <1>3

\* Whatever kid a token claims, the ring answers with a key of the file.
LEMMA KeyringKeys ==
  ASSUME NEW f \in File, NEW t
  PROVE  PinnedKey(Keyring(f), t).key \in Key \cup {None}
<1>1. CASE t.kid \notin DOMAIN Keyring(f)
  BY <1>1 DEF PinnedKey, NoKey
<1>2. CASE t.kid \in DOMAIN Keyring(f)
  <2> DEFINE last == CHOOSE i \in Latest(f) : f[i].kid = t.kid
  <2>1. \E i \in Latest(f) : f[i].kid = t.kid
    BY <1>2, Zenon DEF Keyring
  <2>2. last \in Latest(f)
    BY <2>1, Zenon
  <2>3. Keyring(f)[t.kid] = f[last]
    BY <1>2, Zenon DEF Keyring
  <2>4. f[last].key \in Key \cup {None}
    BY <2>2, GuardAssumption, Zenon DEF Latest
  <2> QED BY <1>2, <2>3, <2>4, Zenon DEF PinnedKey
<1> QED BY <1>1, <1>2

(* What executionGrantGuard admits is a grant of Token, signed by a key,    *)
(* that has not expired for a clock that lags by lag (index.js 204-279).    *)
LEMMA AdmittedIsSigned ==
  ASSUME TypeOK, ring # None, NEW rq \in Request, NEW now \in Int,
         GuardAnswer(ring, rq, now).admitted
  PROVE  /\ rq.token \in Token /\ rq.token.signer # Forged
         /\ rq.token.exp \in Int /\ rq.token.exp + Leeway >= now
<1>1. rq.token # None /\ ~Verdict(ring, rq.token, rq, now).fails
  BY Zenon DEF GuardAnswer, Answer, Check
<1>2. rq.token \in Token
  BY <1>1, GuardAssumption
<1>3. /\ PinnedKey(ring, rq.token).key # None
      /\ rq.token.signer = PinnedKey(ring, rq.token).key
      /\ TimesParse(rq.token) /\ ~Expired(rq.token, now)
  BY <1>1, PassedIsSigned, Zenon
<1>4. PinnedKey(ring, rq.token).key \in Key \cup {None}
  BY KeyringKeys, Zenon DEF TypeOK
<1>5. rq.token.signer # Forged
  BY <1>3, <1>4, GuardAssumption
<1>6. rq.token.exp \in Int
  BY <1>2, <1>3, GuardAssumption DEF TimesParse
<1>7. rq.token.exp + Leeway >= now
  BY <1>3, <1>6, GuardAssumption DEF Expired
<1> QED BY <1>2, <1>5, <1>6, <1>7

\* The leeway of a cleanup covers what the verifier may be lenient by.
LEMMA LeewayCovers == ReclaimLeeway \in Nat /\ ReclaimLeeway >= Leeway + Lag
BY GuardAssumption DEF ReclaimLeeway

\* A sidecar starts with nothing executed and nothing in flight.
LEMMA InitIInv == Init => IInv
<1> SUFFICES ASSUME Init PROVE IInv
  OBVIOUS
<1>1. TypeOK
  BY DEF Init, TypeOK
<1>2. /\ \A s \in Session : inflight[s] = None
      /\ \A j \in Jti : ledger[j] = None /\ executed[j] = 0
  BY DEF Init
<1>3. InflightIsSigned /\ LedgerCarriesExp /\ GoneIsPast /\ GoneInflightStraddled
      /\ NoReplayAfterReclaim
  BY <1>2 DEF InflightIsSigned, LedgerCarriesExp, GoneIsPast, Gone, GoneInflightStraddled,
              NoReplayAfterReclaim
<1> QED BY <1>1, <1>3 DEF IInv

(* An admitted grant is not among the reclaimed ones: a clock that lags by  *)
(* lag and a leeway do not bring it back (index.js 204-279, git-atomic.js   *)
(* 239-261).                                                                *)
LEMMA PresentIInv ==
  ASSUME IInv, NEW s \in Session, NEW rq \in Request, NEW lag \in 0..Lag, Present(s, rq, lag)
  PROVE  IInv'
<1> USE DEF IInv
<1> DEFINE t == rq.token
<1>1. /\ UNCHANGED <<clock, file, loaded, ring, ledger, executed, straddled>>
      /\ ring # None
      /\ \/ inflight' = inflight
         \/ /\ GuardAnswer(ring, rq, clock - lag).admitted
            /\ inflight' = [inflight EXCEPT ![s] = t]
  BY Zenon DEF Present
<1>2. CASE inflight' = inflight
  BY <1>1, <1>2 DEF TypeOK, InflightIsSigned, LedgerCarriesExp, GoneIsPast, Gone,
     GoneInflightStraddled, NoReplayAfterReclaim
<1>3. CASE /\ GuardAnswer(ring, rq, clock - lag).admitted
           /\ inflight' = [inflight EXCEPT ![s] = t]
  <2>1. clock - lag \in Int /\ clock \in Nat /\ lag \in Nat /\ lag <= Lag /\ Lag \in Nat /\ Leeway \in Nat
    BY GuardAssumption DEF TypeOK
  <2>2. t \in Token /\ t.signer # Forged /\ t.exp \in Int /\ t.exp + Leeway >= clock - lag
    BY <1>1, <1>3, <2>1, AdmittedIsSigned
  <2>3. t.jti \in Jti
    BY <2>2, GuardAssumption
  <2>4. ~Gone(t.jti)
    BY <2>1, <2>2, <2>3 DEF GoneIsPast
  <2>5. TypeOK'
    BY <1>1, <1>3, <2>2 DEF TypeOK
  <2>6. \A o \in Session : inflight'[o] = IF o = s THEN t ELSE inflight[o]
    BY <1>3 DEF TypeOK
  <2>7. InflightIsSigned'
    BY <2>2, <2>6 DEF InflightIsSigned
  <2>8. GoneInflightStraddled'
    BY <1>1, <2>4, <2>6 DEF GoneInflightStraddled, Gone
  <2>9. (LedgerCarriesExp /\ GoneIsPast /\ NoReplayAfterReclaim)'
    BY <1>1 DEF LedgerCarriesExp, GoneIsPast, Gone, NoReplayAfterReclaim
  <2> QED BY <2>5, <2>7, <2>8, <2>9
<1> QED BY <1>1, <1>2, <1>3

(* A claim that goes through a second time was in flight when the first one *)
(* was reclaimed.                                                           *)
LEMMA ExecuteIInv ==
  ASSUME IInv, NEW s \in Session, Execute(s)
  PROVE  IInv'
<1> USE DEF IInv
<1> DEFINE t == inflight[s]
           j == t.jti
<1>1. /\ t # None
      /\ inflight' = [inflight EXCEPT ![s] = None]
      /\ UNCHANGED <<clock, file, loaded, ring, straddled>>
      /\ \/ /\ ledger[j] = None
            /\ ledger' = [ledger EXCEPT ![j] = [exp |-> t.exp, outcome |-> "open"]]
            /\ executed' = [executed EXCEPT ![j] = @ + 1]
         \/ UNCHANGED <<ledger, executed>>
  BY Zenon DEF Execute
<1>2. t \in Token /\ t.signer # Forged /\ t.exp \in Int /\ j \in Jti
  BY <1>1, GuardAssumption DEF InflightIsSigned
<1>3. \A o \in Session : inflight'[o] = IF o = s THEN None ELSE inflight[o]
  BY <1>1 DEF TypeOK
<1>4. InflightIsSigned'
  BY <1>3 DEF InflightIsSigned
<1>5. CASE UNCHANGED <<ledger, executed>>
  <2>1. TypeOK'
    BY <1>1, <1>5 DEF TypeOK
  <2>2. (LedgerCarriesExp /\ GoneIsPast /\ NoReplayAfterReclaim /\ GoneInflightStraddled)'
    BY <1>1, <1>3, <1>5 DEF LedgerCarriesExp, GoneIsPast, Gone, NoReplayAfterReclaim,
       GoneInflightStraddled
  <2> QED BY <1>4, <2>1, <2>2
<1>6. CASE /\ ledger[j] = None
           /\ ledger' = [ledger EXCEPT ![j] = [exp |-> t.exp, outcome |-> "open"]]
           /\ executed' = [executed EXCEPT ![j] = @ + 1]
  <2>1. /\ \A i \in Jti : ledger'[i] = IF i = j THEN [exp |-> t.exp, outcome |-> "open"] ELSE ledger[i]
        /\ \A i \in Jti : executed'[i] = IF i = j THEN executed[j] + 1 ELSE executed[i]
        /\ executed[j] \in Nat
    BY <1>2, <1>6 DEF TypeOK
  <2>2. [exp |-> t.exp, outcome |-> "open"] \in [exp : Int, outcome : Outcome]
    BY <1>2 DEF Outcome
  <2>3. TypeOK'
    BY <1>1, <1>2, <1>6, <2>1, <2>2 DEF TypeOK
  <2>5. LedgerCarriesExp'
    <3> SUFFICES ASSUME NEW i \in Jti, ledger'[i] # None
                 PROVE  /\ executed'[i] > 0
                        /\ ledger'[i].exp \in Int
                        /\ \A u \in Token : u.jti = i /\ u.signer # Forged => u.exp = ledger'[i].exp
      BY DEF LedgerCarriesExp
    <3>1. CASE i = j
      <4>1. \A u \in Token : u.jti = j /\ u.signer # Forged => u.exp = t.exp
        BY <1>2, GuardAssumption
      <4> QED BY <1>2, <2>1, <3>1, <4>1
    <3>2. CASE i # j
      BY <2>1, <3>2 DEF LedgerCarriesExp
    <3> QED BY <3>1, <3>2
  <2>6. \A i \in Jti : Gone(i)' => Gone(i) \/ i = j
    BY <2>1 DEF Gone
  <2>7. ledger'[j] # None
    BY <1>2, <2>1, <2>2, GuardAssumption
  <2>8. (GoneIsPast /\ GoneInflightStraddled)'
    BY <1>1, <1>3, <2>6, <2>7, GuardAssumption DEF GoneIsPast, GoneInflightStraddled, Gone, InflightIsSigned
  <2>9. NoReplayAfterReclaim'
    BY <1>1, <1>2, <1>6, <2>1 DEF NoReplayAfterReclaim, GoneInflightStraddled, Gone
  <2> QED BY <1>4, <2>3, <2>5, <2>8, <2>9
<1> QED BY <1>1, <1>5, <1>6

\* Closing an entry changes nothing that the invariant says of it.
LEMMA ReconcileIInv ==
  ASSUME IInv, NEW j \in Jti, Reconcile(j)
  PROVE  IInv'
<1> USE DEF IInv
<1>1. PICK o \in {"RECONCILED", "INDETERMINATE"} :
        ledger' = [ledger EXCEPT ![j] = [exp |-> ledger[j].exp, outcome |-> o]]
  BY DEF Reconcile
<1>2. /\ ledger[j] # None
      /\ UNCHANGED <<clock, file, loaded, ring, inflight, executed, straddled>>
  BY DEF Reconcile
<1> DEFINE entry == [exp |-> ledger[j].exp, outcome |-> o]
<1>3. entry \in [exp : Int, outcome : Outcome] /\ entry # None
  BY <1>2, GuardAssumption DEF LedgerCarriesExp, Outcome
<1>4. \A i \in Jti : ledger'[i] = IF i = j THEN entry ELSE ledger[i]
  BY <1>1 DEF TypeOK
<1>5. TypeOK'
  BY <1>1, <1>2, <1>3 DEF TypeOK
<1>6. \A i \in Jti : ledger'[i] = None <=> ledger[i] = None
  BY <1>2, <1>3, <1>4
<1>7. LedgerCarriesExp'
  BY <1>2, <1>3, <1>4, <1>6 DEF LedgerCarriesExp
<1>8. \A i \in Jti : Gone(i)' <=> Gone(i)
  BY <1>2, <1>6 DEF Gone
<1>9. (InflightIsSigned /\ NoReplayAfterReclaim /\ GoneIsPast)'
  BY <1>2, <1>8 DEF InflightIsSigned, NoReplayAfterReclaim, GoneIsPast
<1>10. GoneInflightStraddled'
  <2>1. \A s \in Session : inflight[s] # None => inflight[s].jti \in Jti
    BY GuardAssumption DEF InflightIsSigned
  <2> QED BY <1>2, <1>8, <2>1 DEF GoneInflightStraddled
<1> QED BY <1>5, <1>7, <1>9, <1>10

(* What is reclaimed is past for every verifier, and what was in flight at  *)
(* that moment is put down as such.                                         *)
LEMMA ReclaimIInv ==
  ASSUME IInv, NEW j \in Jti, Reclaim(j)
  PROVE  IInv'
<1> USE DEF IInv
<1>1. /\ ledger[j] # None
      /\ ledger[j].exp + ReclaimLeeway < clock
      /\ ledger' = [ledger EXCEPT ![j] = None]
      /\ straddled \subseteq straddled' /\ straddled' \subseteq straddled \cup {j}
      /\ (\E s \in Session : inflight[s] # None /\ inflight[s].jti = j) => j \in straddled'
      /\ UNCHANGED <<clock, file, loaded, ring, inflight, executed>>
  BY DEF Reclaim, CleanupEligible
<1>2. \A i \in Jti : ledger'[i] = IF i = j THEN None ELSE ledger[i]
  BY <1>1 DEF TypeOK
<1>3. TypeOK'
  BY <1>1 DEF TypeOK
<1>4. LedgerCarriesExp'
  BY <1>1, <1>2 DEF LedgerCarriesExp
<1>5. \A i \in Jti : Gone(i)' => Gone(i) \/ i = j
  BY <1>1, <1>2 DEF Gone
<1>6. \A t \in Token : t.jti = j /\ t.signer # Forged => t.exp \in Int /\ t.exp + Leeway + Lag < clock
  <2>1. /\ ledger[j].exp \in Int
        /\ \A t \in Token : t.jti = j /\ t.signer # Forged => t.exp = ledger[j].exp
    BY <1>1 DEF LedgerCarriesExp
  <2>2. ledger[j].exp + Leeway + Lag < clock
    BY <1>1, <2>1, LeewayCovers, GuardAssumption DEF TypeOK
  <2> QED BY <2>1, <2>2
<1>7. GoneIsPast'
  BY <1>1, <1>5, <1>6 DEF GoneIsPast
<1>8. \A s \in Session : inflight[s] # None => inflight[s].jti \in Jti
  BY GuardAssumption DEF InflightIsSigned
<1>9. GoneInflightStraddled'
  BY <1>1, <1>5, <1>8 DEF GoneInflightStraddled
<1>10. (InflightIsSigned /\ NoReplayAfterReclaim)'
  BY <1>1 DEF InflightIsSigned, NoReplayAfterReclaim
<1> QED BY <1>3, <1>4, <1>7, <1>9, <1>10

\* The clock, the file and the process touch neither claims nor executions.
LEMMA OperateIInv ==
  ASSUME IInv, Tick \/ EditFile \/ Restart \/ Deliver \/ UNCHANGED vars
  PROVE  IInv'
<1> USE DEF IInv
<1>1. /\ UNCHANGED <<ledger, executed, straddled>>
      /\ clock' \in Nat /\ clock' >= clock
      /\ \A s \in Session : inflight'[s] \in {inflight[s], None}
  BY DEF TypeOK, Tick, EditFile, Restart, Deliver, vars
<1>2. TypeOK'
  BY DEF TypeOK, Tick, EditFile, Restart, Deliver, vars
<1>3. InflightIsSigned'
  BY <1>1 DEF InflightIsSigned
<1>4. (LedgerCarriesExp /\ NoReplayAfterReclaim)'
  BY <1>1 DEF LedgerCarriesExp, NoReplayAfterReclaim
<1>5. GoneIsPast'
  BY <1>1, GuardAssumption DEF GoneIsPast, Gone, TypeOK
<1>6. GoneInflightStraddled'
  BY <1>1 DEF GoneInflightStraddled, Gone
<1> QED BY <1>2, <1>3, <1>4, <1>5, <1>6

\* Every step of the sidecar, its callers and its operator keeps the invariant.
LEMMA NextIInv == IInv /\ [Next]_vars => IInv'
<1> SUFFICES ASSUME IInv, [Next]_vars PROVE IInv'
  OBVIOUS
<1>1. ASSUME NEW s \in Session, NEW rq \in Request, NEW lag \in 0..Lag, Present(s, rq, lag) PROVE IInv'
  BY <1>1, PresentIInv
<1>2. ASSUME NEW s \in Session, Execute(s) PROVE IInv'
  BY <1>2, ExecuteIInv
<1>3. ASSUME NEW j \in Jti, Reconcile(j) \/ Reclaim(j) PROVE IInv'
  BY <1>3, ReconcileIInv, ReclaimIInv
<1>4. CASE Tick \/ EditFile \/ Restart \/ Deliver \/ UNCHANGED vars
  BY <1>4, OperateIInv
<1> QED BY <1>1, <1>2, <1>3, <1>4, Zenon DEF Next, Serve, Operate

(* The invariant holds for every set of grants and requests, every leeway   *)
(* and every lag that the cleanup's leeway covers.                          *)
THEOREM GuardInvariant == Spec => []IInv
<1> QED BY InitIInv, NextIInv, PTL DEF Spec

(* A grant is executed twice only if it was in flight when its claim was    *)
(* reclaimed (git-atomic.js 225-261, verify-grant.js 306-319).              *)
THEOREM ReclaimIsSafe == Spec => []NoReplayAfterReclaim
<1>1. IInv => NoReplayAfterReclaim
  BY DEF IInv
<1> QED BY <1>1, GuardInvariant, PTL
-----------------------------------------------------------------------------
\* The last answer was the guard's, with the ring the process still has.
AnswerInv ==
  answer # None =>
    /\ ring # None
    /\ answer.request \in Request /\ answer.now \in Int
    /\ LET ans == GuardAnswer(ring, answer.request, answer.now)
       IN answer.admitted = ans.admitted /\ answer.remedy = ans.remedy

\* What an answer says, and says still if its status is another.
LEMMA AnswerFields ==
  ASSUME NEW rg, NEW rq, NEW now, NEW st
  PROVE  /\ GuardAnswer(rg, rq, now).request = rq
         /\ GuardAnswer(rg, rq, now).now = now
         /\ [GuardAnswer(rg, rq, now) EXCEPT !.status = st].request = rq
         /\ [GuardAnswer(rg, rq, now) EXCEPT !.status = st].now = now
         /\ [GuardAnswer(rg, rq, now) EXCEPT !.status = st].admitted
              = GuardAnswer(rg, rq, now).admitted
         /\ [GuardAnswer(rg, rq, now) EXCEPT !.status = st].remedy
              = GuardAnswer(rg, rq, now).remedy
<1>1. PICK verdict, remedy : GuardAnswer(rg, rq, now) = Answer(rq, now, verdict, remedy)
  BY Zenon DEF GuardAnswer
<1> QED BY <1>1 DEF Answer

\* An answer is given, and delivered before anything else happens.
LEMMA AnswerStep == TypeOK /\ AnswerInv /\ [Next]_vars => AnswerInv'
<1> SUFFICES ASSUME TypeOK, AnswerInv, [Next]_vars PROVE AnswerInv'
  OBVIOUS
<1>1. CASE UNCHANGED vars
  BY <1>1 DEF AnswerInv, vars
<1>2. CASE Deliver
  BY <1>2 DEF AnswerInv, Deliver
<1>3. ASSUME NEW s \in Session, NEW rq \in Request, NEW lag \in 0..Lag, Present(s, rq, lag)
      PROVE  AnswerInv'
  <2> DEFINE ans == GuardAnswer(ring, rq, clock - lag)
  <2>1. /\ ring # None /\ ring' = ring
        /\ answer' = ans \/ answer' = [ans EXCEPT !.status = HandlerStatus(rq)]
    BY <1>3, Zenon DEF Present
  <2>2. clock - lag \in Int
    BY GuardAssumption DEF TypeOK
  <2>3. /\ answer'.request = rq /\ answer'.now = clock - lag
        /\ answer'.admitted = ans.admitted /\ answer'.remedy = ans.remedy
    <3>1. CASE answer' = ans
      BY <3>1, AnswerFields
    <3>2. CASE answer' = [ans EXCEPT !.status = HandlerStatus(rq)]
      BY <3>2, AnswerFields
    <3> QED BY <2>1, <3>1, <3>2, Zenon
  <2> QED BY <2>1, <2>2, <2>3, Zenon DEF AnswerInv
<1>4. CASE answer = None /\ answer' = None
  BY <1>4 DEF AnswerInv
<1>5. ASSUME NEW s \in Session, answer = None, Execute(s) PROVE answer' = None
  BY <1>5 DEF Execute
<1>6. ASSUME NEW j \in Jti, answer = None, Reconcile(j) \/ Reclaim(j) PROVE answer' = None
  BY <1>6 DEF Reconcile, Reclaim
<1>7. ASSUME answer = None, Tick \/ EditFile \/ Restart PROVE answer' = None
  BY <1>7 DEF Tick, EditFile, Restart
<1> QED BY <1>1, <1>2, <1>3, <1>4, <1>5, <1>6, <1>7, Zenon DEF Next, Serve, Operate

\* Answers stand throughout.
LEMMA AnswersStand == Spec => [](TypeOK /\ AnswerInv)
<1>1. Init => AnswerInv
  BY DEF Init, AnswerInv
<1>2. IInv => TypeOK
  BY DEF IInv
<1> QED BY <1>1, <1>2, AnswerStep, GuardInvariant, PTL DEF Spec
-----------------------------------------------------------------------------
\* The checks of a kind that pass, one by one.
LEMMA AuthenticityPasses ==
  ASSUME NEW rg, NEW t, NEW now
  PROVE  Failing(AuthenticityChecks(rg, t, now)) = {} <=>
           /\ t.shape # "malformed"
           /\ ~(t.shape = "delimiter" /\ t.v = "v1")
           /\ PinnedKey(rg, t).key # None
           /\ PinnedKey(rg, t).status # "retired"
           /\ t.signer = PinnedKey(rg, t).key
           /\ TimesParse(t)
           /\ ~Expired(t, now)
           /\ ~(t.from > now + Leeway)
<1> DEFINE c == AuthenticityChecks(rg, t, now)
<1>1. DOMAIN c = 1..8
  BY DEF AuthenticityChecks
<1>2. /\ c[1].fails <=> t.shape = "malformed"
      /\ c[2].fails <=> t.shape = "delimiter" /\ t.v = "v1"
      /\ c[3].fails <=> PinnedKey(rg, t).key = None
      /\ c[4].fails <=> PinnedKey(rg, t).status = "retired"
  BY DEF AuthenticityChecks, Check
<1>3. /\ c[5].fails <=> t.signer # PinnedKey(rg, t).key
      /\ c[6].fails <=> ~TimesParse(t)
      /\ c[7].fails <=> TimesParse(t) /\ Expired(t, now)
      /\ c[8].fails <=> TimesParse(t) /\ t.from > now + Leeway
  BY DEF AuthenticityChecks, Check
<1>4. Failing(c) = {} <=> \A i \in 1..8 : ~c[i].fails
  BY <1>1, Zenon DEF Failing
<1> HIDE DEF c
<1>5. (\A i \in 1..8 : ~c[i].fails) <=>
        /\ ~c[1].fails /\ ~c[2].fails /\ ~c[3].fails /\ ~c[4].fails
        /\ ~c[5].fails /\ ~c[6].fails /\ ~c[7].fails /\ ~c[8].fails
  OBVIOUS
<1> QED BY <1>2, <1>3, <1>4, <1>5, Zenon DEF c

LEMMA BindingPasses ==
  ASSUME NEW t, NEW rq
  PROVE  Failing(BindingChecks(t, rq)) = {} <=>
           /\ t.receipt # None /\ ~WrongAudience(t) /\ t.op = OperationMap[rq.route]
           /\ t.target = rq.target /\ t.body = rq.body
<1> DEFINE c == BindingChecks(t, rq)
<1>1. DOMAIN c = 1..5
  BY DEF BindingChecks
<1>2. /\ c[1].fails <=> t.receipt = None
      /\ c[2].fails <=> WrongAudience(t)
      /\ c[3].fails <=> t.op # OperationMap[rq.route]
      /\ c[4].fails <=> rq.target # None /\ t.target # rq.target
      /\ c[5].fails <=> t.target # rq.target \/ t.body # rq.body
  BY DEF BindingChecks, Check
<1>3. Failing(c) = {} <=> \A i \in 1..5 : ~c[i].fails
  BY <1>1, Zenon DEF Failing
<1> HIDE DEF c
<1>4. (\A i \in 1..5 : ~c[i].fails) <=>
        ~c[1].fails /\ ~c[2].fails /\ ~c[3].fails /\ ~c[4].fails /\ ~c[5].fails
  OBVIOUS
<1> QED BY <1>2, <1>3, <1>4, Zenon DEF c

LEMMA BindingPassesV2 ==
  ASSUME NEW t, NEW rq
  PROVE  Failing(BindingChecksV2(t, rq)) = {} <=>
           /\ t.op = OperationMap[rq.route] /\ t.target = TargetUri
           /\ ~WrongAudience(t) /\ t.body = rq.body
<1> DEFINE c == BindingChecksV2(t, rq)
<1>1. DOMAIN c = 1..4
  BY DEF BindingChecksV2
<1>2. /\ c[1].fails <=> t.op # OperationMap[rq.route]
      /\ c[2].fails <=> t.target # TargetUri
      /\ c[3].fails <=> WrongAudience(t)
      /\ c[4].fails <=> t.body # rq.body
  BY DEF BindingChecksV2, Check
<1>3. Failing(c) = {} <=> \A i \in 1..4 : ~c[i].fails
  BY <1>1, Zenon DEF Failing
<1> HIDE DEF c
<1>4. (\A i \in 1..4 : ~c[i].fails) <=> ~c[1].fails /\ ~c[2].fails /\ ~c[3].fails /\ ~c[4].fails
  OBVIOUS
<1> QED BY <1>2, <1>3, <1>4, Zenon DEF c

\* A grant passes if all of its version's checks do.
LEMMA PassesAll ==
  ASSUME NEW rg, NEW t, NEW rq, NEW now
  PROVE  ~Verdict(rg, t, rq, now).fails <=>
           /\ Failing(AuthenticityChecks(rg, t, now)) = {}
           /\ Failing(IF t.v = "v2" THEN BindingChecksV2(t, rq) ELSE BindingChecks(t, rq)) = {}
<1>1. ~Check(FALSE, "GRANT_CURRENT", None).fails
  BY DEF Check
<1> QED BY <1>1, RefusalFails, Zenon DEF Verdict

(* The ring has a key for a kid, not retired, if the file vouches for it:   *)
(* of several entries the last one counts (index.js 136-153).               *)
LEMMA RingVouches ==
  ASSUME NEW f \in File, Loads(f), NEW t \in Token
  PROVE  LET k == PinnedKey(Keyring(f), t)
         IN k.key # None /\ k.status # "retired" /\ t.signer = k.key <=> Vouches(f, t)
<1> DEFINE k == PinnedKey(Keyring(f), t)
<1>1. DOMAIN f \subseteq Nat
  BY GrantShapes
<1>2. DOMAIN Keyring(f) = {f[i].kid : i \in Latest(f)}
  BY Zenon DEF Keyring
<1>3. ASSUME NEW i \in Latest(f), f[i].kid = t.kid
      PROVE  k = f[i]
  <2> DEFINE last == CHOOSE o \in Latest(f) : f[o].kid = t.kid
  <2>1. last \in Latest(f) /\ f[last].kid = t.kid
    BY <1>3, Zenon
  <2> HIDE DEF last
  <2>2. last = i
    BY <1>1, <1>3, <2>1 DEF Latest
  <2>3. t.kid \in DOMAIN Keyring(f)
    BY <1>2, <1>3, Zenon
  <2>4. Keyring(f)[t.kid] = f[last]
    BY <2>3, Zenon DEF Keyring, last
  <2> QED BY <2>2, <2>3, <2>4, Zenon DEF PinnedKey
<1>4. ASSUME NEW i \in DOMAIN f
      PROVE  (\A j \in DOMAIN f : f[j].kid = t.kid => j <= i) /\ f[i].kid = t.kid
               <=> i \in Latest(f) /\ f[i].kid = t.kid
  BY <1>1 DEF Latest
<1>5. ASSUME k.key # None
      PROVE  \E i \in Latest(f) : f[i].kid = t.kid
  <2>1. t.kid \in DOMAIN Keyring(f)
    BY <1>5 DEF PinnedKey, NoKey
  <2> QED BY <1>2, <2>1
<1>6. ASSUME k.key # None, k.status # "retired", t.signer = k.key
      PROVE  Vouches(f, t)
  <2>1. PICK i \in Latest(f) : f[i].kid = t.kid
    BY <1>5, <1>6
  <2>2. i \in DOMAIN f /\ k = f[i]
    BY <1>3, <2>1 DEF Latest
  <2> QED BY <1>4, <1>6, <2>1, <2>2 DEF Vouches
<1>7. ASSUME Vouches(f, t)
      PROVE  k.key # None /\ k.status # "retired" /\ t.signer = k.key
  <2>1. PICK i \in DOMAIN f :
          /\ f[i].kid = t.kid /\ f[i].key = t.signer /\ f[i].status # "retired"
          /\ \A j \in DOMAIN f : f[j].kid = t.kid => j <= i
    BY <1>7 DEF Vouches
  <2>2. k = f[i]
    BY <1>3, <1>4, <2>1
  <2>3. t.signer # None
    BY GuardAssumption, GrantShapes
  <2> QED BY <2>1, <2>2, <2>3
<1> QED BY <1>6, <1>7

(* The guard lets a grant pass exactly if it is authorized (index.js        *)
(* 84-156, 204-279; verify-grant.js 268-399).                               *)
THEOREM GuardAdmitsTheAuthorized == Spec => []GuardIsExact
<1>1. ASSUME TypeOK, AnswerInv, answer # None, answer.request.token # None,
             OperationMap[answer.request.route] # None
      PROVE  answer.admitted <=> Authorized(answer.request.token, answer.request, answer.now)
  <2> DEFINE rq  == answer.request
             t   == rq.token
             now == answer.now
  <2>1. /\ ring # None /\ rq \in Request /\ now \in Int /\ t \in Token
        /\ answer.admitted = GuardAnswer(ring, rq, now).admitted
    BY <1>1, GuardAssumption DEF AnswerInv
  <2>2. loaded \in File /\ Loads(loaded) /\ ring = Keyring(loaded)
    BY <1>1, <2>1 DEF TypeOK
  <2>3. GuardAnswer(ring, rq, now).admitted <=> ~Verdict(ring, t, rq, now).fails
    BY <1>1, Zenon DEF GuardAnswer, Answer
  <2>4. Vouches(loaded, t) <=> /\ PinnedKey(ring, t).key # None
                               /\ PinnedKey(ring, t).status # "retired"
                               /\ t.signer = PinnedKey(ring, t).key
    BY <2>1, <2>2, RingVouches, Zenon
  <2>5. /\ t.v \in {"v1", "v2"} /\ t.shape \in {"ok", "delimiter", "malformed"}
        /\ t.from \in Int \cup {None} /\ t.exp \in Int \cup {None} /\ Leeway \in Nat
        /\ None \notin Int
    BY <2>1, GuardAssumption, GrantShapes
  <2>6. TimesParse(t) =>
          (now \in (t.from - Leeway)..(t.exp + Leeway) <=>
             ~Expired(t, now) /\ ~(t.from > now + Leeway))
    BY <2>1, <2>5 DEF TimesParse, Expired
  <2>7. Audience \in {None, t.audience} <=> ~WrongAudience(t)
    BY DEF WrongAudience
  <2>8. t.shape = "ok" \/ (t.v = "v2" /\ t.shape # "malformed") <=>
          t.shape # "malformed" /\ ~(t.shape = "delimiter" /\ t.v = "v1")
    BY <2>5
  <2>9. CASE t.v = "v1"
    BY <2>1, <2>3, <2>4, <2>6, <2>7, <2>8, <2>9, PassesAll, AuthenticityPasses, BindingPasses
       DEF Authorized
  <2>10. CASE t.v = "v2"
    BY <2>1, <2>3, <2>4, <2>6, <2>7, <2>8, <2>10, PassesAll, AuthenticityPasses, BindingPassesV2
       DEF Authorized
  <2> QED BY <2>5, <2>9, <2>10
<1>2. TypeOK /\ AnswerInv => GuardIsExact
  BY <1>1, Zenon DEF GuardIsExact
<1> QED BY <1>2, AnswersStand, PTL
-----------------------------------------------------------------------------
\* A refusal is for a check that failed.
LEMMA RefusalIsOf ==
  ASSUME NEW checks, DOMAIN checks \subseteq Nat, Failing(checks) # {}
  PROVE  \E i \in Failing(checks) :
           Refusal(checks) = Check(TRUE, checks[i].status, checks[i].reason)
<1> DEFINE first == CHOOSE i \in Failing(checks) : \A j \in Failing(checks) : i <= j
<1>1. Failing(checks) \subseteq Nat
  BY Zenon DEF Failing
<1>2. PICK least \in Failing(checks) : \A j \in Failing(checks) : <<j, least>> \notin OpToRel(<, Nat)
  BY <1>1, NatLessThanWellFounded, WFMin
<1>3. \A j \in Failing(checks) : least <= j
  <2>1. ASSUME NEW j \in Failing(checks), j < least PROVE FALSE
    <3>1. <<j, least>> \in {ss \in Nat \X Nat : ss[1] < ss[2]}
      BY <1>1, <2>1
    <3> QED BY <1>2, <3>1 DEF OpToRel
  <2> QED BY <1>1, <2>1
<1>4. first \in Failing(checks)
  BY <1>3, Zenon
<1>5. Refusal(checks) = Check(TRUE, checks[first].status, checks[first].reason)
  BY Zenon DEF Refusal
<1> QED BY <1>4, <1>5, Zenon

\* The class of a refusal, by its status and its reason.
LEMMA ClassOf ==
  ASSUME NEW status, NEW reason, reason # "missing_grant_header"
  PROVE  /\ reason \in InvalidReasons => RemedyOf(Check(TRUE, status, reason)) = "GRANT_INVALID"
         /\ reason \in MismatchReasons => RemedyOf(Check(TRUE, status, reason)) = "GRANT_MISMATCH"
         /\ reason \notin InvalidReasons \cup MismatchReasons =>
              /\ status \in InvalidReasons =>
                   RemedyOf(Check(TRUE, status, reason)) = "GRANT_INVALID"
              /\ status \in MismatchReasons =>
                   RemedyOf(Check(TRUE, status, reason)) = "GRANT_MISMATCH"
<1>1. /\ Check(TRUE, status, reason).status = status
      /\ Check(TRUE, status, reason).reason = reason
  BY DEF Check
<1>2. \A r : /\ r \in InvalidReasons => DenyErrorForReason(r) = "GRANT_INVALID"
             /\ r \in MismatchReasons => DenyErrorForReason(r) = "GRANT_MISMATCH"
             /\ r \notin InvalidReasons \cup MismatchReasons \cup {"missing_grant_header"} =>
                  DenyErrorForReason(r) = None
  BY DEF DenyErrorForReason, InvalidReasons, MismatchReasons
<1>3. None \notin {"GRANT_INVALID", "GRANT_MISMATCH"}
  BY GrantShapes
<1> QED BY <1>1, <1>2, <1>3 DEF RemedyOf

(* What fails before the request is looked at asks for another grant        *)
(* (verify-grant.js 268-319, deny-remedy.js 17-60).                         *)
LEMMA InauthenticIsInvalid ==
  ASSUME NEW rg, NEW t, NEW now, Failing(AuthenticityChecks(rg, t, now)) # {}
  PROVE  RemedyOf(Refusal(AuthenticityChecks(rg, t, now))) = "GRANT_INVALID"
<1> DEFINE c == AuthenticityChecks(rg, t, now)
<1>1. DOMAIN c = 1..8
  BY DEF AuthenticityChecks
<1>2. PICK i \in Failing(c) : Refusal(c) = Check(TRUE, c[i].status, c[i].reason)
  <2>1. DOMAIN c \subseteq Nat
    BY <1>1
  <2> HIDE DEF c
  <2> QED BY <2>1, RefusalIsOf, Zenon DEF c
<1>3. i \in 1..8
  BY <1>1, <1>2, Zenon DEF Failing
<1>4. /\ c[1].status = "MALFORMED"         /\ c[1].reason = "malformed_structure"
      /\ c[2].status = "INVALID_SIGNATURE" /\ c[2].reason = "delimiter_in_field"
      /\ c[3].status = "UNKNOWN_KEY"       /\ c[3].reason = "unknown_kid"
      /\ c[4].status = "UNKNOWN_KEY"       /\ c[4].reason = "retired_kid"
  BY DEF AuthenticityChecks, Check
<1>5. /\ c[5].status = "INVALID_SIGNATURE" /\ c[5].reason = "signature_mismatch"
      /\ c[6].status = "MALFORMED"         /\ c[6].reason = "bad_timestamp"
      /\ c[7].status = "GRANT_EXPIRED"     /\ c[7].reason = "expired"
      /\ c[8].status = "GRANT_EXPIRED"     /\ c[8].reason \in {"iat_in_future", "nbf_in_future"}
  BY DEF AuthenticityChecks, Check
<1> HIDE DEF c
<1>6. /\ c[i].reason # "missing_grant_header"
      /\ \/ c[i].reason \in InvalidReasons
         \/ c[i].reason \notin InvalidReasons \cup MismatchReasons /\ c[i].status \in InvalidReasons
  BY <1>3, <1>4, <1>5 DEF InvalidReasons, MismatchReasons
<1>7. RemedyOf(Check(TRUE, c[i].status, c[i].reason)) = "GRANT_INVALID"
  BY <1>6, ClassOf, Zenon
<1> QED BY <1>2, <1>7, Zenon DEF c

(* What fails on the request asks for a grant for this one (verify-grant.js *)
(* 321-399).                                                                *)
LEMMA UnboundIsMismatch ==
  ASSUME NEW t, NEW rq
  PROVE  /\ Failing(BindingChecks(t, rq)) # {} =>
              RemedyOf(Refusal(BindingChecks(t, rq))) = "GRANT_MISMATCH"
         /\ Failing(BindingChecksV2(t, rq)) # {} =>
              RemedyOf(Refusal(BindingChecksV2(t, rq))) = "GRANT_MISMATCH"
<1> DEFINE OfRequest(c) ==
      \A i \in DOMAIN c :
        /\ c[i].reason # "missing_grant_header"
        /\ \/ c[i].reason \in MismatchReasons
           \/ c[i].reason \notin InvalidReasons \cup MismatchReasons /\ c[i].status \in MismatchReasons
<1>1. ASSUME NEW c, DOMAIN c \subseteq Nat, OfRequest(c), Failing(c) # {}
      PROVE  RemedyOf(Refusal(c)) = "GRANT_MISMATCH"
  <2>1. PICK i \in Failing(c) : Refusal(c) = Check(TRUE, c[i].status, c[i].reason)
    BY <1>1, RefusalIsOf, Zenon
  <2>2. i \in DOMAIN c
    BY <2>1, Zenon DEF Failing
  <2>3. RemedyOf(Check(TRUE, c[i].status, c[i].reason)) = "GRANT_MISMATCH"
    BY <1>1, <2>2, ClassOf, Zenon
  <2> QED BY <2>1, <2>3, Zenon
<1>2. DOMAIN BindingChecks(t, rq) \subseteq Nat /\ OfRequest(BindingChecks(t, rq))
  BY DEF BindingChecks, Check, InvalidReasons, MismatchReasons
<1>3. DOMAIN BindingChecksV2(t, rq) \subseteq Nat /\ OfRequest(BindingChecksV2(t, rq))
  BY DEF BindingChecksV2, Check, InvalidReasons, MismatchReasons
<1> HIDE DEF OfRequest
<1> QED BY <1>1, <1>2, <1>3, Zenon

\* What the guard answers to a request without a grant it could look at.
LEMMA AnswerWithout ==
  ASSUME NEW rg, NEW rq, NEW now
  PROVE  /\ OperationMap[rq.route] = None =>
              /\ ~GuardAnswer(rg, rq, now).admitted
              /\ GuardAnswer(rg, rq, now).remedy = None
         /\ OperationMap[rq.route] # None /\ rq.token = None =>
              /\ ~GuardAnswer(rg, rq, now).admitted
              /\ GuardAnswer(rg, rq, now).remedy = "GRANT_REQUIRED"
<1>1. CASE OperationMap[rq.route] = None
  BY <1>1 DEF GuardAnswer, Answer, Check
<1>2. CASE OperationMap[rq.route] # None /\ rq.token = None
  <2> DEFINE missing == Check(TRUE, "MALFORMED", "missing_grant_header")
  <2>1. missing.fails = TRUE /\ missing.reason = "missing_grant_header"
    BY DEF Check
  <2>2. DenyErrorForReason("missing_grant_header") = "GRANT_REQUIRED"
    BY DEF DenyErrorForReason
  <2>3. RemedyOf(missing) = "GRANT_REQUIRED"
    BY <2>1, <2>2, GrantShapes DEF RemedyOf
  <2>4. GuardAnswer(rg, rq, now) = Answer(rq, now, missing, RemedyOf(missing))
    BY <1>2, Zenon DEF GuardAnswer
  <2> HIDE DEF missing
  <2>5. GuardAnswer(rg, rq, now).remedy = RemedyOf(missing)
    BY <2>4 DEF Answer
  <2>6. GuardAnswer(rg, rq, now).admitted = ~missing.fails
    BY <2>4 DEF Answer
  <2> QED BY <1>2, <2>1, <2>3, <2>5, <2>6, Zenon
<1> QED BY <1>1, <1>2, Zenon

\* What it answers to a grant.
LEMMA AnswerTo ==
  ASSUME NEW rg, NEW rq, NEW now, OperationMap[rq.route] # None, rq.token # None
  PROVE  LET v == Verdict(rg, rq.token, rq, now)
             auth == Failing(AuthenticityChecks(rg, rq.token, now))
         IN /\ GuardAnswer(rg, rq, now).admitted = ~v.fails
            /\ ~v.fails => GuardAnswer(rg, rq, now).remedy = None
            /\ v.fails /\ auth # {} => GuardAnswer(rg, rq, now).remedy = "GRANT_INVALID"
            /\ v.fails /\ auth = {} => GuardAnswer(rg, rq, now).remedy = "GRANT_MISMATCH"
<1> DEFINE t == rq.token
           v == Verdict(rg, t, rq, now)
           auth == AuthenticityChecks(rg, t, now)
           bind == IF t.v = "v2" THEN BindingChecksV2(t, rq) ELSE BindingChecks(t, rq)
<1>1. GuardAnswer(rg, rq, now) = Answer(rq, now, v, IF v.fails THEN RemedyOf(v) ELSE None)
  BY Zenon DEF GuardAnswer
<1>2. v = IF Failing(auth) # {} THEN Refusal(auth)
          ELSE IF Failing(bind) # {} THEN Refusal(bind)
          ELSE Check(FALSE, "GRANT_CURRENT", None)
  BY Zenon DEF Verdict
<1>3. Failing(auth) # {} => RemedyOf(Refusal(auth)) = "GRANT_INVALID"
  BY InauthenticIsInvalid, Zenon
<1>4. Failing(bind) # {} => RemedyOf(Refusal(bind)) = "GRANT_MISMATCH"
  BY UnboundIsMismatch, Zenon
<1>5. ~Check(FALSE, "GRANT_CURRENT", None).fails
  BY DEF Check
<1> HIDE DEF v, auth, bind
<1>6. /\ GuardAnswer(rg, rq, now).admitted = ~v.fails
      /\ GuardAnswer(rg, rq, now).remedy = IF v.fails THEN RemedyOf(v) ELSE None
  BY <1>1 DEF Answer
<1>7. v.fails => /\ Failing(auth) # {} => RemedyOf(v) = "GRANT_INVALID"
                 /\ Failing(auth) = {} => RemedyOf(v) = "GRANT_MISMATCH"
  BY <1>2, <1>3, <1>4, <1>5, Zenon
<1> QED BY <1>6, <1>7, Zenon DEF v, auth

(* Each remedy sends the caller the right way (deny-remedy.js 17-21,        *)
(* index.js 200-206, 258-272).                                              *)
THEOREM RemediesFit == Spec => []RemedyFits
<1>1. ASSUME TypeOK, AnswerInv, answer # None
      PROVE  LET rq == answer.request
                 t  == rq.token
             IN /\ answer.remedy = "GRANT_REQUIRED" <=> t = None /\ OperationMap[rq.route] # None
                /\ answer.remedy = "GRANT_INVALID" =>
                     \A other \in Request : ~Passes(t, other, answer.now)
                /\ answer.remedy = "GRANT_MISMATCH" =>
                     Failing(AuthenticityChecks(ring, t, answer.now)) = {}
                /\ answer.remedy = None /\ ~answer.admitted =>
                     \A u \in Token : ~Passes(u, rq, answer.now)
  <2> DEFINE rq   == answer.request
             t    == rq.token
             auth == Failing(AuthenticityChecks(ring, t, answer.now))
  <2>1. /\ answer.admitted = GuardAnswer(ring, rq, answer.now).admitted
        /\ answer.remedy = GuardAnswer(ring, rq, answer.now).remedy
    BY <1>1, Zenon DEF AnswerInv
  <2>2. None \notin {"GRANT_REQUIRED", "GRANT_INVALID", "GRANT_MISMATCH"}
    BY GrantShapes
  <2>3. CASE OperationMap[rq.route] = None
    <3>1. ~answer.admitted /\ answer.remedy = None
      BY <2>1, <2>3, AnswerWithout, Zenon
    <3>2. ASSUME NEW u \in Token PROVE ~Passes(u, rq, answer.now)
      <4>1. u.op # OperationMap[rq.route]
        BY <2>3, GrantShapes
      <4>2. Failing(BindingChecks(u, rq)) # {}
        BY <4>1, BindingPasses
      <4>3. Failing(BindingChecksV2(u, rq)) # {}
        BY <4>1, BindingPassesV2
      <4> QED BY <4>2, <4>3, PassesAll, Zenon DEF Passes
    <3> QED BY <2>2, <2>3, <3>1, <3>2
  <2>4. CASE OperationMap[rq.route] # None /\ t = None
    <3>1. answer.remedy = "GRANT_REQUIRED"
      BY <2>1, <2>4, AnswerWithout, Zenon
    <3> QED BY <2>2, <2>4, <3>1
  <2>5. CASE OperationMap[rq.route] # None /\ t # None
    <3> DEFINE fails == Verdict(ring, t, rq, answer.now).fails
    <3>1. /\ answer.admitted = ~fails
          /\ ~fails => answer.remedy = None
          /\ fails /\ auth # {} => answer.remedy = "GRANT_INVALID"
          /\ fails /\ auth = {} => answer.remedy = "GRANT_MISMATCH"
      BY <2>1, <2>5, AnswerTo, Zenon
    <3>2. ASSUME auth # {}, NEW other \in Request PROVE ~Passes(t, other, answer.now)
      BY <3>2, PassesAll, Zenon DEF Passes
    <3> HIDE DEF fails, auth
    <3>3. CASE ~fails
      BY <2>2, <2>5, <3>1, <3>3 DEF auth
    <3>4. CASE fails /\ auth # {}
      BY <2>2, <2>5, <3>1, <3>2, <3>4 DEF auth
    <3>5. CASE fails /\ auth = {}
      BY <2>2, <2>5, <3>1, <3>5 DEF auth
    <3> QED BY <3>3, <3>4, <3>5
  <2> QED BY <2>3, <2>4, <2>5
<1>2. TypeOK /\ AnswerInv => RemedyFits
  BY <1>1, Zenon DEF RemedyFits
<1> QED BY <1>2, AnswersStand, PTL
=============================================================================
