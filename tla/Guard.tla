------------------------------- MODULE Guard -------------------------------
(***************************************************************************)
(* The execution-grant middleware of one sidecar over time: the keyring    *)
(* that requireExecutionGrant loads when the process starts (index.js),    *)
(* the offline verification of a presented grant (verify-grant.js), the    *)
(* answer and its remedy (deny-remedy.js), the profile and deployment      *)
(* checks of the route (server.js), and, later, the one-use claim of the   *)
(* executor, with the rule by which a claim may be reclaimed               *)
(* (cleanupEligibleAt in git-atomic.js).                                   *)
(*                                                                         *)
(* Keys are their own public and private halves: a token is signed by      *)
(* signer, and names the kid it wants to be checked against.               *)
(***************************************************************************)
EXTENDS Integers, Sequences, FiniteSets

CONSTANTS
  Session,       \* requests the sidecar serves at the same time
  Route,         \* the routes it mounts
  OperationMap,  \* the operation of a route, None if unmapped
  Adapter,       \* the executor behind a route: "pg", "git" or "http"
  Key,           \* signing keys
  File,          \* the key files the operator may put in place
  Token,         \* the grants callers may present
  Request,       \* what they may send: route, target, body, token or None
  Jti,           \* grant ids
  Audience,      \* the audience the guard requires, None for unbound
  Dep,           \* the configured deployment
  TargetUri,     \* the target_uri it requires of a v2 grant
  Leeway,        \* CLOCK_SKEW_LEEWAY_MS, in ticks
  Requested,     \* opts.clockSkewLeewayMs of a cleanup, in ticks
  Lag,           \* how far the sidecar's clock may be behind the cleaner's
  MaxClock,      \* bound: ticks of the clock
  None

Forged == "forged"   \* the signer of a token that no key has signed

\* What is known of a consumed grant; only RECONCILED is terminal.
Outcome == {"open", "RECONCILED", "INDETERMINATE"}

(* An issuer gives a grant id to one grant, with one expiry; the leeway of  *)
(* a cleanup covers the verifier's leeway and the lag of its clock.         *)
ASSUME GuardAssumption ==
  /\ Leeway \in Nat /\ Requested \in Nat /\ Lag \in Nat
  /\ Requested >= Leeway + Lag \/ Lag = 0
  /\ None \notin Key /\ Forged \notin Key /\ None \notin Token
  /\ None \notin [exp : Int, outcome : Outcome]
  /\ \A t \in Token : /\ t.jti \in Jti
                      /\ t.exp \in Int \cup {None}
                      /\ t.signer \in Key \cup {Forged}
  /\ \A t, u \in Token :
       t.jti = u.jti /\ t.signer # Forged /\ u.signer # Forged => t.exp = u.exp
  /\ \A f \in File : \A i \in DOMAIN f : f[i].key \in Key \cup {None}
  /\ \A rq \in Request : rq.token \in Token \cup {None}

(* What a token can be once it is parsed: the payload of one version, with  *)
(* an operation and with times that are dates or are not; a file lists its  *)
(* keys one after the other.                                                *)
ASSUME GrantShapes ==
  /\ None \notin Int
  /\ None \notin {Forged, "GRANT_REQUIRED", "GRANT_INVALID", "GRANT_MISMATCH"}
  /\ \A t \in Token : /\ t.v \in {"v1", "v2"}
                      /\ t.shape \in {"ok", "delimiter", "malformed"}
                      /\ t.from \in Int \cup {None}
                      /\ t.op # None
  /\ \A f \in File : DOMAIN f \subseteq Nat

VARIABLES
  clock,      \* the cleaner's clock
  file,       \* the keys file on disk
  loaded,     \* history: the file the running process has read
  ring,       \* its keyring by kid, None while the process is down
  inflight,   \* the admitted request of a session on its way to the executor
  answer,     \* the last answer, None when it has been delivered
  ledger,     \* consumed grants: [exp, outcome] or None
  executed,   \* history: how often a grant's mutation was made
  straddled   \* history: grants in flight at the moment they were reclaimed

vars == <<clock, file, loaded, ring, inflight, answer, ledger, executed, straddled>>

-----------------------------------------------------------------------------
\* Mutant: keys.find(first active).
FirstActive(f) ==
  LET i == CHOOSE i \in DOMAIN f : f[i].status = "active"
  IN [k \in {f[i].kid} |-> f[i]]

\* The entries of the file that no later one of their kid replaces.
Latest(f) == {i \in DOMAIN f : \A j \in DOMAIN f : j > i => f[j].kid # f[i].kid}

\* byKid: retired entries are in it, too.
Keyring(f) ==
  [k \in {f[i].kid : i \in Latest(f)} |-> f[CHOOSE i \in Latest(f) : f[i].kid = k]]

\* loadKeyring throws on a file without keys, and on an entry without a PEM.
Loads(f) == f # <<>> /\ \A i \in DOMAIN f : f[i].key # None

\* The key of the kid the token claims, if it is in the ring.
NoKey == [kid |-> None, key |-> None, status |-> "unknown"]
PinnedKey(rg, t) == IF t.kid \in DOMAIN rg THEN rg[t.kid] ELSE NoKey

Check(fails, status, reason) == [fails |-> fails, status |-> status, reason |-> reason]

Expired(t, now) == t.exp + Leeway < now

TimesParse(t) == t.from # None /\ t.exp # None

\* Steps 1 to 6, in both versions; only v1 joins its fields with a delimiter.
AuthenticityChecks(rg, t, now) ==
  << Check(t.shape = "malformed", "MALFORMED", "malformed_structure"),
     Check(t.shape = "delimiter" /\ t.v = "v1", "INVALID_SIGNATURE", "delimiter_in_field"),
     Check(PinnedKey(rg, t).key = None, "UNKNOWN_KEY", "unknown_kid"),
     Check(PinnedKey(rg, t).status = "retired", "UNKNOWN_KEY", "retired_kid"),
     Check(t.signer # PinnedKey(rg, t).key, "INVALID_SIGNATURE", "signature_mismatch"),
     Check(~TimesParse(t), "MALFORMED", "bad_timestamp"),
     Check(TimesParse(t) /\ Expired(t, now), "GRANT_EXPIRED", "expired"),
     Check(TimesParse(t) /\ t.from > now + Leeway, "GRANT_EXPIRED",
           IF t.v = "v1" THEN "iat_in_future" ELSE "nbf_in_future") >>

WrongAudience(t) == Audience # None /\ t.audience # Audience

\* Steps 7 to 9 of v1, with the intent of index.js.
BindingChecks(t, rq) ==
  << Check(t.receipt = None, "GRANT_UNBOUND", "missing_receipt_digest"),
     Check(WrongAudience(t), "GRANT_WRONG_AUDIENCE", "audience_mismatch"),
     Check(t.op # OperationMap[rq.route], "GRANT_SCOPE_MISMATCH", "operation_mismatch"),
     Check(rq.target # None /\ t.target # rq.target, "GRANT_SCOPE_MISMATCH", "target_mismatch"),
     Check(t.target # rq.target \/ t.body # rq.body, "GRANT_SCOPE_MISMATCH", "scope_hash_mismatch") >>

\* v2 signs hashes, and its target is the deployment's own URI.
BindingChecksV2(t, rq) ==
  << Check(t.op # OperationMap[rq.route], "GRANT_SCOPE_MISMATCH", "operation_mismatch"),
     Check(t.target # TargetUri, "GRANT_SCOPE_MISMATCH", "target_mismatch"),
     Check(WrongAudience(t), "GRANT_WRONG_AUDIENCE", "audience_mismatch"),
     Check(t.body # rq.body, "GRANT_SCOPE_MISMATCH", "after_payload_mismatch") >>

Failing(checks) == {i \in DOMAIN checks : checks[i].fails}

\* The first check that fails is the one that is reported.
Refusal(checks) ==
  LET first == checks[CHOOSE i \in Failing(checks) : \A j \in Failing(checks) : i <= j]
  IN Check(TRUE, first.status, first.reason)

\* verifyExecutionGrantAnyVersion: the version is the token's own.
Verdict(rg, t, rq, now) ==
  LET auth == AuthenticityChecks(rg, t, now)
      bind == IF t.v = "v2" THEN BindingChecksV2(t, rq) ELSE BindingChecks(t, rq)
  IN IF Failing(auth) # {} THEN Refusal(auth)
     ELSE IF Failing(bind) # {} THEN Refusal(bind)
     ELSE Check(FALSE, "GRANT_CURRENT", None)
-----------------------------------------------------------------------------
InvalidReasons  == {"MALFORMED", "INVALID_SIGNATURE", "UNKNOWN_KEY", "GRANT_EXPIRED",
                    "unknown_kid"}
MismatchReasons == {"GRANT_SCOPE_MISMATCH", "GRANT_UNBOUND", "GRANT_WRONG_AUDIENCE",
                    "target_mismatch", "operation_mismatch"}

\* denyErrorForReason: a closed table over reasons and statuses, in lower case.
DenyErrorForReason(reason) ==
  IF reason = "missing_grant_header" THEN "GRANT_REQUIRED"
  ELSE IF reason \in InvalidReasons  THEN "GRANT_INVALID"
  ELSE IF reason \in MismatchReasons THEN "GRANT_MISMATCH"
  ELSE None

\* Mutant: a reason the table lacks gets no remedy.
RemedyOfReason(v) == DenyErrorForReason(v.reason)

\* The remedy's class is that of the reason, or else of the status.
RemedyOf(v) ==
  IF DenyErrorForReason(v.reason) # None THEN DenyErrorForReason(v.reason)
  ELSE DenyErrorForReason(v.status)

Answer(rq, now, verdict, remedy) ==
  [ request |-> rq, now |-> now, admitted |-> ~verdict.fails, status |-> verdict.status,
    remedy |-> remedy ]

(* executionGrantGuard: an unmapped route is refused without a remedy, and  *)
(* before the header is looked at.                                          *)
GuardAnswer(rg, rq, now) ==
  IF OperationMap[rq.route] = None
    THEN Answer(rq, now, Check(TRUE, "GRANT_SCOPE_MISMATCH", "unmapped_operation"), None)
  ELSE IF rq.token = None
    THEN LET missing == Check(TRUE, "MALFORMED", "missing_grant_header")
         IN Answer(rq, now, missing, RemedyOf(missing))
  ELSE LET verdict == Verdict(rg, rq.token, rq, now)
       IN Answer(rq, now, verdict, IF verdict.fails THEN RemedyOf(verdict) ELSE None)

(* The deployment a grant names, as the adapter of its route reads it: the  *)
(* Postgres adapter knows both versions, the others read a v1 payload.      *)
DeploymentIn(t, route) ==
  IF t.v = "v2" /\ Adapter[route] # "pg" THEN None ELSE t.dep

\* handle: an admitted grant is refused for its profile, then for its deployment.
HandlerStatus(rq) ==
  IF ~rq.token.atomic THEN "BEARER_NOT_PERMITTED"
  ELSE IF DeploymentIn(rq.token, rq.route) # Dep THEN "DEPLOYMENT_MISMATCH"
  ELSE "ADMITTED"
-----------------------------------------------------------------------------
Init ==
  /\ clock = 0
  /\ file \in File
  /\ loaded = file
  /\ ring = IF Loads(file) THEN Keyring(file) ELSE None
  /\ inflight = [s \in Session |-> None]
  /\ answer = None
  /\ ledger = [j \in Jti |-> None]
  /\ executed = [j \in Jti |-> 0]
  /\ straddled = {}

Tick ==
  /\ clock < MaxClock
  /\ clock' = clock + 1
  /\ UNCHANGED <<file, loaded, ring, inflight, answer, ledger, executed, straddled>>

\* The operator replaces the keys file; the running process does not notice.
EditFile ==
  /\ file' \in File \ {file}
  /\ UNCHANGED <<clock, loaded, ring, inflight, answer, ledger, executed, straddled>>

\* The process stops or crashes, with its requests, and starts again.
Restart ==
  /\ loaded' = file
  /\ ring' = IF Loads(file) THEN Keyring(file) ELSE None
  /\ inflight' = [s \in Session |-> None]
  /\ UNCHANGED <<clock, file, answer, ledger, executed, straddled>>

\* A request comes in; the sidecar's clock may be behind.
Present(s, rq, lag) ==
  LET ans == GuardAnswer(ring, rq, clock - lag)
      st  == HandlerStatus(rq)
  IN /\ ring # None
     /\ inflight[s] = None
     /\ answer' = IF ans.admitted THEN [ans EXCEPT !.status = st] ELSE ans
     /\ inflight' = IF ans.admitted /\ st = "ADMITTED"
                      THEN [inflight EXCEPT ![s] = rq.token] ELSE inflight
     /\ UNCHANGED <<clock, file, loaded, ring, ledger, executed, straddled>>

\* The executor gets to it: claim and mutation, or GRANT_CONSUMED.
Execute(s) ==
  LET j == inflight[s].jti
  IN /\ inflight[s] # None
     /\ inflight' = [inflight EXCEPT ![s] = None]
     /\ IF ledger[j] = None
          THEN /\ ledger' = [ledger EXCEPT ![j] = [exp |-> inflight[s].exp, outcome |-> "open"]]
               /\ executed' = [executed EXCEPT ![j] = @ + 1]
          ELSE UNCHANGED <<ledger, executed>>
     /\ UNCHANGED <<clock, file, loaded, ring, answer, straddled>>

\* A reconciliation closes an entry, or cannot.
Reconcile(j) ==
  /\ ledger[j] # None
  /\ ledger[j].outcome # "RECONCILED"
  /\ \E o \in {"RECONCILED", "INDETERMINATE"} :
       ledger' = [ledger EXCEPT ![j] = [exp |-> ledger[j].exp, outcome |-> o]]
  /\ UNCHANGED <<clock, file, loaded, ring, inflight, answer, executed, straddled>>

\* The leeway of a cleanup can be asked to be longer, never shorter.
ReclaimLeeway == IF Requested > Leeway THEN Requested ELSE Leeway

\* Mutant: exp plus the leeway may be now.
EligibleAtOnce(entry, now) ==
  entry.outcome = "RECONCILED" /\ entry.exp + ReclaimLeeway <= now

\* cleanupEligibleAt over the signed exp of the entry's grant.
CleanupEligible(entry, now) ==
  entry.outcome = "RECONCILED" /\ entry.exp + ReclaimLeeway < now

\* A compaction takes an eligible entry out of the ledger.
Reclaim(j) ==
  /\ ledger[j] # None
  /\ CleanupEligible(ledger[j], clock)
  /\ ledger' = [ledger EXCEPT ![j] = None]
  /\ straddled' = IF \E s \in Session : inflight[s] # None /\ inflight[s].jti = j
                    THEN straddled \cup {j} ELSE straddled
  /\ UNCHANGED <<clock, file, loaded, ring, inflight, answer, executed>>

\* The answer has been read; it is nobody's state any more.
Deliver ==
  /\ answer # None
  /\ answer' = None
  /\ UNCHANGED <<clock, file, loaded, ring, inflight, ledger, executed, straddled>>

Serve ==
  \/ \E s \in Session, rq \in Request, lag \in 0..Lag : Present(s, rq, lag)
  \/ \E s \in Session : Execute(s)

Operate ==
  \/ Tick
  \/ EditFile
  \/ Restart
  \/ \E j \in Jti : Reconcile(j) \/ Reclaim(j)

Next == Deliver \/ (answer = None /\ (Serve \/ Operate))

Spec == Init /\ [][Next]_vars
-----------------------------------------------------------------------------
(* The file's word on a kid is its last entry for it: that is the key, and  *)
(* it is not retired.                                                       *)
Vouches(f, t) ==
  \E i \in DOMAIN f :
    /\ f[i].kid = t.kid /\ f[i].key = t.signer /\ f[i].status # "retired"
    /\ \A j \in DOMAIN f : f[j].kid = t.kid => j <= i

(* What a grant has to be: signed with a key that the file which was in     *)
(* place at the start vouches for under its kid, current to within the      *)
(* leeway, for this audience, and for this very request.                    *)
Authorized(t, rq, now) ==
  /\ t.shape = "ok" \/ (t.v = "v2" /\ t.shape # "malformed")
  /\ Vouches(loaded, t)
  /\ TimesParse(t)
  /\ now \in (t.from - Leeway)..(t.exp + Leeway)
  /\ Audience \in {None, t.audience}
  /\ t.op = OperationMap[rq.route] /\ t.body = rq.body
  /\ IF t.v = "v1" THEN t.target = rq.target /\ t.receipt # None ELSE t.target = TargetUri

(* The guard lets a grant pass exactly if it is authorized: every signer of *)
(* the file counts by its last entry, a retired one never, and a file that  *)
(* has been edited since counts from the next start (index.js 84-116,       *)
(* 123-156).                                                                *)
GuardIsExact ==
  answer # None /\ answer.request.token # None /\ OperationMap[answer.request.route] # None =>
    (answer.admitted <=> Authorized(answer.request.token, answer.request, answer.now))

Passes(t, rq, now) == ~Verdict(ring, t, rq, now).fails

(* The remedy of a refusal sends the caller the right way: GRANT_REQUIRED   *)
(* exactly if nothing was presented, GRANT_INVALID only if the grant would  *)
(* pass for no request, GRANT_MISMATCH only if it is authentic and current, *)
(* and no remedy only if no grant at all would pass (deny-remedy.js 17-21,  *)
(* index.js 200-206, 258-272).                                              *)
RemedyFits ==
  answer # None =>
    LET rq == answer.request
        t  == rq.token
    IN /\ answer.remedy = "GRANT_REQUIRED" <=> t = None /\ OperationMap[rq.route] # None
       /\ answer.remedy = "GRANT_INVALID" => \A other \in Request : ~Passes(t, other, answer.now)
       /\ answer.remedy = "GRANT_MISMATCH" => Failing(AuthenticityChecks(ring, t, answer.now)) = {}
       /\ answer.remedy = None /\ ~answer.admitted => \A u \in Token : ~Passes(u, rq, answer.now)

(* A grant is executed twice only if it was in flight when its claim was    *)
(* reclaimed: whoever presents it after that is too late for the verifier,  *)
(* whose clock may lag and who adds a leeway of its own (git-atomic.js      *)
(* 225-261 against verify-grant.js 306-319).                                *)
NoReplayAfterReclaim == \A j \in Jti : executed[j] > 1 => j \in straddled

\* An in-flight request carries a grant that some key has signed, with an expiry.
InflightIsSigned ==
  \A s \in Session : inflight[s] # None =>
    inflight[s] \in Token /\ inflight[s].signer # Forged /\ inflight[s].exp \in Int

\* Grants that have been executed and whose claim is gone.
Gone(j) == executed[j] > 0 /\ ledger[j] = None

LedgerCarriesExp ==
  \A j \in Jti : ledger[j] # None =>
    /\ executed[j] > 0
    /\ ledger[j].exp \in Int
    /\ \A t \in Token : t.jti = j /\ t.signer # Forged => t.exp = ledger[j].exp

GoneIsPast ==
  \A j \in Jti : Gone(j) =>
    \A t \in Token : t.jti = j /\ t.signer # Forged => t.exp \in Int /\ t.exp + Leeway + Lag < clock

GoneInflightStraddled ==
  \A s \in Session : inflight[s] # None /\ Gone(inflight[s].jti) => inflight[s].jti \in straddled

TypeOK ==
  /\ clock \in Nat
  /\ file \in File /\ loaded \in File
  /\ ring = IF Loads(loaded) THEN Keyring(loaded) ELSE None
  /\ inflight \in [Session -> Token \cup {None}]
  /\ ledger \in [Jti -> [exp : Int, outcome : Outcome] \cup {None}]
  /\ executed \in [Jti -> Nat]
  /\ straddled \subseteq Jti

\* The inductive invariant behind NoReplayAfterReclaim.
IInv ==
  /\ TypeOK
  /\ InflightIsSigned
  /\ LedgerCarriesExp
  /\ GoneIsPast
  /\ GoneInflightStraddled
  /\ NoReplayAfterReclaim
=============================================================================
