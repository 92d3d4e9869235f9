------------------------- MODULE EvidenceChainProofs -------------------------
(***************************************************************************)
(* What a proven transition and a passing verdict say, for any versions of *)
(* the contract, and any number of moves of the ref and edits of the file  *)
(* by others.                                                              *)
(***************************************************************************)
EXTENDS EvidenceChain, TLAPS

Before == {"build", "issue", "verify", "host", "restore", "execute"}
After  == {"replay", "ledger", "tip", "before", "objects", "grade"}
Late   == {"prove", "chain", "offline", "verdict", "done"}

LogEntry == [to : Commits, by : {"build", "host", "executor", "other"}]

ObsFields == {"commit", "before", "bytes", "changed"}

Types ==
  /\ step \in Before \cup After \cup Late
  /\ reflog \in Seq(LogEntry)
  /\ step \in (Before \ {"build"}) \cup After => reflog # <<>>
  /\ edits \in Nat
  /\ ran \in BOOLEAN
  /\ obs = [f \in ObsFields |-> obs[f]]

\* The executor moved the ref once, and from base.
MovedOnce ==
  \E i \in ExecutorMoves : i > 1 /\ ExecutorMoves = {i} /\ reflog[i - 1].to = "base"

\* A grant that was issued for this run by the live service.
HasGrant == grant # None /\ grant.grant # None /\ grant.source = "live"

(* Until the executor acts the ledger is empty and the ref was moved by     *)
(* others only; from then on the grant is in the ledger, which is what      *)
(* refuses the replay, and the executor's move is the only one of its kind. *)
RefInv ==
  /\ step \in Before => ExecutorMoves = {} /\ claims = {} /\ ledgerJti = None
  /\ step \in {"build", "issue"} => grant = None
  /\ step \in {"verify", "host", "restore", "execute"} => HasGrant
  /\ step \in After \/ ran =>
       HasGrant /\ grant.grant.jti \in claims /\ MovedOnce /\ ledgerJti \in {None, grant.grant.jti}
  /\ step \in Before \cup After => ~ran
  /\ ~ran => graded = Ungraded

\* The bytes observed are those of the commit that was observed.
ObsInv ==
  /\ step \in Before \cup (After \ {"grade"}) => obs.changed = None
  /\ obs.changed # None => obs.bytes = BytesAt(obs.commit)

(* Without an edit everything is of the first version; after one, what was  *)
(* built from the present version was authorized with it.                   *)
FileInv ==
  /\ edits = 0 => /\ file = First
                  /\ step \in (Before \ {"build"}) \cup After => built = First
                  /\ grant # None => built = First /\ grant.grant.bytes = First
  /\ edits = 1 => /\ file # First
                  /\ grant # None /\ built = file => grant.grant.bytes = file

\* What was graded proven stays what was authorized.
GradeInv ==
  graded.state = "PROVEN" => built = graded.bytes /\ (edits < 2 => built = grant.grant.bytes)

TargetInv == Types /\ RefInv /\ ObsInv /\ FileInv /\ GradeInv

-----------------------------------------------------------------------------
(* Every usable answer of the service is of the grant that was asked for.   *)
LEMMA AnswersAreLive ==
  ASSUME NEW jti, NEW q, NEW doc \in Answers(jti, q)
  PROVE  /\ doc.source = "live"
         /\ doc.grant # None => doc.grant.jti = jti
<1>1. CASE doc = Refused
  BY <1>1 DEF Refused
<1>2. /\ Exact(jti, q).source = "live" /\ Exact(jti, q).grant = GrantFor(jti, q)
      /\ GrantFor(jti, q).jti = jti
  BY DEF Exact, Document, GrantFor
<1>3. CASE doc \in {[Exact(jti, q) EXCEPT !.grant[f] = Wrong] :
             f \in {"kid", "signer", "state", "target", "executor", "nonce", "bytes", "receipt"}}
  BY <1>2, <1>3 DEF Exact, Document, GrantFor
<1>4. CASE doc \in { [Exact(jti, q) EXCEPT !.grant.current = FALSE],
                     [Exact(jti, q) EXCEPT !.chain_receipt = None],
                     [Exact(jti, q) EXCEPT !.decision = FALSE] }
  BY <1>2, <1>4 DEF Exact, Document, GrantFor
<1> QED BY <1>1, <1>2, <1>3, <1>4 DEF Answers

\* A log grows by one entry; only an entry of the executor is a move of it.
LEMMA LogGrows ==
  ASSUME Types, NEW e \in LogEntry, reflog' = Append(reflog, e)
  PROVE  /\ reflog' \in Seq(LogEntry) /\ reflog' # <<>>
         /\ e.by # "executor" => ExecutorMoves' = ExecutorMoves
         /\ e.by = "executor" => ExecutorMoves' = ExecutorMoves \cup {Len(reflog) + 1}
         /\ \A i \in DOMAIN reflog : reflog'[i] = reflog[i]
<1>1. /\ reflog' \in Seq(LogEntry) /\ Len(reflog) \in Nat
      /\ DOMAIN reflog = 1..Len(reflog) /\ DOMAIN reflog' = 1..(Len(reflog) + 1)
      /\ \A i \in 1..Len(reflog) : reflog'[i] = reflog[i]
      /\ reflog'[Len(reflog) + 1] = e
  BY DEF Types
<1> QED BY <1>1 DEF ExecutorMoves

\* A log that grows by an entry of somebody else keeps the executor's move.
LEMMA MovedOnceKept ==
  ASSUME Types, MovedOnce, NEW e \in LogEntry, e.by # "executor", reflog' = Append(reflog, e)
  PROVE  MovedOnce'
<1>1. PICK i \in ExecutorMoves : i > 1 /\ ExecutorMoves = {i} /\ reflog[i - 1].to = "base"
  BY DEF MovedOnce
<1>2. i \in DOMAIN reflog /\ i - 1 \in DOMAIN reflog
  BY <1>1 DEF ExecutorMoves, Types
<1>3. ExecutorMoves' = ExecutorMoves /\ reflog'[i - 1] = reflog[i - 1]
  BY <1>2, LogGrows
<1> QED BY <1>1, <1>3 DEF MovedOnce

\* A run that gives the target up has nothing to answer for.
LEMMA NotRunKeeps ==
  ASSUME TargetInv, NotRun, UNCHANGED <<file, edits>>
  PROVE  TargetInv'
<1>1. Types'
  <2>1. reflog' = <<>> /\ <<>> \in Seq(LogEntry)
    BY DEF NotRun
  <2>2. obs' = Nothing /\ Nothing = [f \in ObsFields |-> Nothing[f]]
    BY DEF NotRun, Nothing, ObsFields
  <2> QED BY <2>1, <2>2 DEF TargetInv, Types, NotRun, Before, After, Late
<1>2. RefInv'
  BY DEF RefInv, NotRun, Before, After
<1>3. ObsInv'
  BY DEF ObsInv, NotRun, Before, After, Nothing
<1>4. FileInv'
  BY DEF TargetInv, FileInv, NotRun, Before, After
<1>5. GradeInv'
  BY NoneAssumption DEF GradeInv, NotRun, Ungraded
<1> QED BY <1>1, <1>2, <1>3, <1>4, <1>5 DEF TargetInv

\* Until the grant is there: the repository is built and the service is asked.
LEMMA BuildKeeps ==
  ASSUME TargetInv, Build
  PROVE  TargetInv'
<1> USE DEF TargetInv, Build, fileVars, readVars
<1>1. reflog' = <<[to |-> "base", by |-> "build"]>>
  OBVIOUS
<1>2. Types'
  <2>1. [to |-> "base", by |-> "build"] \in LogEntry
    BY DEF LogEntry, Commits
  <2> QED BY <1>1, <2>1 DEF Types, Before, After
<1>3. RefInv'
  <2>1. ExecutorMoves' = {}
    BY <1>1 DEF ExecutorMoves
  <2> QED BY <2>1 DEF RefInv, Before, After
<1>4. ObsInv'
  BY DEF ObsInv, Before, After
<1>5. FileInv'
  BY DEF FileInv, RefInv, Before, After
<1>6. GradeInv'
  BY NoneAssumption DEF GradeInv, RefInv, Ungraded, Before
<1> QED BY <1>2, <1>3, <1>4, <1>5, <1>6

\* The answer of the service: a live grant for the file as it is, or the end of it.
LEMMA IssueKeeps ==
  ASSUME TargetInv, NEW doc \in Answers("git", GitQuestion), Issue(doc)
  PROVE  TargetInv'
<1> DEFINE taken == IssueGitGrant(env.key, doc, GitQuestion)
<1>1. UNCHANGED <<file, edits>> /\ step = "issue"
  BY DEF Issue, fileVars
<1>2. CASE taken = None
  <2>1. NotRun
    BY <1>2, Zenon DEF Issue
  <2> QED BY <1>1, <2>1, NotRunKeeps
<1>3. CASE taken # None
  <2>1. /\ step' = "verify" /\ grant' = taken
        /\ UNCHANGED <<repoVars, readVars, ran>>
    BY <1>3, Zenon DEF Issue
  <2>2. taken = doc /\ doc.grant # None /\ doc.grant.bytes = GitQuestion.bytes
    BY <1>3, Zenon DEF IssueGitGrant
  <2>3. GitQuestion.bytes = file
    BY DEF GitQuestion, Question
  <2>4. /\ grant' # None /\ grant'.grant # None /\ grant'.source = "live"
        /\ grant'.grant.bytes = file
    BY <1>3, <2>1, <2>2, <2>3, AnswersAreLive
  <2> HIDE DEF taken
  <2> USE DEF TargetInv, repoVars, readVars
  <2>5. Types'
    BY <1>1, <2>1 DEF Types, Before
  <2>6. RefInv'
    BY <1>1, <2>1, <2>4 DEF RefInv, HasGrant, Before, After, ExecutorMoves
  <2>7. ObsInv'
    BY <1>1, <2>1 DEF ObsInv, Before, After, BytesAt
  <2>8. FileInv'
    BY <1>1, <2>1, <2>4 DEF FileInv, Before, After
  <2>9. GradeInv'
    BY <1>1, <2>1, NoneAssumption DEF GradeInv, RefInv, Before, Ungraded
  <2> QED BY <2>5, <2>6, <2>7, <2>8, <2>9
<1> QED BY <1>2, <1>3

\* Steps that leave file, ledger, grant and observation alone, before the move.
LEMMA BeforeKeeps ==
  ASSUME TargetInv,
         step \in {"verify", "host", "restore"}, step' \in {"host", "restore", "execute"},
         UNCHANGED <<fileVars, built, claims, grant, readVars, ran>>,
         \/ UNCHANGED reflog
         \/ reflog' = Append(reflog, [to |-> "candidate", by |-> "host"])
  PROVE  TargetInv'
<1> USE DEF TargetInv, fileVars, readVars
<1>1. reflog' \in Seq(LogEntry) /\ reflog' # <<>> /\ ExecutorMoves' = ExecutorMoves
  <2>1. [to |-> "candidate", by |-> "host"] \in LogEntry
    BY DEF LogEntry, Commits
  <2> QED BY <2>1, LogGrows DEF ExecutorMoves, Types, Before
<1>2. Types'
  BY <1>1 DEF Types, Before, After
<1>3. RefInv'
  BY <1>1 DEF RefInv, HasGrant, Before, After
<1>4. ObsInv'
  BY DEF ObsInv, Before, After, BytesAt
<1>5. FileInv'
  BY DEF FileInv, Before, After
<1>6. GradeInv'
  BY DEF GradeInv
<1> QED BY <1>2, <1>3, <1>4, <1>5, <1>6

\* From the grant to the executor: what stands is kept, or the target is given up.
LEMMA HostKeeps ==
  ASSUME TargetInv, Verify \/ HostTries \/ Restore
  PROVE  TargetInv'
<1>1. UNCHANGED <<file, edits>>
  BY DEF Verify, HostTries, Restore, fileVars
<1>2. \/ NotRun
      \/ /\ step \in {"verify", "host", "restore"} /\ step' \in {"host", "restore", "execute"}
         /\ UNCHANGED <<fileVars, built, claims, grant, readVars, ran>>
         /\ \/ UNCHANGED reflog
            \/ reflog' = Append(reflog, [to |-> "candidate", by |-> "host"])
  BY DEF Verify, HostTries, Restore, repoVars
<1> QED BY <1>1, <1>2, NotRunKeeps, BeforeKeeps

(* The executor's move: from base, since the ref was at base when it acted, *)
(* and with the claim in one step.                                          *)
LEMMA ExecuteKeeps ==
  ASSUME TargetInv, Execute
  PROVE  TargetInv'
<1>1. step = "execute" /\ UNCHANGED <<file, edits>>
  BY DEF Execute, fileVars
<1>2. CASE NotRun
  BY <1>1, <1>2, NotRunKeeps
<1>3. CASE ~NotRun
  <2> DEFINE move == [to |-> "candidate", by |-> "executor"]
  <2>1. /\ Attempt(grant.grant.jti) = "OK" /\ Land(grant.grant.jti) /\ step' = "replay"
        /\ UNCHANGED <<built, writable, grant, readVars, ran>>
    BY <1>3, Zenon DEF Execute
  <2>2. Tip = "base"
    BY <2>1 DEF Attempt
  <2>3. /\ reflog' = Append(reflog, move)
        /\ claims' = claims \cup {grant.grant.jti} /\ move \in LogEntry /\ move.by = "executor"
    BY <2>1 DEF Land, LogEntry, Commits
  <2>4. HasGrant /\ ExecutorMoves = {} /\ ledgerJti = None /\ ~ran /\ graded = Ungraded
    BY <1>1 DEF TargetInv, RefInv, Before
  <2>5. MovedOnce'
    <3> DEFINE n == Len(reflog)
    <3>1. n \in Nat /\ reflog' \in Seq(LogEntry) /\ ExecutorMoves' = {n + 1}
          /\ \A i \in DOMAIN reflog : reflog'[i] = reflog[i]
      <4> HIDE DEF move
      <4> QED BY <2>3, <2>4, LogGrows DEF TargetInv, Types
    <3>2. n # 0
      BY <1>1 DEF TargetInv, Types, Before
    <3> QED BY <2>2, <3>1, <3>2 DEF MovedOnce, Tip, TargetInv, Types
  <2> USE DEF TargetInv, readVars
  <2>6. Types'
    <3> HIDE DEF move
    <3> QED BY <1>1, <2>1, <2>3, LogGrows DEF Types, After
  <2>7. RefInv'
    <3> HIDE DEF move
    <3> QED BY <2>1, <2>3, <2>4, <2>5 DEF RefInv, HasGrant, Before, After
  <2>8. ObsInv'
    BY <1>1, <2>1 DEF ObsInv, Before, After, BytesAt
  <2>9. FileInv'
    BY <1>1, <2>1 DEF FileInv, Before, After
  <2>10. GradeInv'
    BY <1>1, <2>1 DEF GradeInv
  <2> QED BY <2>6, <2>7, <2>8, <2>9, <2>10
<1> QED BY <1>2, <1>3

\* After the move the log and the ledger stay; the replay meets the claim.
LEMMA AfterKeeps ==
  ASSUME TargetInv, step \in After, step' \in After \cup {"prove"},
         UNCHANGED <<fileVars, repoVars, grant>>,
         step' \in After => UNCHANGED ran, step' = "prove" => ran' = TRUE,
         ledgerJti' \in {None, grant.grant.jti},
         Types', ObsInv', GradeInv', step' \in After => UNCHANGED graded
  PROVE  TargetInv'
<1> USE DEF TargetInv, fileVars, repoVars
<1>1. RefInv'
  <2>1. HasGrant /\ grant.grant.jti \in claims /\ MovedOnce /\ ~ran /\ graded = Ungraded
    BY DEF RefInv
  <2>2. HasGrant' /\ MovedOnce'
    BY <2>1 DEF HasGrant, MovedOnce, ExecutorMoves
  <2> QED BY <2>1, <2>2 DEF RefInv, Before, After
<1>2. FileInv'
  BY DEF FileInv, Before, After
<1> QED BY <1>1, <1>2

\* The replay meets the claim, so it moves nothing.
LEMMA ReplayKeeps ==
  ASSUME TargetInv, Replay
  PROVE  TargetInv'
<1>1. /\ step = "replay" /\ step' = "ledger"
      /\ UNCHANGED <<fileVars, built, writable, grant, ledgerJti, obs, graded, ran>>
  BY DEF Replay
<1>2. Attempt(grant.grant.jti) = "GRANT_CONSUMED"
  BY <1>1 DEF TargetInv, RefInv, After, Attempt
<1>3. UNCHANGED <<reflog, claims>>
  BY <1>2, Zenon DEF Replay
<1>4. Types' /\ ObsInv' /\ GradeInv'
  <2>1. Types'
    BY <1>1, <1>3 DEF TargetInv, Types, Before, After, fileVars
  <2>2. ObsInv'
    BY <1>1 DEF TargetInv, ObsInv, Before, After, BytesAt
  <2>3. GradeInv'
    BY <1>1 DEF TargetInv, GradeInv, fileVars
  <2> QED BY <2>1, <2>2, <2>3
<1>5. ledgerJti' \in {None, grant.grant.jti}
  BY <1>1 DEF TargetInv, RefInv, After
<1> QED BY <1>1, <1>3, <1>4, <1>5, AfterKeeps DEF After, repoVars

(* The readings, whole or failed: the bytes are read with the changed paths,*)
(* of the commit that was read before.                                      *)
LEMMA ReadingsKeep ==
  ASSUME TargetInv, ReadLedger \/ ReadTip \/ ReadBefore \/ ReadObjects \/ ReadingFails
  PROVE  TargetInv'
<1>1. /\ step \in After \ {"replay", "grade"} /\ step' \in After
      /\ UNCHANGED <<fileVars, repoVars, grant, graded, ran>>
  BY Zenon DEF ReadLedger, ReadTip, ReadBefore, ReadObjects, ReadingFails, Reads, After
<1>2. ledgerJti' \in {None, grant.grant.jti}
  <2>1. ledgerJti \in {None, grant.grant.jti}
    BY <1>1 DEF TargetInv, RefInv
  <2> QED BY <2>1 DEF ReadLedger, ReadTip, ReadBefore, ReadObjects, ReadingFails
<1>3. obs' = [f \in ObsFields |-> obs'[f]] /\ ObsInv'
  <2>1. obs = [f \in ObsFields |-> obs[f]]
    BY DEF TargetInv, Types
  <2>2. obs.changed # None => obs.bytes = BytesAt(obs.commit)
    BY DEF TargetInv, ObsInv
  <2>3. step # "grade" => obs.changed = None
    BY <1>1 DEF TargetInv, ObsInv, After
  <2>4. UNCHANGED built
    BY <1>1 DEF repoVars
  <2>5. CASE UNCHANGED obs
    BY <1>1, <2>1, <2>3, <2>4, <2>5 DEF ObsInv, Before, After, BytesAt
  <2>6. CASE ReadTip
    <3>1. obs' = [obs EXCEPT !.commit = Tip]
      BY <2>6 DEF ReadTip
    <3>2. obs' = [f \in ObsFields |-> obs'[f]] /\ obs'.changed = obs.changed
      BY <2>1, <3>1 DEF ObsFields
    <3> QED BY <1>1, <2>3, <3>2 DEF ObsInv, After
  <2>7. CASE ReadBefore
    <3>1. obs' = [obs EXCEPT !.before = Previous]
      BY <2>7 DEF ReadBefore
    <3>2. obs' = [f \in ObsFields |-> obs'[f]] /\ obs'.changed = obs.changed
      BY <2>1, <3>1 DEF ObsFields
    <3> QED BY <1>1, <2>3, <3>2 DEF ObsInv, After
  <2>8. CASE ReadObjects
    <3> DEFINE changed == IF obs.before = None THEN None ELSE Diff(obs.before, obs.commit)
    <3>1. obs' = [obs EXCEPT !.bytes = BytesAt(obs.commit), !.changed = changed] /\ step' = "grade"
      BY <2>8 DEF ReadObjects, Reads
    <3> HIDE DEF changed
    <3>2. /\ obs' = [f \in ObsFields |-> obs'[f]]
          /\ obs'.bytes = BytesAt(obs.commit) /\ obs'.commit = obs.commit
      BY <2>1, <3>1 DEF ObsFields
    <3> QED BY <2>4, <3>1, <3>2 DEF ObsInv, Before, After, BytesAt
  <2> QED BY <2>5, <2>6, <2>7, <2>8 DEF ReadLedger, ReadingFails
<1>4. Types'
  BY <1>1, <1>3 DEF TargetInv, Types, After, fileVars, repoVars
<1>5. GradeInv'
  BY <1>1 DEF TargetInv, GradeInv, fileVars, repoVars
<1> QED BY <1>1, <1>2, <1>3, <1>4, <1>5, AfterKeeps DEF After

\* The grade: proven only if the bytes read are those of the file now.
LEMMA GradeKeeps ==
  ASSUME TargetInv, Grade
  PROVE  TargetInv'
<1> DEFINE given == GradeOf(grant.grant, obs, file)
<1>1. /\ step = "grade" /\ step' = "prove" /\ ran' = TRUE
      /\ graded' = [state |-> given, bytes |-> file]
      /\ UNCHANGED <<fileVars, repoVars, grant, ledgerJti, obs>>
  BY DEF Grade
<1>2. ledgerJti' \in {None, grant.grant.jti} /\ HasGrant
  BY <1>1 DEF TargetInv, RefInv, After
<1>3. Types'
  BY <1>1 DEF TargetInv, Types, Before, After, Late, fileVars, repoVars
<1>4. ObsInv'
  BY <1>1 DEF TargetInv, ObsInv, Before, After, BytesAt, repoVars
<1>5. GradeInv'
  <2> SUFFICES ASSUME given = "PROVEN"
               PROVE  built = file /\ (edits < 2 => built = grant.grant.bytes)
    BY <1>1 DEF GradeInv, fileVars, repoVars
  <2>1. /\ obs.commit = "candidate" /\ obs.bytes = file /\ obs.changed # None
    BY Zenon DEF GradeOf
  <2>2. built = file
    BY <2>1 DEF TargetInv, ObsInv, BytesAt
  <2>3. edits < 2 => edits \in {0, 1}
    BY DEF TargetInv, Types
  <2> QED BY <1>2, <2>2, <2>3 DEF TargetInv, FileInv, HasGrant
<1> QED BY <1>1, <1>2, <1>3, <1>4, <1>5, AfterKeeps DEF After

-----------------------------------------------------------------------------
\* Somebody else moves the ref: never in the executor's name.
LEMMA OtherMovesKeeps ==
  ASSUME TargetInv, NEW c \in Commits, OtherMoves(c)
  PROVE  TargetInv'
<1> DEFINE move == [to |-> c, by |-> "other"]
<1>1. /\ step \in Before \cup After /\ reflog' = Append(reflog, move)
      /\ UNCHANGED <<step, fileVars, built, claims, grant, readVars, ran>>
  BY DEF OtherMoves, TargetExists, TargetInv, Types, Late
<1>2. move \in LogEntry /\ move.by # "executor"
  BY DEF LogEntry
<1> HIDE DEF move
<1> USE DEF TargetInv, fileVars, readVars
<1>3. Types'
  BY <1>1, <1>2, LogGrows DEF Types
<1>4. RefInv'
  <2>1. ExecutorMoves' = ExecutorMoves
    BY <1>1, <1>2, LogGrows
  <2>2. MovedOnce => MovedOnce'
    BY <1>1, <1>2, MovedOnceKept
  <2> QED BY <1>1, <2>1, <2>2 DEF RefInv, HasGrant
<1>5. ObsInv' /\ GradeInv'
  BY <1>1 DEF ObsInv, BytesAt, GradeInv
<1>6. FileInv'
  BY <1>1 DEF FileInv
<1> QED BY <1>3, <1>4, <1>5, <1>6

\* An edit makes a version that nothing was built from yet, if it is the first.
LEMMA EditKeeps ==
  ASSUME TargetInv, NEW b \in Bytes, EditFile(b)
  PROVE  TargetInv'
<1>1. /\ b # file /\ file' = b /\ edits' = edits + 1
      /\ UNCHANGED <<step, repoVars, grant, readVars, ran>>
  BY DEF EditFile
<1> USE DEF TargetInv, repoVars, readVars
<1>2. edits \in Nat
  BY DEF Types
<1>3. Types'
  BY <1>1 DEF Types
<1>4. RefInv'
  BY <1>1 DEF RefInv, HasGrant, MovedOnce, ExecutorMoves
<1>5. ObsInv'
  BY <1>1 DEF ObsInv, BytesAt
<1>6. FileInv'
  BY <1>1, <1>2 DEF FileInv
<1>7. GradeInv'
  BY <1>1, <1>2 DEF GradeInv
<1> QED BY <1>3, <1>4, <1>5, <1>6, <1>7

\* The rest of the run leaves the target alone.
LEMMA LateKeeps ==
  ASSUME TargetInv, step \in Late, step' \in Late,
         UNCHANGED <<fileVars, repoVars, grant, readVars, ran>>
  PROVE  TargetInv'
<1> USE DEF TargetInv, fileVars, repoVars, readVars
<1>1. Types'
  BY DEF Types, Before, After, Late
<1>2. RefInv'
  BY DEF RefInv, HasGrant, MovedOnce, ExecutorMoves, Before, After, Late
<1>3. ObsInv'
  BY DEF ObsInv, BytesAt, Before, After, Late
<1>4. FileInv' /\ GradeInv'
  BY DEF FileInv, GradeInv, Before, After, Late
<1> QED BY <1>1, <1>2, <1>3, <1>4

\* A run begins with an empty ledger and nothing observed.
LEMMA InitTarget == Init => TargetInv
<1> SUFFICES ASSUME Init PROVE TargetInv
  OBVIOUS
<1> USE DEF Init, TargetInit
<1>1. Types
  <2>1. obs = Nothing /\ Nothing = [f \in ObsFields |-> Nothing[f]]
    BY DEF Nothing, ObsFields
  <2>2. reflog = <<>> /\ <<>> \in Seq(LogEntry)
    OBVIOUS
  <2> QED BY <2>1, <2>2 DEF Types, Before, After
<1>2. RefInv
  BY DEF RefInv, Before, After, ExecutorMoves
<1>3. ObsInv
  BY DEF ObsInv, Nothing
<1>4. FileInv
  BY DEF FileInv, Before, After
<1>5. GradeInv
  BY NoneAssumption DEF GradeInv, Ungraded
<1> QED BY <1>1, <1>2, <1>3, <1>4, <1>5 DEF TargetInv

\* Every step of the target, and of those around it.
LEMMA TargetNextKeeps ==
  ASSUME TargetInv, TargetNext \/ Around
  PROVE  TargetInv'
<1>1. ASSUME CannotHost \/ TargetThrows PROVE TargetInv'
  <2>1. NotRun /\ UNCHANGED <<file, edits>>
    BY <1>1, Zenon DEF CannotHost, TargetThrows, fileVars
  <2> QED BY <2>1, NotRunKeeps
<1>2. ASSUME Verify \/ HostTries \/ Restore PROVE TargetInv'
  BY <1>2, HostKeeps
<1>3. ASSUME ReadLedger \/ ReadTip \/ ReadBefore \/ ReadObjects \/ ReadingFails PROVE TargetInv'
  BY <1>3, ReadingsKeep
<1> QED BY <1>1, <1>2, <1>3, BuildKeeps, IssueKeeps, ExecuteKeeps, ReplayKeeps, GradeKeeps,
           OtherMovesKeeps, EditKeeps, Zenon DEF TargetNext, Around

\* Every step after the target.
LEMMA ChainNextKeeps ==
  ASSUME TargetInv,
         \/ Prove \/ NoDatabase \/ Verdict
         \/ \E rb, clean : Chain(rb, clean)
         \/ \E blocks, reaches : Offline(blocks, reaches)
  PROVE  TargetInv'
<1>1. /\ step \in Late /\ step' \in Late
      /\ UNCHANGED <<fileVars, repoVars, grant, readVars, ran>>
  BY Zenon DEF Prove, ProveOn, NoDatabase, Verdict, Chain, Offline, Late
<1> QED BY <1>1, LateKeeps

\* The invariant of the target is inductive.
LEMMA TargetStep == TargetInv /\ [Next]_vars => TargetInv'
<1> SUFFICES ASSUME TargetInv, [Next]_vars PROVE TargetInv'
  OBVIOUS
<1>1. CASE UNCHANGED vars
  BY <1>1 DEF vars, targetVars, TargetInv, Types, RefInv, HasGrant, MovedOnce, ExecutorMoves,
              ObsInv, BytesAt, FileInv, GradeInv
<1>2. CASE Next
  BY <1>1, <1>2, TargetNextKeeps, ChainNextKeeps, Zenon DEF Next, Finished
<1> QED BY <1>1, <1>2

(* For any versions of the contract and any meddling with ref and file: a   *)
(* transition graded proven is the executor's own single move from base,    *)
(* under a claimed grant, of the proposal it was graded on, and of the      *)
(* authorized bytes unless the file was edited back and forth               *)
(* (git-target.js 395-520, target-state-transition.js 230-262).             *)
THEOREM ProvenTransitionsHappened == Spec => []ProvenMeansMoved
<1>1. TargetInv => ProvenMeansMoved
  <2> SUFFICES ASSUME TargetInv, graded.state = "PROVEN"
               PROVE  /\ \E i \in ExecutorMoves : ExecutorMoves = {i} /\ reflog[i - 1].to = "base"
                      /\ grant.grant.jti \in claims
                      /\ built = graded.bytes
                      /\ edits < 2 => built = grant.grant.bytes
    BY DEF ProvenMeansMoved
  <2>1. ran
    BY NoneAssumption DEF TargetInv, Types, RefInv, Ungraded
  <2> QED BY <2>1 DEF TargetInv, RefInv, MovedOnce, GradeInv
<1> QED BY <1>1, InitTarget, TargetStep, PTL DEF Spec

-----------------------------------------------------------------------------
(* What the panels report: of the target's grant if it ran; otherwise, if   *)
(* the executor consumed the grant that was issued, a live one and a row    *)
(* with its bytes.                                                          *)
ReportInv ==
  /\ step \in Before \cup After \cup {"prove"} => issuance = None
  /\ issuance # None /\ ran => issuance = EvaluateIssuance(grant)
  /\ issuance # None /\ ~ran /\ issuance.jti # None /\ issuance.jti = consumed =>
       /\ issuance.source = "live"
       /\ panels = {} => written = [jti |-> issuance.jti, bytes |-> issuance.scope]

\* What the points and continuity stand for until the verdict.
PointInv ==
  step \in {"offline", "verdict"} =>
    /\ 1 \in points => issuance # None /\ issuance.ok
    /\ 2 \in points /\ ran => ledgerJti # None
    /\ continuous /\ ~ran => issuance # None /\ issuance.jti # None /\ issuance.jti = consumed

PassInv == verdict = "PASS" => step = "done"

ChainInv == TargetInv /\ ReportInv /\ PointInv /\ PassInv /\ PassIsOneAuthorization

\* What is issued again as a bearer, or read from the record, is never the minted grant.
LEMMA BearerIsNotMinted ==
  ASSUME NEW q, NEW second \in {Refused} \cup Answers("bearer", q), NEW key
  PROVE  LET e == EvaluateIssuance(IssueAuthorize(key, second))
         IN e.jti # None => e.jti # "mint"
<1> DEFINE doc == IssueAuthorize(key, second)
<1>1. doc = second \/ doc = Recorded
  BY Zenon DEF IssueAuthorize
<1>2. second.grant # None => second.grant.jti = "bearer"
  <2>1. CASE second = Refused
    BY <2>1 DEF Refused
  <2> QED BY <2>1, AnswersAreLive
<1>3. Recorded.grant.jti = "recorded"
  BY DEF Recorded, Document, GrantFor
<1>4. doc.grant # None => doc.grant.jti # "mint"
  BY <1>1, <1>2, <1>3
<1>5. EvaluateIssuance(doc).jti = IF doc.grant = None THEN None ELSE doc.grant.jti
  BY DEF EvaluateIssuance
<1> QED BY <1>4, <1>5, Zenon

\* What an executor that consumed the grant of the issuance wrote is a version.
ScopeInv ==
  issuance # None /\ ~ran /\ issuance.jti # None /\ issuance.jti = consumed =>
    issuance.scope \in Bytes

\* What the panels report, on each of their three grants.
LEMMA ProveReports ==
  ASSUME ChainInv, Prove
  PROVE  ReportInv' /\ (file \in Bytes => ScopeInv')
<1>1. PICK doc \in (IF ran \/ ~env.key THEN {Refused} ELSE Answers("pg", DbQuestion)),
           second \in {Refused} \cup Answers("bearer", Question(None, None, file)),
           broken \in {{}} \cup {{p} : p \in Panels} : ProveOn(doc, second, broken)
  BY Zenon DEF Prove
<1>2. step' = "chain" /\ UNCHANGED <<ran, grant>>
  BY <1>1, Zenon DEF ProveOn
<1>3. CASE ran
  <2>1. Reports(grant, "mint", "row", TRUE, broken)
    BY <1>1, <1>3, Zenon DEF ProveOn
  <2>2. issuance' = EvaluateIssuance(grant)
    BY <2>1 DEF Reports
  <2> QED BY <1>2, <1>3, <2>2 DEF ReportInv, ScopeInv, Before, After
<1>4. CASE ~ran /\ env.key /\ AcquireServerGrant(doc, DbQuestion)
  <2>1. Reports(doc, doc.grant.jti, file, Accepts(doc.grant, file), broken)
    BY <1>1, <1>4, Zenon DEF ProveOn
  <2>2. /\ doc.grant # None /\ doc.grant.bytes = DbQuestion.bytes /\ doc.source = "live"
        /\ DbQuestion.bytes = file
    <3>1. doc \in Answers("pg", DbQuestion)
      BY <1>4
    <3> QED BY <1>4, <3>1, AnswersAreLive DEF AcquireServerGrant, DbQuestion, Question
  <2>3. /\ issuance' = EvaluateIssuance(doc)
        /\ panels' = {} => written' = [jti |-> doc.grant.jti, bytes |-> file]
    BY <2>1, Zenon DEF Reports
  <2>4. issuance'.source = "live" /\ issuance'.jti = doc.grant.jti /\ issuance'.scope = file
    BY <2>2, <2>3 DEF EvaluateIssuance
  <2> QED BY <1>2, <1>4, <2>3, <2>4 DEF ReportInv, ScopeInv, Before, After
<1>5. CASE ~ran /\ ~(env.key /\ AcquireServerGrant(doc, DbQuestion))
  <2>1. Reports(IssueAuthorize(env.key, second), "mint", "row", TRUE, broken)
    BY <1>1, <1>5, Zenon DEF ProveOn
  <2>2. issuance' = EvaluateIssuance(IssueAuthorize(env.key, second)) /\ consumed' = "mint"
    BY <2>1 DEF Reports
  <2>3. issuance'.jti # None => issuance'.jti # "mint"
    BY <2>2, BearerIsNotMinted
  <2> QED BY <1>2, <1>5, <2>2, <2>3 DEF ReportInv, ScopeInv, Before, After
<1> QED BY <1>3, <1>4, <1>5

\* The points and the continuity that the chain works out.
LEMMA ChainPoints ==
  ASSUME NEW rb, NEW clean, Chain(rb, clean)
  PROVE  PointInv'
<1> DEFINE corr == Correlation(rb, clean)
<1>1. /\ points' = Points(rb, corr) /\ continuous' = Continuous(corr)
      /\ UNCHANGED <<ran, issuance, consumed, ledgerJti>>
  BY DEF Chain, readVars, proveVars
<1>2. 1 \in Points(rb, corr) => Authorize
  BY DEF Points
<1>3. 2 \in Points(rb, corr) => GrantIssuance
  BY DEF Points
<1>4. Continuous(corr) /\ ~ran => issuance # None /\ issuance.jti # None /\ issuance.jti = consumed
  BY Zenon DEF Continuous, AssessContinuity
<1> HIDE DEF corr
<1> QED BY <1>1, <1>2, <1>3, <1>4 DEF PointInv, Authorize, GrantIssuance

\* The verdict: what passes was issued live, and its grant did what it was for.
LEMMA VerdictIsEarned ==
  ASSUME ChainInv, Verdict
  PROVE  PassIsOneAuthorization'
<1>1. /\ step = "verdict"
      /\ UNCHANGED <<issuance, ran, claims, ledgerJti, reflog, written>>
      /\ verdict' = IF AllOk THEN "PASS" ELSE "FAIL"
  BY DEF Verdict, repoVars, readVars, proveVars
<1> SUFFICES ASSUME AllOk
             PROVE  PassIsOneAuthorization'
  BY <1>1 DEF PassIsOneAuthorization
<1>2. points = 1..10 /\ panels = {} /\ continuous
  BY DEF AllOk
<1>3. 1 \in points /\ 2 \in points
  BY <1>2
<1>4. /\ issuance # None
      /\ issuance.ok
      /\ ran => ledgerJti # None
      /\ ~ran => issuance.jti # None /\ issuance.jti = consumed
  BY <1>1, <1>2, <1>3 DEF ChainInv, PointInv
<1>5. CASE ran
  <2>1. HasGrant /\ grant.grant.jti \in claims /\ ledgerJti = grant.grant.jti /\ ExecutorMoves # {}
    BY <1>4, <1>5 DEF ChainInv, TargetInv, RefInv, MovedOnce
  <2>2. issuance.source = "live" /\ issuance.jti = grant.grant.jti
    BY <1>4, <1>5, <2>1 DEF ChainInv, ReportInv, EvaluateIssuance, HasGrant
  <2> QED BY <1>1, <1>4, <1>5, <2>1, <2>2 DEF PassIsOneAuthorization, ExecutorMoves
<1>6. CASE ~ran
  <2>1. issuance.source = "live" /\ written = [jti |-> issuance.jti, bytes |-> issuance.scope]
    BY <1>2, <1>4, <1>6 DEF ChainInv, ReportInv
  <2> QED BY <1>1, <1>4, <1>6, <2>1 DEF PassIsOneAuthorization
<1> QED BY <1>5, <1>6

-----------------------------------------------------------------------------
\* At the start nothing is reported and nothing has passed.
LEMMA InitChain == Init => ChainInv
<1> SUFFICES ASSUME Init PROVE ChainInv
  OBVIOUS
<1>1. step = "build" /\ issuance = None /\ verdict = None
  BY DEF Init, TargetInit
<1>2. verdict # "PASS"
  BY <1>1, NoneAssumption
<1> QED BY <1>1, <1>2, InitTarget DEF ChainInv, ReportInv, PointInv, PassInv, PassIsOneAuthorization

\* While the target runs there is no report; an edit or another's move changes none.
LEMMA TargetLeavesReports ==
  ASSUME ChainInv, TargetNext \/ Around, UNCHANGED chainVars
  PROVE  ReportInv' /\ PointInv' /\ PassInv' /\ PassIsOneAuthorization'
<1> USE DEF chainVars, proveVars
<1>1. verdict' # "PASS"
  <2>1. step # "done"
    BY Zenon DEF TargetNext, CannotHost, Build, Issue, Verify, HostTries, Restore, Execute, Replay,
                 ReadLedger, ReadTip, ReadBefore, ReadObjects, ReadingFails, Reads, Grade,
                 TargetThrows, Around, OtherMoves, TargetExists, EditFile
  <2> QED BY <2>1 DEF ChainInv, PassInv
<1>2. CASE Around
  <2>1. UNCHANGED <<step, ran, grant, ledgerJti>>
    BY <1>2, Zenon DEF Around, OtherMoves, EditFile, readVars
  <2> QED BY <1>1, <2>1 DEF ChainInv, ReportInv, PointInv, PassInv, PassIsOneAuthorization
<1>3. CASE TargetNext
  <2>1. step \in Before \cup After /\ step' \in Before \cup After \cup {"prove"}
    BY <1>3 DEF TargetNext, CannotHost, Build, Issue, Verify, HostTries, Restore, Execute, Replay,
                ReadLedger, ReadTip, ReadBefore, ReadObjects, ReadingFails, Reads, Grade,
                TargetThrows, NotRun, Before, After
  <2>2. issuance' = None
    BY <2>1 DEF ChainInv, ReportInv
  <2> QED BY <1>1, <2>1, <2>2 DEF ReportInv, PointInv, PassInv, PassIsOneAuthorization, Before, After
<1> QED BY <1>2, <1>3

\* The steps of the rest of the run, each with what it reports.
LEMMA ReportsAreKept ==
  ASSUME ChainInv,
         \/ Prove \/ NoDatabase \/ Verdict
         \/ \E rb, clean : Chain(rb, clean)
         \/ \E blocks, reaches : Offline(blocks, reaches)
  PROVE  ReportInv' /\ PointInv' /\ PassInv' /\ PassIsOneAuthorization'
<1> USE DEF proveVars, readVars
<1>1. ASSUME Prove \/ NoDatabase
      PROVE  ReportInv' /\ PointInv' /\ PassInv' /\ PassIsOneAuthorization'
  <2>1. step = "prove" /\ step' = "chain" /\ UNCHANGED verdict
    BY <1>1, Zenon DEF Prove, ProveOn, NoDatabase
  <2>2. ReportInv'
    <3>1. ASSUME NoDatabase PROVE ReportInv'
      <4>1. issuance' = None
        BY <2>1, <3>1 DEF NoDatabase, ChainInv, ReportInv
      <4> QED BY <4>1 DEF ReportInv
    <3> QED BY <1>1, <3>1, ProveReports
  <2>3. verdict' # "PASS"
    BY <2>1 DEF ChainInv, PassInv
  <2> QED BY <2>1, <2>2, <2>3 DEF PointInv, PassInv, PassIsOneAuthorization
<1>2. ASSUME NEW rb, NEW clean, Chain(rb, clean)
      PROVE  ReportInv' /\ PointInv' /\ PassInv' /\ PassIsOneAuthorization'
  <2>1. /\ step = "chain" /\ step' = "offline"
        /\ UNCHANGED <<issuance, consumed, written, panels, ran, grant, verdict>>
    BY <1>2, Zenon DEF Chain
  <2>2. verdict' # "PASS"
    BY <2>1 DEF ChainInv, PassInv
  <2> QED BY <1>2, <2>1, <2>2, ChainPoints
          DEF ChainInv, ReportInv, PassInv, PassIsOneAuthorization, Before, After
<1>3. ASSUME NEW blocks, NEW reaches, Offline(blocks, reaches)
      PROVE  ReportInv' /\ PointInv' /\ PassInv' /\ PassIsOneAuthorization'
  <2>1. /\ step = "offline" /\ step' = "verdict"
        /\ UNCHANGED <<issuance, consumed, written, panels, ran, grant, verdict, ledgerJti, continuous>>
        /\ points' = points \/ points' = points \cup {10}
    BY <1>3, Zenon DEF Offline
  <2>2. verdict' # "PASS"
    BY <2>1 DEF ChainInv, PassInv
  <2>3. (1 \in points' => 1 \in points) /\ (2 \in points' => 2 \in points)
    BY <2>1
  <2>4. PointInv'
    BY <2>1, <2>3 DEF ChainInv, PointInv
  <2> QED BY <2>1, <2>2, <2>4
          DEF ChainInv, ReportInv, PassInv, PassIsOneAuthorization, Before, After
<1>4. ASSUME Verdict
      PROVE  ReportInv' /\ PointInv' /\ PassInv' /\ PassIsOneAuthorization'
  <2>1. /\ step' = "done"
        /\ UNCHANGED <<issuance, consumed, written, panels, ran, grant>>
    BY <1>4, Zenon DEF Verdict
  <2> QED BY <1>4, <2>1, VerdictIsEarned DEF ChainInv, ReportInv, PointInv, PassInv, Before, After
<1> QED BY <1>1, <1>2, <1>3, <1>4

\* Every step of the run keeps what it reports.
LEMMA ChainStep == ChainInv /\ [Next]_vars => ChainInv'
<1> SUFFICES ASSUME ChainInv, [Next]_vars PROVE ChainInv'
  OBVIOUS
<1>1. TargetInv'
  BY TargetStep DEF ChainInv
<1>2. CASE UNCHANGED vars
  BY <1>1, <1>2 DEF vars, targetVars, readVars, chainVars, proveVars, ChainInv, ReportInv, PointInv,
                    PassInv, PassIsOneAuthorization, ExecutorMoves
<1>3. CASE Next
  BY <1>1, <1>2, <1>3, TargetLeavesReports, ReportsAreKept, Zenon DEF Next, Finished, ChainInv
<1> QED BY <1>2, <1>3

(* Whatever the service answers, whichever panels fail and whatever is      *)
(* edited or moved meanwhile: a run that passes is about one live           *)
(* authorization, which the executor consumed and acted upon                *)
(* (prove-all.js 464-470 and 549-560, authorization-continuity.js 55-138).  *)
THEOREM PassesAreAuthorized == Spec => []PassIsOneAuthorization
<1>1. ChainInv => PassIsOneAuthorization
  BY DEF ChainInv
<1> QED BY <1>1, InitChain, ChainStep, PTL DEF Spec

-----------------------------------------------------------------------------
(* Nothing is correlated before the chain; then, where the target did not   *)
(* run, a correlation names the commit of the readback and, in a run that   *)
(* is continuous, the scope of a grant the executor consumed.               *)
BindInv ==
  /\ file \in Bytes
  /\ ScopeInv
  /\ step \in Before \cup After \cup {"prove", "chain"} => correlation = None /\ ~continuous
  /\ ~ran /\ correlation # None => correlation.commit = readback
  /\ ~ran /\ continuous =>
       /\ issuance # None /\ issuance.jti # None /\ issuance.jti = consumed
       /\ correlation # None /\ issuance.scope # None => correlation.scope = issuance.scope
  /\ verdict = "PASS" => continuous

LEMMA InitBind == Init => BindInv
BY TargetAssumption, NoneAssumption DEF Init, TargetInit, BindInv, ScopeInv

\* The target, and those around it: nothing is correlated yet, or nothing of it changes.
LEMMA TargetLeavesBindings ==
  ASSUME ChainInv, BindInv, TargetNext \/ Around, UNCHANGED chainVars
  PROVE  BindInv'
<1> USE DEF chainVars, proveVars
<1>1. CASE Around
  <2>1. UNCHANGED <<step, ran>> /\ file' \in Bytes
    BY <1>1, Zenon DEF Around, OtherMoves, EditFile, fileVars, BindInv
  <2> QED BY <2>1 DEF BindInv, ScopeInv
<1>2. CASE TargetNext
  <2>1. step \in Before \cup After /\ step' \in Before \cup After \cup {"prove"} /\ file' = file
    BY <1>2 DEF TargetNext, CannotHost, Build, Issue, Verify, HostTries, Restore, Execute, Replay,
                ReadLedger, ReadTip, ReadBefore, ReadObjects, ReadingFails, Reads, Grade,
                TargetThrows, NotRun, Before, After, fileVars
  <2>2. correlation' = None /\ ~continuous' /\ issuance' = None
    BY <2>1 DEF BindInv, ChainInv, ReportInv
  <2> QED BY <2>1, <2>2 DEF BindInv, ScopeInv
<1> QED BY <1>1, <1>2

\* A correlation, where there is one, binds the file as it is to what was read back.
LEMMA CorrelationOf ==
  ASSUME NEW rb, NEW clean, Correlation(rb, clean) # None
  PROVE  /\ Correlation(rb, clean).scope = file
         /\ ~ran => rb \in Bytes /\ Correlation(rb, clean).commit = rb
<1>1. ASSUME NEW scope, NEW commit, NEW seen, Correlate(scope, commit, seen) # None
      PROVE  /\ Correlate(scope, commit, seen).scope = scope
             /\ Correlate(scope, commit, seen).commit = seen
  BY <1>1 DEF Correlate
<1>2. CASE ran
  <2>1. Correlation(rb, clean) = Correlate(file, "candidate", obs.commit)
    BY <1>2, Zenon DEF Correlation, GovernedScope
  <2> QED BY <1>1, <1>2, <2>1
<1>3. CASE ~ran
  <2>1. rb \in Bytes /\ Correlation(rb, clean) = Correlate(file, SourceCommit(clean), rb)
    BY <1>3, Zenon DEF Correlation, GovernedScope
  <2> QED BY <1>1, <1>3, <2>1
<1> QED BY <1>2, <1>3

LEMMA ChainBinds ==
  ASSUME BindInv, NEW rb, NEW clean, Chain(rb, clean)
  PROVE  BindInv'
<1> DEFINE corr == Correlation(rb, clean)
<1>1. /\ step = "chain" /\ step' = "offline"
      /\ correlation' = corr /\ continuous' = Continuous(corr)
      /\ readback' = IF rb \in Bytes THEN rb ELSE None
      /\ UNCHANGED <<file, ran, issuance, consumed, verdict>>
  BY DEF Chain, fileVars, proveVars
<1>2. corr # None /\ ~ran => corr.commit = readback'
  BY <1>1, CorrelationOf
<1>3. Continuous(corr) /\ ~ran =>
        /\ issuance # None /\ issuance.jti # None /\ issuance.jti = consumed
        /\ corr # None /\ issuance.scope # None => corr.scope = issuance.scope
  <2> HIDE DEF corr
  <2> QED BY Zenon DEF Continuous, AssessContinuity
<1>4. verdict' # "PASS"
  BY <1>1 DEF BindInv
<1> HIDE DEF corr
<1> QED BY <1>1, <1>2, <1>3, <1>4 DEF BindInv, ScopeInv, Before, After

LEMMA BindingsAreKept ==
  ASSUME ChainInv, BindInv,
         \/ Prove \/ NoDatabase \/ Verdict
         \/ \E rb, clean : Chain(rb, clean)
         \/ \E blocks, reaches : Offline(blocks, reaches)
  PROVE  BindInv'
<1> USE DEF proveVars, fileVars
<1>1. ASSUME Prove \/ NoDatabase PROVE BindInv'
  <2>1. /\ step = "prove" /\ step' = "chain"
        /\ UNCHANGED <<file, ran, correlation, continuous, verdict>>
    BY <1>1, Zenon DEF Prove, ProveOn, NoDatabase
  <2>2. correlation' = None /\ ~continuous' /\ verdict' # "PASS" /\ file' \in Bytes
    BY <2>1 DEF BindInv
  <2>3. ScopeInv'
    <3>1. ASSUME NoDatabase PROVE ScopeInv'
      BY <2>1, <3>1 DEF NoDatabase, BindInv, ScopeInv
    <3> QED BY <1>1, <3>1, ProveReports DEF BindInv
  <2> QED BY <2>1, <2>2, <2>3 DEF BindInv
<1>2. ASSUME NEW blocks, NEW reaches, Offline(blocks, reaches) PROVE BindInv'
  <2>1. /\ step = "offline" /\ step' = "verdict"
        /\ UNCHANGED <<file, ran, issuance, consumed, readback, correlation, continuous, verdict>>
    BY <1>2, Zenon DEF Offline
  <2> QED BY <2>1 DEF BindInv, ScopeInv, Before, After
<1>3. ASSUME Verdict PROVE BindInv'
  <2>1. /\ step' = "done" /\ (verdict' = "PASS" => continuous)
        /\ UNCHANGED <<file, ran, issuance, consumed, readback, correlation, continuous>>
    BY <1>3 DEF Verdict, AllOk
  <2> QED BY <2>1 DEF BindInv, ScopeInv, Before, After
<1> QED BY <1>1, <1>2, <1>3, ChainBinds

LEMMA BindStep == ChainInv /\ BindInv /\ [Next]_vars => BindInv'
<1> SUFFICES ASSUME ChainInv, BindInv, [Next]_vars PROVE BindInv'
  OBVIOUS
<1>1. CASE UNCHANGED vars
  BY <1>1 DEF vars, targetVars, chainVars, proveVars, BindInv, ScopeInv
<1>2. CASE Next
  BY <1>1, <1>2, TargetLeavesBindings, BindingsAreKept, Zenon DEF Next, Finished
<1> QED BY <1>1, <1>2

(* A run without the target that passes on a readback: the commit read back *)
(* is the one correlated, and its bytes are those that were authorized and  *)
(* written (e2e-chain.js 405-509, authorization-continuity.js 55-138).      *)
THEOREM ReadbacksAreOfTheGrant == Spec => []ReadbackIsOfTheGrant
<1>1. ChainInv /\ BindInv => ReadbackIsOfTheGrant
  <2> SUFFICES ASSUME ChainInv, BindInv, verdict = "PASS", ~ran, correlation # None
               PROVE  /\ correlation.commit = readback
                      /\ correlation.scope = issuance.scope /\ correlation.scope = written.bytes
    BY DEF ReadbackIsOfTheGrant
  <2>1. issuance # None /\ issuance.jti # None /\ issuance.jti = consumed
    BY DEF BindInv
  <2>2. issuance.scope # None
    BY <2>1, NoneIsNothing DEF BindInv, ScopeInv
  <2>3. written = [jti |-> issuance.jti, bytes |-> issuance.scope]
    BY DEF ChainInv, PassIsOneAuthorization
  <2> QED BY <2>2, <2>3 DEF BindInv
<1> QED BY <1>1, InitChain, ChainStep, InitBind, BindStep, PTL DEF Spec

-----------------------------------------------------------------------------
Honest == calm /\ env.key /\ env.keysAgree

MoveEntry == [to |-> "candidate", by |-> "executor"]

\* What the log shows before, and after, the executor's move.
AtBase == Len(reflog) = 1 /\ reflog[1].to = "base"
MovedOn == Len(reflog) = 2 /\ reflog[1].to = "base" /\ reflog[2].to = "candidate"

\* What is appended to a log of one entry is its second.
LEMMA Appended ==
  ASSUME NEW S, NEW log \in Seq(S), NEW e \in S
  PROVE  /\ Len(Append(log, e)) = Len(log) + 1
         /\ \A i \in 1..Len(log) : Append(log, e)[i] = log[i]
         /\ Append(log, e)[Len(log) + 1] = e
<1>1. Len(Append(log, e)) = Len(log) + 1
  OBVIOUS
<1>2. \A i \in 1..Len(log) : Append(log, e)[i] = log[i]
  OBVIOUS
<1>3. Append(log, e)[Len(log) + 1] = e
  OBVIOUS
<1> QED BY <1>1, <1>2, <1>3

LEMMA SecondEntry ==
  ASSUME NEW S, NEW log \in Seq(S), NEW e \in S, Len(log) = 1
  PROVE  Len(Append(log, e)) = 2 /\ Append(log, e)[1] = log[1] /\ Append(log, e)[2] = e
<1>1. 1 \in 1..Len(log) /\ Len(log) + 1 = 2
  OBVIOUS
<1>2. Append(log, e)[1] = log[1]
  <2>1. \A i \in 1..Len(log) : Append(log, e)[i] = log[i]
    BY Appended
  <2> QED BY <1>1, <2>1, Zenon
<1>3. Len(Append(log, e)) = Len(log) + 1 /\ Append(log, e)[Len(log) + 1] = e
  BY Appended
<1> QED BY <1>1, <1>2, <1>3, Zenon

(* The target of an undisturbed run: nobody but the executor moves the ref, *)
(* its grant is claimed and the replay refused, what is observed is that    *)
(* move, and it grades proven.  A target that is given up may be forgotten. *)
CalmTarget ==
  Honest =>
    /\ step \in {"issue", "verify", "host", "execute"} \/ (step = "restore" /\ env.enforced) => AtBase
    /\ step \in After => MovedOn
    /\ step \in (Before \ {"build"}) \cup After => built = file
    /\ step \in (Before \ {"build", "issue"}) \cup After \/ ran =>
         /\ EvaluateIssuance(grant).ok /\ EvaluateIssuance(grant) # None
         /\ grant.grant.jti = "git"
    /\ step \in After \ {"replay"} \/ ran => refused
    /\ step \in After \ {"replay", "ledger"} \/ ran => ledgerJti = "git"
    /\ step \in {"before", "objects", "grade"} \/ ran => obs.commit = "candidate"
    /\ step \in {"objects", "grade"} => obs.before = "base"
    /\ step = "grade" => obs.bytes = file /\ obs.changed = {ContractPath}
    /\ ran => graded.state = "PROVEN"

(* The rest of it: every panel holds on the grant of the run, every point   *)
(* is made, and the run is continuous.                                      *)
CalmChain ==
  Honest =>
    /\ step \in {"chain", "offline", "verdict"} =>
         /\ token /\ panels = {}
         /\ issuance # None /\ issuance.ok
         /\ ~ran => issuance.jti # None /\ issuance.jti = consumed /\ issuance.scope = file
    /\ step \in {"offline", "verdict"} =>
         /\ 1..9 \subseteq points /\ points \subseteq 1..10 /\ continuous
         /\ correlation # None => correlation.scope = file
    /\ step = "verdict" => 10 \in points
    /\ step = "done" => verdict = "PASS"

CalmInv == CalmTarget /\ CalmChain

LEMMA InitCalm == Init => CalmInv
BY DEF Init, TargetInit, CalmInv, CalmTarget, CalmChain, Before, After

\* A target that is given up leaves nothing that a calm run could miss.
LEMMA NotRunCalm ==
  ASSUME CalmInv, NotRun
  PROVE  CalmInv'
BY DEF NotRun, CalmInv, CalmTarget, CalmChain, AtBase, MovedOn, Before, After

\* The exact answer is taken, and stands for a decision.
LEMMA ExactIsSound ==
  ASSUME NEW jti \in {"git", "pg"}, NEW q
  PROVE  /\ Exact(jti, q).grant = GrantFor(jti, q) /\ GrantFor(jti, q).jti = jti
         /\ Exact(jti, q).grant # None =>
              LET e == EvaluateIssuance(Exact(jti, q))
              IN e.ok /\ e.jti = jti /\ e.scope = q.bytes /\ (q.bytes \in Bytes => e # None)
<1> DEFINE doc == Exact(jti, q)
           e   == EvaluateIssuance(doc)
<1>1. /\ doc.grant = GrantFor(jti, q) /\ doc.source = "live"
      /\ doc.chain_receipt = jti /\ doc.decision = TRUE
      /\ GrantFor(jti, q).jti = jti /\ GrantFor(jti, q).receipt = jti /\ GrantFor(jti, q).bytes = q.bytes
      /\ GrantFor(jti, q).kid = "issuer" /\ GrantFor(jti, q).signer = "issuer"
  BY DEF Exact, Document, GrantFor, IssuerKid
<1>2. jti # None
  BY NoneIsNothing
<1> HIDE DEF doc
<1>3. IssuedVerifies(doc)
  BY <1>1, <1>2 DEF IssuedVerifies, Authentic, IssuerKid, DemoKid
<1>4. ASSUME doc.grant # None
      PROVE  e.ok = TRUE /\ e.jti = jti /\ e.scope = q.bytes /\ e.source = "live"
  BY <1>1, <1>3, <1>4 DEF EvaluateIssuance
<1>5. ASSUME doc.grant # None, q.bytes \in Bytes
      PROVE  e # None
  <2>1. e = [ok |-> e.ok, source |-> e.source, jti |-> e.jti, scope |-> e.scope]
    BY DEF EvaluateIssuance
  <2>2. e.ok \in BOOLEAN /\ e.source \in {"live"} /\ e.jti \in {"git", "pg"} /\ e.scope \in Bytes
    BY <1>4, <1>5
  <2> HIDE DEF e
  <2>3. e \in [ok : BOOLEAN, source : {"live"}, jti : {"git", "pg"}, scope : Bytes]
    BY <2>1, <2>2
  <2> QED BY <2>3, NoneIsNothing
<1> HIDE DEF e
<1> QED BY <1>1, <1>4, <1>5, Zenon DEF e, doc

\* From the repository to the executor's turn.
LEMMA BuildCalm ==
  ASSUME TargetInv, CalmInv, CannotHost \/ Build \/ Verify \/ TargetThrows
  PROVE  CalmInv'
<1>1. CASE NotRun
  BY <1>1, NotRunCalm
<1>2. CASE Build
  <2>1. /\ step = "build" /\ step' = "issue" /\ built' = file /\ AtBase'
        /\ UNCHANGED <<env, file, ran, calm>>
    BY <1>2 DEF Build, fileVars, AtBase
  <2>2. ~ran
    BY <2>1 DEF TargetInv, RefInv, Before
  <2> QED BY <2>1, <2>2 DEF CalmInv, CalmTarget, CalmChain, AtBase, MovedOn, Honest, Before, After
<1>3. CASE Verify /\ ~NotRun
  <2>1. step = "verify" /\ step' = "host" /\ UNCHANGED <<env, fileVars, repoVars, grant, readVars, ran, calm>>
    BY <1>3, Zenon DEF Verify
  <2>2. ~ran
    BY <2>1 DEF TargetInv, RefInv, Before
  <2> QED BY <2>1, <2>2 DEF fileVars, repoVars, readVars, CalmInv, CalmTarget, CalmChain, AtBase, MovedOn, Honest,
                            Before, After
<1> QED BY <1>1, <1>2, <1>3, Zenon DEF CannotHost, TargetThrows

\* An exact answer is a grant with a decision behind it, for what was built.
LEMMA IssueCalm ==
  ASSUME TargetInv, CalmInv, file \in Bytes, NEW doc, Issue(doc)
  PROVE  CalmInv'
<1> DEFINE taken == IssueGitGrant(env.key, doc, GitQuestion)
<1>1. CASE NotRun
  BY <1>1, NotRunCalm
<1>2. CASE ~NotRun
  <2>1. /\ taken # None /\ step' = "verify" /\ grant' = taken
        /\ UNCHANGED <<repoVars, readVars, ran>>
    BY <1>2, Zenon DEF Issue
  <2>2. /\ step = "issue" /\ UNCHANGED <<env, fileVars>>
        /\ calm' = (calm /\ doc = Exact("git", GitQuestion))
    BY DEF Issue
  <2>3. taken = doc /\ doc.grant # None
    BY <2>1, Zenon DEF IssueGitGrant
  <2>4. calm' => /\ EvaluateIssuance(grant').ok /\ EvaluateIssuance(grant') # None
                 /\ grant'.grant.jti = "git"
    <3>1. GitQuestion.bytes = file
      BY DEF GitQuestion, Question
    <3>2. grant' = doc /\ (calm' => doc = Exact("git", GitQuestion))
      BY <2>1, <2>2, <2>3
    <3>3. ASSUME doc = Exact("git", GitQuestion)
          PROVE  EvaluateIssuance(doc).ok /\ EvaluateIssuance(doc) # None /\ doc.grant.jti = "git"
      <4>1. doc.grant = GrantFor("git", GitQuestion) /\ GrantFor("git", GitQuestion).jti = "git"
        BY <3>3, ExactIsSound, Zenon
      <4>2. /\ EvaluateIssuance(doc).ok
            /\ GitQuestion.bytes \in Bytes => EvaluateIssuance(doc) # None
        BY <2>3, <3>3, ExactIsSound, Zenon
      <4> QED BY <3>1, <4>1, <4>2
    <3> QED BY <3>2, <3>3
  <2>5. ~ran
    BY <2>2 DEF TargetInv, RefInv, Before
  <2> HIDE DEF taken
  <2> QED BY <2>1, <2>2, <2>4, <2>5 DEF fileVars, repoVars, readVars, CalmInv, CalmTarget, CalmChain, AtBase, MovedOn,
                                         Honest, Before, After
<1> QED BY <1>1, <1>2

\* A host whose mode bits hold gets nowhere, and only then is the run calm.
LEMMA HostCalm ==
  ASSUME TargetInv, CalmInv, HostTries \/ Restore
  PROVE  CalmInv'
<1>1. CASE NotRun
  BY <1>1, NotRunCalm
<1>2. CASE HostTries
  <2>1. /\ step = "host" /\ step' = "restore" /\ (env.enforced => reflog' = reflog)
        /\ UNCHANGED <<env, fileVars, built, grant, readVars, ran, calm>>
    BY <1>2 DEF HostTries
  <2>2. ~ran
    BY <2>1 DEF TargetInv, RefInv, Before
  <2> QED BY <2>1, <2>2 DEF fileVars, readVars, CalmInv, CalmTarget, CalmChain, AtBase, MovedOn, Honest, Before, After
<1>3. CASE Restore /\ ~NotRun
  <2>1. /\ step = "restore" /\ step' = "execute" /\ calm' = (calm /\ env.enforced)
        /\ UNCHANGED <<env, fileVars, built, reflog, grant, readVars, ran>>
    BY <1>3, Zenon DEF Restore
  <2>2. ~ran
    BY <2>1 DEF TargetInv, RefInv, Before
  <2> QED BY <2>1, <2>2 DEF fileVars, readVars, CalmInv, CalmTarget, CalmChain, AtBase, MovedOn, Honest, Before, After
<1> QED BY <1>1, <1>2, <1>3

\* The executor's move is the second entry; the replay adds none.
LEMMA ExecuteCalm ==
  ASSUME TargetInv, CalmInv, Execute \/ Replay
  PROVE  CalmInv'
<1>1. CASE NotRun
  BY <1>1, NotRunCalm
<1>2. CASE Execute /\ ~NotRun
  <2>1. /\ step = "execute" /\ step' = "replay" /\ Land(grant.grant.jti)
        /\ UNCHANGED <<env, fileVars, built, grant, readVars, ran, calm>>
    BY <1>2, Zenon DEF Execute
  <2>2. AtBase => MovedOn'
    <3>1. reflog' = Append(reflog, MoveEntry)
      BY <2>1, Zenon DEF Land, MoveEntry
    <3>2. reflog \in Seq(LogEntry) /\ MoveEntry \in LogEntry /\ MoveEntry.to = "candidate"
      BY DEF TargetInv, Types, MoveEntry, LogEntry, Commits
    <3>3. ASSUME Len(reflog) = 1
          PROVE  Len(reflog') = 2 /\ reflog'[1] = reflog[1] /\ reflog'[2] = MoveEntry
      BY <3>1, <3>2, <3>3, SecondEntry
    <3> QED BY <3>2, <3>3 DEF AtBase, MovedOn
  <2>3. ~ran
    BY <2>1 DEF TargetInv, RefInv, Before
  <2> HIDE DEF Land
  <2> QED BY <2>1, <2>2, <2>3 DEF fileVars, readVars, CalmInv, CalmTarget, CalmChain, AtBase, MovedOn, Honest, Before, After
<1>3. CASE Replay
  <2>1. /\ step = "replay" /\ step' = "ledger"
        /\ refused' = (Attempt(grant.grant.jti) = "GRANT_CONSUMED")
        /\ UNCHANGED <<env, fileVars, built, grant, ledgerJti, obs, graded, ran, calm>>
    BY <1>3 DEF Replay
  <2>2. Attempt(grant.grant.jti) = "GRANT_CONSUMED" /\ ~ran
    BY <2>1 DEF TargetInv, RefInv, After, Attempt
  <2>3. UNCHANGED reflog
    BY <1>3, <2>2, Zenon DEF Replay
  <2> QED BY <2>1, <2>2, <2>3 DEF fileVars, CalmInv, CalmTarget, CalmChain, AtBase, MovedOn, Honest, Before, After
<1> QED BY <1>1, <1>2, <1>3

\* What each reading finds after the move, and that it grades proven.
LEMMA ReadingsCalm ==
  ASSUME TargetInv, CalmInv,
         ReadLedger \/ ReadTip \/ ReadBefore \/ ReadObjects \/ ReadingFails \/ Grade
  PROVE  CalmInv'
<1> SUFFICES ASSUME Honest' PROVE CalmInv'
  BY DEF CalmInv, CalmTarget, CalmChain, AtBase, MovedOn
<1>1. /\ step \in After \ {"replay"} /\ step' \in After \cup {"prove"} /\ Honest
      /\ UNCHANGED <<env, fileVars, repoVars, grant, refused>>
  BY Zenon DEF ReadLedger, ReadTip, ReadBefore, ReadObjects, ReadingFails, Reads, Grade, After, Honest
<1>2. /\ MovedOn /\ built = file /\ refused
      /\ EvaluateIssuance(grant).ok /\ EvaluateIssuance(grant) # None
      /\ grant.grant.jti = "git"
  BY <1>1 DEF CalmInv, CalmTarget, After
<1>3. /\ grant.grant.jti \in claims /\ ~ran
  BY <1>1 DEF TargetInv, RefInv
<1>4. Tip = "candidate" /\ Previous = "base"
  BY <1>2 DEF Tip, Previous, MovedOn
<1>5. obs = [f \in ObsFields |-> obs[f]]
  BY DEF TargetInv, Types
<1> USE DEF fileVars, repoVars
<1>6. CASE ReadLedger
  <2>1. step = "ledger" /\ step' = "tip" /\ ledgerJti' = "git" /\ UNCHANGED <<obs, graded, ran>>
    BY <1>2, <1>3, <1>6 DEF ReadLedger, Reads
  <2> QED BY <1>1, <1>2, <1>3, <2>1 DEF CalmInv, CalmTarget, CalmChain, AtBase, MovedOn, Before, After
<1>7. CASE ReadTip
  <2>1. step = "tip" /\ step' = "before" /\ UNCHANGED <<ledgerJti, graded, ran>>
    BY <1>7 DEF ReadTip, Reads
  <2>2. obs'.commit = "candidate"
    BY <1>4, <1>5, <1>7 DEF ReadTip, ObsFields
  <2>3. ledgerJti = "git"
    BY <1>1, <2>1 DEF CalmInv, CalmTarget, After
  <2> QED BY <1>1, <1>2, <1>3, <2>1, <2>2, <2>3 DEF CalmInv, CalmTarget, CalmChain, AtBase, MovedOn, Before, After
<1>8. CASE ReadBefore
  <2>1. step = "before" /\ step' = "objects" /\ UNCHANGED <<ledgerJti, graded, ran>>
    BY <1>8 DEF ReadBefore, Reads
  <2>2. ledgerJti = "git" /\ obs.commit = "candidate"
    BY <1>1, <2>1 DEF CalmInv, CalmTarget, After
  <2>3. obs'.commit = "candidate" /\ obs'.before = "base"
    BY <1>4, <1>5, <1>8, <2>2 DEF ReadBefore, ObsFields
  <2> QED BY <1>1, <1>2, <1>3, <2>1, <2>2, <2>3 DEF CalmInv, CalmTarget, CalmChain, AtBase, MovedOn, Before, After
<1>9. CASE ReadObjects
  <2> DEFINE changed == IF obs.before = None THEN None ELSE Diff(obs.before, obs.commit)
  <2>1. /\ step = "objects" /\ step' = "grade" /\ UNCHANGED <<ledgerJti, graded, ran>>
        /\ obs' = [obs EXCEPT !.bytes = BytesAt(obs.commit), !.changed = changed]
    BY <1>9 DEF ReadObjects, Reads
  <2>2. ledgerJti = "git" /\ obs.commit = "candidate" /\ obs.before = "base"
    BY <1>1, <2>1 DEF CalmInv, CalmTarget, After
  <2>3. changed = {ContractPath} /\ BytesAt(obs.commit) = file
    BY <1>2, <2>2, NoneIsNothing DEF Diff, BytesAt, Commits
  <2> HIDE DEF changed
  <2>4. /\ obs'.commit = "candidate" /\ obs'.before = "base"
        /\ obs'.bytes = file /\ obs'.changed = {ContractPath}
    BY <1>5, <2>1, <2>2, <2>3 DEF ObsFields
  <2> QED BY <1>1, <1>2, <1>3, <2>1, <2>2, <2>4 DEF CalmInv, CalmTarget, CalmChain, AtBase, MovedOn, Before, After
<1>10. ~ReadingFails
  BY <1>1 DEF ReadingFails, Honest
<1>11. CASE Grade
  <2>1. /\ step = "grade" /\ step' = "prove" /\ ran' = TRUE /\ UNCHANGED <<ledgerJti, obs>>
        /\ graded'.state = GradeOf(grant.grant, obs, file)
    BY <1>11 DEF Grade
  <2>2. /\ ledgerJti = "git" /\ obs.commit = "candidate" /\ obs.before = "base"
        /\ obs.bytes = file /\ obs.changed = {ContractPath}
    BY <1>1, <2>1 DEF CalmInv, CalmTarget, After
  <2>3. Attested(AttestTransition(grant.grant, obs), grant.grant, obs)
    BY <1>1, Zenon DEF Attested, Honest
  <2>4. obs.commit # None /\ obs.changed # None
    BY <2>2, NoneIsNothing DEF Commits
  <2>5. graded'.state = "PROVEN"
    BY <2>1, <2>2, <2>3, <2>4 DEF GradeOf
  <2> QED BY <1>1, <1>2, <1>3, <2>1, <2>2, <2>5 DEF CalmInv, CalmTarget, CalmChain, AtBase, MovedOn, Before, After
<1> QED BY <1>6, <1>7, <1>8, <1>9, <1>10, <1>11

\* Whoever moves the ref or edits the file ends the calm.
LEMMA TargetStaysCalm ==
  ASSUME TargetInv, CalmInv, file \in Bytes, TargetNext \/ Around
  PROVE  CalmInv'
<1>1. ASSUME Around PROVE CalmInv'
  <2>1. ~Honest'
    BY <1>1, Zenon DEF Around, OtherMoves, EditFile, Honest
  <2> QED BY <2>1 DEF CalmInv, CalmTarget, CalmChain, AtBase, MovedOn
<1>2. ASSUME CannotHost \/ Build \/ Verify \/ TargetThrows PROVE CalmInv'
  BY <1>2, BuildCalm
<1>3. ASSUME HostTries \/ Restore PROVE CalmInv'
  BY <1>3, HostCalm
<1>4. ASSUME Execute \/ Replay PROVE CalmInv'
  BY <1>4, ExecuteCalm
<1>5. ASSUME ReadLedger \/ ReadTip \/ ReadBefore \/ ReadObjects \/ ReadingFails \/ Grade
      PROVE  CalmInv'
  BY <1>5, ReadingsCalm
<1> QED BY <1>1, <1>2, <1>3, <1>4, <1>5, IssueCalm, Zenon DEF TargetNext

-----------------------------------------------------------------------------
\* The exact answer for the articles table is acquired, and its grant accepted.
LEMMA ExactIsAccepted ==
  ASSUME file \in Bytes
  PROVE  LET doc == Exact("pg", DbQuestion)
         IN /\ AcquireServerGrant(doc, DbQuestion) /\ Accepts(doc.grant, file)
            /\ EvaluateIssuance(doc).ok /\ EvaluateIssuance(doc).scope = file
            /\ EvaluateIssuance(doc).jti = "pg" /\ doc.grant.jti = "pg"
            /\ EvaluateIssuance(doc) # None
<1> DEFINE doc == Exact("pg", DbQuestion)
<1>1. /\ DbQuestion = Question("db", "db", file)
      /\ DbQuestion.nonce = "ours" /\ DbQuestion.bytes = file
  BY DEF DbQuestion, Question
<1>2. doc.grant = GrantFor("pg", DbQuestion) /\ doc.source = "live"
  BY DEF Exact, Document
<1>3. LET g == GrantFor("pg", DbQuestion)
      IN /\ g.jti = "pg" /\ g.nonce = "ours" /\ g.bytes = file /\ g.state = "db" /\ g.target = "db"
         /\ g.executor = "us" /\ g.current = TRUE /\ g.kid = "issuer" /\ g.signer = "issuer"
  BY DEF GrantFor, DbQuestion, Question, IssuerKid
<1>4. doc.grant # None
  BY <1>1, <1>2, NoneIsNothing
<1>5. /\ EvaluateIssuance(doc).ok /\ EvaluateIssuance(doc).jti = "pg"
      /\ EvaluateIssuance(doc).scope = file /\ EvaluateIssuance(doc) # None
  BY <1>1, <1>4, ExactIsSound
<1> HIDE DEF doc
<1>6. AcquireServerGrant(doc, DbQuestion)
  BY <1>1, <1>2, <1>3, <1>4 DEF AcquireServerGrant
<1>7. Accepts(doc.grant, file)
  BY <1>2, <1>3 DEF Accepts, GrantCurrent, Authentic, IssuerKid
<1> QED BY <1>2, <1>3, <1>5, <1>6, <1>7 DEF doc

\* After the target nothing of it changes.
LEMMA CalmTargetStays ==
  ASSUME CalmInv, step \in Late, step' \in Late, calm' => calm,
         UNCHANGED <<env, fileVars, repoVars, grant, readVars, ran>>
  PROVE  CalmTarget'
BY DEF CalmInv, CalmTarget, AtBase, MovedOn, Honest, fileVars, repoVars, readVars, Before, After, Late

\* Every panel holds, on the target's grant or on the one that was asked for.
LEMMA ProveCalm ==
  ASSUME TargetInv, CalmInv, file \in Bytes, Prove, Honest'
  PROVE  CalmChain'
<1>1. PICK doc \in (IF ran \/ ~env.key THEN {Refused} ELSE Answers("pg", DbQuestion)),
           second \in {Refused} \cup Answers("bearer", Question(None, None, file)),
           broken \in {{}} \cup {{p} : p \in Panels} : ProveOn(doc, second, broken)
  BY Zenon DEF Prove
<1>2. /\ step = "prove" /\ step' = "chain" /\ token' = TRUE
      /\ UNCHANGED <<env, file, grant, ran>>
      /\ calm' = (calm /\ broken = {} /\ (ran \/ doc = Exact("pg", DbQuestion)))
  BY <1>1, Zenon DEF ProveOn, fileVars
<1>3. Honest /\ broken = {} /\ (ran \/ doc = Exact("pg", DbQuestion))
  BY <1>2 DEF Honest
<1>4. CASE ran
  <2>1. Reports(grant, "mint", "row", TRUE, broken)
    BY <1>1, <1>4, Zenon DEF ProveOn
  <2>2. issuance' = EvaluateIssuance(grant) /\ panels' = {}
    BY <1>3, <2>1 DEF Reports
  <2>3. EvaluateIssuance(grant).ok /\ EvaluateIssuance(grant) # None
    BY <1>3, <1>4 DEF CalmInv, CalmTarget
  <2> QED BY <1>2, <1>4, <2>2, <2>3 DEF CalmChain
<1>5. CASE ~ran
  <2>1. /\ AcquireServerGrant(doc, DbQuestion) /\ Accepts(doc.grant, file) /\ doc.grant.jti = "pg"
        /\ EvaluateIssuance(doc).ok /\ EvaluateIssuance(doc) # None
        /\ EvaluateIssuance(doc).scope = file /\ EvaluateIssuance(doc).jti = "pg"
    BY <1>3, <1>5, ExactIsAccepted, Zenon
  <2>2. Reports(doc, doc.grant.jti, file, Accepts(doc.grant, file), broken)
    BY <1>1, <1>3, <1>5, <2>1, Zenon DEF ProveOn, Honest
  <2>3. issuance' = EvaluateIssuance(doc) /\ consumed' = "pg" /\ panels' = {}
    BY <1>3, <2>1, <2>2 DEF Reports
  <2>4. "pg" # None
    BY NoneIsNothing
  <2> QED BY <1>2, <1>5, <2>1, <2>3, <2>4 DEF CalmChain
<1> QED BY <1>4, <1>5

\* What the chain correlates in a calm run, with the target or without it.
LEMMA CorrelationCalm ==
  ASSUME CalmInv, Honest, step = "chain", file \in Bytes, NEW rb, NEW clean,
         ran \/ rb = "none" \/ (rb = file /\ clean)
  PROVE  Merge(rb, Correlation(rb, clean))
<1>1. ASSUME NEW commit \in Bytes \cup Commits PROVE Correlate(file, commit, commit) # None
  <2>1. commit # None /\ env.keysAgree
    BY NoneIsNothing DEF Honest
  <2>2. Correlate(file, commit, commit) = [scope |-> file, commit |-> commit]
    BY <2>1, Zenon DEF Correlate
  <2>3. [scope |-> file, commit |-> commit] \in [scope : Bytes, commit : Bytes \cup Commits]
    OBVIOUS
  <2> QED BY <2>2, <2>3, NoneIsNothing
<1>2. CASE ran
  <2>1. graded.state = "PROVEN" /\ obs.commit = "candidate"
    BY <1>2 DEF CalmInv, CalmTarget
  <2>2. Correlation(rb, clean) = Correlate(file, "candidate", "candidate")
    BY <1>2, <2>1, Zenon DEF Correlation, GovernedScope
  <2> QED BY <1>1, <2>2 DEF Merge, Commits
<1>3. CASE ~ran /\ rb = "none"
  BY <1>3, Zenon DEF Merge
<1>4. CASE ~ran /\ rb = file /\ clean
  <2>1. Correlation(rb, clean) = Correlate(file, file, file)
    BY <1>4, Zenon DEF Correlation, GovernedScope, SourceCommit
  <2> QED BY <1>1, <2>1, Zenon DEF Merge
<1> QED BY <1>2, <1>3, <1>4

\* Each of the nine points is a member of what the chain reports.
LEMMA NinePoints ==
  ASSUME NEW rb, NEW corr, Authorize, GrantIssuance, HostRefused, NonceConsumed, CasHeld,
         Attestation, Gate, Merge(rb, corr), Seal
  PROVE  1..9 \subseteq Points(rb, corr) /\ Points(rb, corr) \subseteq 1..10
<1> DEFINE holds == <<Authorize, GrantIssuance, HostRefused, NonceConsumed, CasHeld,
                      Attestation, Gate, Merge(rb, corr), Seal>>
<1>1. Points(rb, corr) = {n \in 1..9 : holds[n]}
  BY Zenon DEF Points
<1>2. /\ holds[1] = Authorize /\ holds[2] = GrantIssuance /\ holds[3] = HostRefused
      /\ holds[4] = NonceConsumed /\ holds[5] = CasHeld /\ holds[6] = Attestation
      /\ holds[7] = Gate /\ holds[8] = Merge(rb, corr) /\ holds[9] = Seal
  OBVIOUS
<1> HIDE DEF holds
<1>3. \A n \in 1..9 : n \in {1, 2, 3, 4, 5, 6, 7, 8, 9} /\ n \in 1..10
  OBVIOUS
<1> QED BY <1>1, <1>2, <1>3

\* Every point is made, and the run is continuous.
LEMMA ChainCalm ==
  ASSUME TargetInv, CalmInv, file \in Bytes, NEW rb, NEW clean, Chain(rb, clean), Honest'
  PROVE  CalmChain'
<1> DEFINE corr == Correlation(rb, clean)
<1>1. /\ step = "chain" /\ step' = "offline"
      /\ points' = Points(rb, corr) /\ correlation' = corr /\ continuous' = Continuous(corr)
      /\ calm' = (calm /\ (rb = "none" \/ (rb = file /\ clean)))
      /\ UNCHANGED <<env, file, ran, token, panels, issuance, consumed>>
  BY DEF Chain, fileVars, proveVars
<1>2. Honest /\ (rb = "none" \/ (rb = file /\ clean))
  BY <1>1 DEF Honest
<1>3. /\ panels = {} /\ issuance # None /\ issuance.ok /\ token
      /\ ~ran => issuance.jti # None /\ issuance.jti = consumed /\ issuance.scope = file
      /\ env.keysAgree
  BY <1>1, <1>2 DEF CalmInv, CalmChain, Honest
<1>4. ran => /\ refused /\ ledgerJti = "git" /\ grant.grant.jti = "git"
  BY <1>2 DEF CalmInv, CalmTarget
<1>5. "git" # None
  BY NoneIsNothing
<1>6. Merge(rb, corr)
  BY <1>1, <1>2, CorrelationCalm
<1>7. corr # None => corr.scope = file
  BY CorrelationOf
<1> HIDE DEF corr
<1>8. /\ Authorize /\ GrantIssuance /\ HostRefused /\ NonceConsumed /\ CasHeld
      /\ Attestation /\ Gate /\ Seal
  BY <1>3, <1>4, <1>5 DEF Authorize, GrantIssuance, HostRefused, NonceConsumed, CasHeld,
     Attestation, AttestationPoint, Gate, Seal, Passed
<1>9. Continuous(corr)
  <2>1. CASE ran
    BY <1>4, <1>5, <2>1, Zenon DEF Continuous, AssessContinuity
  <2>2. CASE ~ran
    BY <1>3, <1>7, <2>2 DEF Continuous, AssessContinuity
  <2> QED BY <2>1, <2>2
<1>10. 1..9 \subseteq points' /\ points' \subseteq 1..10
  BY <1>1, <1>6, <1>8, NinePoints, Zenon
<1> QED BY <1>1, <1>3, <1>7, <1>9, <1>10 DEF CalmChain

\* The tenth point, offline, and the verdict.
LEMMA VerdictCalm ==
  ASSUME CalmInv, Verdict \/ \E blocks, reaches : Offline(blocks, reaches), Honest'
  PROVE  CalmChain'
<1>1. ASSUME NEW blocks, NEW reaches, Offline(blocks, reaches) PROVE CalmChain'
  <2>1. /\ step = "offline" /\ step' = "verdict"
        /\ points' = IF Point10(blocks, reaches) THEN points \cup {10} ELSE points
        /\ calm' = (calm /\ blocks /\ ~reaches)
        /\ UNCHANGED <<env, file, ran, token, panels, issuance, consumed, correlation, continuous>>
    BY <1>1, Zenon DEF Offline, fileVars, proveVars
  <2>2. Honest /\ blocks /\ ~reaches
    BY <2>1 DEF Honest
  <2>3. /\ token /\ panels = {} /\ issuance # None /\ issuance.ok /\ continuous
        /\ ~ran => issuance.jti # None /\ issuance.jti = consumed /\ issuance.scope = file
        /\ 1..9 \subseteq points /\ points \subseteq 1..10
        /\ correlation # None => correlation.scope = file
    BY <2>1, <2>2 DEF CalmInv, CalmChain
  <2>4. Point10(blocks, reaches)
    BY <2>2, <2>3, Zenon DEF Point10, Transcript, GovernedScope, Honest
  <2>5. points' = points \cup {10} /\ 10 \in 1..10
    BY <2>1, <2>4
  <2>6. 10 \in points' /\ 1..9 \subseteq points' /\ points' \subseteq 1..10
    BY <2>3, <2>5
  <2> QED BY <2>1, <2>3, <2>6 DEF CalmChain
<1>2. ASSUME Verdict PROVE CalmChain'
  <2>1. /\ step = "verdict" /\ step' = "done" /\ verdict' = IF AllOk THEN "PASS" ELSE "FAIL"
        /\ UNCHANGED <<env, calm>>
    BY <1>2 DEF Verdict
  <2>2. /\ Honest /\ token /\ panels = {} /\ continuous
        /\ 1..9 \subseteq points /\ points \subseteq 1..10 /\ 10 \in points
    BY <2>1 DEF CalmInv, CalmChain, Honest
  <2>3. points = 1..10
    <3>1. \A n \in 1..10 : n \in 1..9 \/ n = 10
      OBVIOUS
    <3> QED BY <2>2, <3>1
  <2>4. AllOk
    BY <2>2, <2>3, Zenon DEF AllOk, Transcript, Honest
  <2> QED BY <2>1, <2>4 DEF CalmChain
<1> QED BY <1>1, <1>2

LEMMA CalmStep == TargetInv /\ BindInv /\ CalmInv /\ [Next]_vars => CalmInv'
<1> SUFFICES ASSUME TargetInv, BindInv, CalmInv, [Next]_vars PROVE CalmInv'
  OBVIOUS
<1>1. file \in Bytes
  BY DEF BindInv
<1>2. CASE UNCHANGED vars
  BY <1>2 DEF vars, targetVars, chainVars, proveVars, CalmInv, CalmTarget, CalmChain, AtBase, MovedOn,
              Honest
<1>3. ASSUME \/ Prove \/ NoDatabase \/ Verdict
             \/ \E rb, clean : Chain(rb, clean)
             \/ \E blocks, reaches : Offline(blocks, reaches)
      PROVE  CalmInv'
  <2>1. /\ step \in Late /\ step' \in Late /\ (calm' => calm)
        /\ UNCHANGED <<env, fileVars, repoVars, grant, readVars, ran>>
    <3>1. /\ step \in Late /\ step' \in Late
          /\ UNCHANGED <<env, fileVars, repoVars, grant, readVars, ran>>
      BY <1>3, Zenon DEF Prove, ProveOn, NoDatabase, Verdict, Chain, Offline, Late
    <3>2. (Prove => (calm' => calm)) /\ (NoDatabase => (calm' => calm)) /\ (Verdict => (calm' => calm))
      BY Zenon DEF Prove, ProveOn, NoDatabase, Verdict
    <3>3. /\ (\E rb, clean : Chain(rb, clean)) => (calm' => calm)
          /\ (\E blocks, reaches : Offline(blocks, reaches)) => (calm' => calm)
      BY Zenon DEF Chain, Offline
    <3> QED BY <1>3, <3>1, <3>2, <3>3, Zenon
  <2>2. CASE ~Honest'
    BY <2>2 DEF CalmInv, CalmTarget, CalmChain
  <2>3. ASSUME Honest', NoDatabase PROVE FALSE
    BY <2>3 DEF NoDatabase, Honest
  <2>4. CASE Honest'
    <3>1. CalmChain'
      BY <1>1, <1>3, <2>3, <2>4, ProveCalm, ChainCalm, VerdictCalm
    <3> QED BY <2>1, <3>1, CalmTargetStays DEF CalmInv
  <2> QED BY <2>2, <2>4
<1>4. CASE Next
  BY <1>1, <1>2, <1>3, <1>4, TargetStaysCalm, Zenon DEF Next, Finished
<1> QED BY <1>2, <1>4

(* With exact answers and nothing disturbed, a run with an API key and keys *)
(* that agree always passes: no version of the contract and no way through  *)
(* the target makes one of the ten points fail (e2e-chain.js 163-173,       *)
(* prove-all.js 464-470 and 549-560).                                       *)
THEOREM HonestRunsPass == Spec => []HonestRunPasses
<1>1. CalmInv => HonestRunPasses
  BY DEF CalmInv, CalmChain, Honest, HonestRunPasses
<1>2. Init => ChainInv /\ BindInv /\ CalmInv
  BY InitChain, InitBind, InitCalm
<1>3. ChainInv /\ BindInv /\ CalmInv /\ [Next]_vars => (ChainInv /\ BindInv /\ CalmInv)'
  BY ChainStep, BindStep, CalmStep DEF ChainInv
<1> QED BY <1>1, <1>2, <1>3, PTL DEF Spec
=============================================================================
