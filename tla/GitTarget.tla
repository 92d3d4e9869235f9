----------------------------- MODULE GitTarget -----------------------------
(***************************************************************************)
(* The bare-git target of a proof run (git-target.js): a repository is     *)
(* built, one update of its governed ref is authorized by the live issuer  *)
(* and made as a compare-and-swap through the ledger of consumed grants,   *)
(* and a separate read-only process (git-observer.js) reads the ref, its   *)
(* reflog and the objects, one after the other.  What it read is graded    *)
(* (target-state-transition.js) against the contract file as it is then.   *)
(*                                                                         *)
(* Two others act meanwhile: a process of the same user that moves the     *)
(* ref, and someone who edits the contract file of the checkout, which the *)
(* run reads again at every step that needs the proposed bytes.            *)
(***************************************************************************)
EXTENDS Issuance, Sequences

CONSTANTS
  Bytes,      \* versions of the proposed contract
  First,      \* the one the run begins with
  MaxMoves,   \* bound: moves of the ref by the other process
  MaxEdits    \* bound: edits of the contract file

ASSUME TargetAssumption == First \in Bytes /\ MaxMoves \in Nat /\ MaxEdits \in Nat

VARIABLES
  step,        \* what the run does next
  env,         \* fixed for the run: an API key, a host for git, mode bits
               \* that are enforced, a key pair that agrees
  file,        \* proposedContractBytes() as of now
  edits,
  built,       \* the bytes in the candidate commit
  reflog,      \* values of the governed ref, [to, by], the last is current
  writable,    \* the repository's mode bits
  claims,      \* grants in the ledger of the repository
  grant,       \* the issuance document of the git grant, None without one
  refused,     \* the replay was answered GRANT_CONSUMED
  ledgerJti,   \* the grant read back from the ledger, or None
  obs,         \* the observation, as far as it has come
  graded,      \* [state, bytes]: the grade and the proposal it was given on
  ran,         \* runGitTarget answered ran: true
  calm         \* history: nothing failed, moved or was edited so far

targetVars == <<step, env, file, edits, built, reflog, writable, claims,
                grant, refused, ledgerJti, obs, graded, ran, calm>>

ContractPath == "contract"
Commits == {"base", "candidate", "stray"}

\* What git diff-tree names: base and candidate differ in the contract only.
Diff(a, b) ==
  IF a = b THEN {} ELSE IF "stray" \in {a, b} THEN {ContractPath, "other"} ELSE {ContractPath}

BytesAt(c) == IF c = "candidate" THEN built ELSE Wrong

Nothing == [commit |-> None, before |-> None, bytes |-> None, changed |-> None]

Ungraded == [state |-> None, bytes |-> None]

TargetInit ==
  /\ step = "build"
  /\ env \in [key : BOOLEAN, hosts : BOOLEAN, enforced : BOOLEAN, keysAgree : BOOLEAN]
  /\ file = First /\ edits = 0
  /\ built = None /\ reflog = <<>> /\ writable = TRUE /\ claims = {}
  /\ grant = None /\ refused = FALSE /\ ledgerJti = None
  /\ obs = Nothing /\ graded = Ungraded
  /\ ran = FALSE /\ calm = TRUE

fileVars == <<file, edits>>
repoVars == <<built, reflog, writable, claims>>
readVars == <<refused, ledgerJti, obs, graded>>

Tip == reflog[Len(reflog)].to

\* Mutant: ref@{0}.
NotPrevious == IF Len(reflog) > 1 THEN Tip ELSE None

\* ref@{1}: the value before the last; a first value has none.
Previous == IF Len(reflog) > 1 THEN reflog[Len(reflog) - 1].to ELSE None

-----------------------------------------------------------------------------
(* ran: false: the repository is removed and the run goes on with nothing  *)
(* of it, whatever had happened to it.                                     *)
NotRun ==
  /\ step' = "prove" /\ ran' = FALSE
  /\ built' = None /\ reflog' = <<>> /\ writable' = TRUE /\ claims' = {}
  /\ grant' = None /\ refused' = FALSE /\ ledgerJti' = None
  /\ obs' = Nothing /\ graded' = Ungraded

CannotHost ==
  /\ step = "build" /\ ~env.hosts
  /\ NotRun
  /\ UNCHANGED <<env, fileVars, calm>>

\* buildTarget: base on the governed ref, the candidate parked beside it.
Build ==
  /\ step = "build" /\ env.hosts
  /\ step' = "issue"
  /\ built' = file
  /\ reflog' = <<[to |-> "base", by |-> "build"]>>
  /\ UNCHANGED <<env, fileVars, writable, claims, grant, readVars, ran, calm>>

GitQuestion == Question("base", "git", file)

(* The issue callback: the live grant for this base and these bytes, or     *)
(* none; the target does not mint one of its own in its place.              *)
Issue(doc) ==
  /\ step = "issue"
  /\ LET taken == IssueGitGrant(env.key, doc, GitQuestion)
     IN IF taken = None THEN NotRun
        ELSE step' = "verify" /\ grant' = taken /\ UNCHANGED <<repoVars, readVars, ran>>
  /\ calm' = (calm /\ doc = Exact("git", GitQuestion))
  /\ UNCHANGED <<env, fileVars>>

\* Nothing is written on a grant that does not verify against the file as it is.
Verify ==
  /\ step = "verify"
  /\ IF GrantCurrent(grant.grant, "git", file)
     THEN step' = "host" /\ UNCHANGED <<repoVars, grant, readVars, ran>> ELSE NotRun
  /\ UNCHANGED <<env, fileVars, calm>>

(* The host role: write bits off, then git update-ref candidate base.       *)
HostTries ==
  /\ step = "host"
  /\ step' = "restore" /\ writable' = FALSE
  /\ reflog' = IF ~env.enforced /\ Tip = "base"
               THEN Append(reflog, [to |-> "candidate", by |-> "host"]) ELSE reflog
  /\ UNCHANGED <<env, fileVars, built, claims, grant, readVars, ran, calm>>

\* The host's update-ref exited 0: an update of its own is in the reflog.
HostGotThrough == \E i \in DOMAIN reflog : reflog[i].by = "host"

(* Write bits on; the target stops if the host got through, even when the   *)
(* ref was put back since, or the ref is not at base.  (The observer then   *)
(* refuses to be told a commit, always.)                                    *)
Restore ==
  /\ step = "restore"
  /\ IF Tip = "base" /\ ~HostGotThrough
     THEN /\ step' = "execute" /\ writable' = TRUE
          /\ UNCHANGED <<built, reflog, claims, grant, readVars, ran>>
     ELSE NotRun
  /\ calm' = (calm /\ env.enforced)
  /\ UNCHANGED <<env, fileVars>>

(* gitAtomicExecute: the claim and the move base -> candidate as one        *)
(* transaction of refs.                                                     *)
Attempt(jti) ==
  IF jti \in claims THEN "GRANT_CONSUMED" ELSE IF Tip # "base" THEN "REF_MOVED" ELSE "OK"

Land(jti) ==
  /\ reflog' = Append(reflog, [to |-> "candidate", by |-> "executor"])
  /\ claims' = claims \cup {jti}

Execute ==
  /\ step = "execute"
  /\ IF Attempt(grant.grant.jti) = "OK"
     THEN /\ Land(grant.grant.jti) /\ step' = "replay"
          /\ UNCHANGED <<built, writable, grant, readVars, ran>>
     ELSE NotRun
  /\ UNCHANGED <<env, fileVars, calm>>

(* Any step on the repository may throw: git dies, or its answer is lost    *)
(* when the update has landed; what landed goes with the repository.        *)
TargetThrows ==
  /\ step \in {"build", "issue", "host", "restore", "execute", "replay", "tip"}
  /\ NotRun /\ calm' = FALSE
  /\ UNCHANGED <<env, fileVars>>

\* The same grant again; only the ledger's refusal counts as one.
Replay ==
  /\ step = "replay"
  /\ step' = "ledger"
  /\ refused' = (Attempt(grant.grant.jti) = "GRANT_CONSUMED")
  /\ IF Attempt(grant.grant.jti) = "OK" THEN Land(grant.grant.jti) ELSE UNCHANGED <<reflog, claims>>
  /\ UNCHANGED <<env, fileVars, built, writable, grant, ledgerJti, obs, graded, ran, calm>>

-----------------------------------------------------------------------------
(* The readings, each of which may fail.                                   *)
Reads(at, then) == step = at /\ step' = then /\ UNCHANGED <<env, fileVars, repoVars, grant, refused>>

ReadLedger ==
  /\ Reads("ledger", "tip")
  /\ ledgerJti' = IF grant.grant.jti \in claims THEN grant.grant.jti ELSE None
  /\ UNCHANGED <<obs, graded, ran, calm>>

ReadTip ==
  /\ Reads("tip", "before")
  /\ obs' = [obs EXCEPT !.commit = Tip]
  /\ UNCHANGED <<ledgerJti, graded, ran, calm>>

ReadBefore ==
  /\ Reads("before", "objects")
  /\ obs' = [obs EXCEPT !.before = Previous]
  /\ UNCHANGED <<ledgerJti, graded, ran, calm>>

\* The bytes at the commit and the paths that changed: objects never change.
ReadObjects ==
  /\ Reads("objects", "grade")
  /\ obs' = [obs EXCEPT !.bytes = BytesAt(obs.commit),
                        !.changed = IF obs.before = None THEN None ELSE Diff(obs.before, obs.commit)]
  /\ UNCHANGED <<ledgerJti, graded, ran, calm>>

(* A reading fails: the ledger's gives None; the ref's READBACK_UNAVAILABLE,*)
(* which leaves the observation empty; the others are reported as absent.   *)
ReadingFails ==
  /\ \/ Reads("ledger", "tip") \/ Reads("tip", "grade")
     \/ Reads("before", "objects") \/ Reads("objects", "grade")
  /\ calm' = FALSE
  /\ UNCHANGED <<ledgerJti, obs, graded, ran>>

-----------------------------------------------------------------------------
\* The executor's seal over what was observed; it verifies under its own registry.
AttestTransition(g, o) == [jti |-> g.jti, result |-> <<o.before, o.commit, o.bytes>>]

Attested(a, g, o) == env.keysAgree /\ a = AttestTransition(g, o)

\* Mutant: the bytes at the commit are not compared.
NameOnly(g, o, proposed) ==
  IF o.commit = None THEN "NOT_RUN"
  ELSE IF /\ o.commit = "candidate" /\ o.before = "base"
          /\ o.changed # None /\ o.changed \subseteq {ContractPath}
          /\ Attested(AttestTransition(g, o), g, o)
       THEN "PROVEN" ELSE "CARRIED"

(* gradeStateTransition.  The target's name, its lineage and the path are   *)
(* what the run itself passed on, and the candidate has one parent.         *)
GradeOf(g, o, proposed) ==
  IF o.commit = None THEN "NOT_RUN"
  ELSE IF /\ o.commit = "candidate" /\ o.before = "base"
          /\ o.bytes = proposed
          /\ o.changed # None /\ o.changed \subseteq {ContractPath}
          /\ Attested(AttestTransition(g, o), g, o)
       THEN "PROVEN" ELSE "CARRIED"

Grade ==
  /\ step = "grade"
  /\ graded' = [state |-> GradeOf(grant.grant, obs, file), bytes |-> file]
  /\ step' = "prove" /\ ran' = TRUE
  /\ UNCHANGED <<env, fileVars, repoVars, grant, refused, ledgerJti, obs, calm>>

-----------------------------------------------------------------------------
(* Another process of the same user moves the ref, when the bits let it.   *)
TargetExists == step \notin {"build", "prove", "chain", "offline", "verdict", "done"}

OtherMoves(c) ==
  /\ TargetExists
  /\ writable \/ ~env.enforced
  /\ c # Tip
  /\ Len(SelectSeq(reflog, LAMBDA r : r.by = "other")) < MaxMoves
  /\ reflog' = Append(reflog, [to |-> c, by |-> "other"])
  /\ calm' = FALSE
  /\ UNCHANGED <<step, env, fileVars, built, writable, claims, grant, readVars, ran>>

\* The contract file is edited.
EditFile(b) ==
  /\ step # "done"
  /\ edits < MaxEdits /\ b # file
  /\ file' = b /\ edits' = edits + 1
  /\ calm' = FALSE
  /\ UNCHANGED <<step, env, repoVars, grant, readVars, ran>>

TargetNext ==
  \/ CannotHost \/ Build
  \/ \E doc \in Answers("git", GitQuestion) : Issue(doc)
  \/ Verify \/ HostTries \/ Restore
  \/ Execute \/ Replay
  \/ ReadLedger \/ ReadTip \/ ReadBefore \/ ReadObjects \/ ReadingFails
  \/ Grade \/ TargetThrows

Around ==
  \/ \E c \in Commits : OtherMoves(c)
  \/ \E b \in Bytes : EditFile(b)

-----------------------------------------------------------------------------
\* Positions of the reflog at which the executor put the ref.
ExecutorMoves == {i \in DOMAIN reflog : reflog[i].by = "executor"}

(* A transition is graded proven only if the executor itself moved the ref  *)
(* from base to the candidate, once, also when the ref was put back before  *)
(* the replay, with its grant in the ledger, and the bytes that arrived are *)
(* the proposal the grade was given on; if the file was not edited back and *)
(* forth, they are the bytes the grant is for.                              *)
ProvenMeansMoved ==
  graded.state = "PROVEN" =>
    /\ \E i \in ExecutorMoves : ExecutorMoves = {i} /\ reflog[i - 1].to = "base"
    /\ grant.grant.jti \in claims
    /\ built = graded.bytes
    /\ edits < 2 => built = grant.grant.bytes
=============================================================================
