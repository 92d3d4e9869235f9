----------------------------- MODULE HttpAtomic -----------------------------
(***************************************************************************)
(* The HTTP executor (demo/src/http-atomic.js): a compare-and-swap on one  *)
(* resource of an origin nobody here controls.  A call reads the entity    *)
(* tag, sends a conditional write, and signs what it believes happened, in *)
(* separate round trips.  There is no ledger: a retry is just another call *)
(* with the same grant.                                                    *)
(*                                                                         *)
(* The origin may judge the precondition of a GET and of a write, or of    *)
(* neither, and may change its mind; it may remember idempotency keys; it  *)
(* has other writers; and a write whose client gave up may still arrive.   *)
(***************************************************************************)
EXTENDS Naturals, FiniteSets

CONSTANTS
  Call,        \* executions of httpAtomicExecute, retries included
  Path,        \* resource paths
  Jti,         \* grant identifiers
  Deployment,  \* deployment ids
  Configured,  \* the deployment id of this sidecar
  Rep,         \* what a resource can hold; a representation determines its ETag
  StrongRep,   \* the representations whose ETag is a strong validator
  Requests,    \* the requests that reach the executor
  OriginRep,   \* what each path holds at first
  OtherWrites, \* bound: writes by anybody else
  Fickle,      \* TRUE when the origin may stop, or start, judging preconditions
  Remembers,   \* TRUE when the origin replays the answer of a known idempotency key
  None         \* no value

Gone    == "gone"           \* the origin answers 404
Create  == "absent pin"     \* the absent:<path> pin: must not exist
NoPin   == "no pin"         \* if_match missing from the request
Held    == Rep \cup {Gone}
Pin     == Rep \cup {Create, NoPin}

Canary == {"HONORS_IF_MATCH", "DOES_NOT_HONOR", "UNKNOWN"}

(* A request: canary "probe" runs the canary, a verdict is one obtained     *)
(* before, "none" skips it (as the route /http/resource-update does).       *)
RequestType ==
  [ jti : Jti, dep : Deployment, path : Path, pin : Pin, body : Rep,
    canary : Canary \cup {"probe", "none"} ]

ASSUME HttpConstants ==
  /\ Requests \subseteq RequestType
  /\ StrongRep \subseteq Rep
  /\ OriginRep \in [Path -> Held]
  /\ OtherWrites \in Nat
  /\ Fickle \in BOOLEAN /\ Remembers \in BOOLEAN
  /\ {Gone, Create, NoPin} \cap Rep = {}

Status ==
  { "OK", "DEPLOYMENT_MISMATCH", "STATE_CHALLENGE_UNKNOWN", "ETAG_UNVERIFIABLE",
    "IF_MATCH_CANARY_REFUSED", "STATE_DRIFT", "IF_MATCH_NOT_HONORED" }

\* What an answer says of the mutation: its mutation_applied, or nothing.
Said  == {"applied", "not applied", "unsaid"}
Reply == [status : Status, said : Said]
Saying(status, said) == [status |-> status, said |-> said]

Write == [base : Held, judged : BOOLEAN]

ASSUME NullIsNoCall ==
  /\ None \notin Requests /\ None \notin Reply /\ None \notin Write
  /\ None \notin Held \cup Canary \cup {"2xx", "412", "other"}

VARIABLES
  \* the origin
  rep,       \* what each path holds now
  judges,    \* whether it evaluates If-Match on a GET, and on a write
  memory,    \* the (path, idempotency key, body) it has answered 2xx to
  others,    \* writes by anybody else so far
  \* the calls
  pc,        \* what each call awaits
  req,       \* its request
  seen,      \* what its GET showed
  verdict,   \* what its canary said
  reply,     \* what it returned
  signed,    \* whether it signed an attestation
  \* the conditional write, on its way and back
  wire,      \* the request is on its way to the origin
  back,      \* the status class the origin answered with
  \* history, for the properties only
  wrote      \* what the origin replaced when it applied the call's write

origin  == <<rep, judges, memory, others>>
network == <<wire, back>>
vars    == <<origin, pc, req, seen, verdict, reply, signed, network, wrote>>
-----------------------------------------------------------------------------
Stage == {"idle", "canary", "probe", "observe", "wait", "seal", "done"}

\* isStrongEtag and isCreateIntentPin.
Strong(p) == p \in StrongRep

\* The state a pin stands for.
Pinned(p) == IF p = Create THEN Gone ELSE p

Init ==
  /\ rep = OriginRep
  /\ judges \in [{"get", "write"} -> BOOLEAN]
  /\ memory = {}
  /\ others = 0
  /\ pc      = [c \in Call |-> "idle"]
  /\ req     = [c \in Call |-> None]
  /\ seen    = [c \in Call |-> None]
  /\ verdict = [c \in Call |-> None]
  /\ reply   = [c \in Call |-> None]
  /\ signed  = [c \in Call |-> FALSE]
  /\ wire    = [c \in Call |-> FALSE]
  /\ back    = [c \in Call |-> None]
  /\ wrote   = [c \in Call |-> None]
-----------------------------------------------------------------------------
Return(c, status, said) ==
  /\ pc'    = [pc EXCEPT ![c] = "done"]
  /\ reply' = [reply EXCEPT ![c] = Saying(status, said)]

\* The checks before any request leaves: deployment, pin, strong pin.
EarlyRefusal(r) ==
  IF r.dep # Configured THEN Saying("DEPLOYMENT_MISMATCH", "unsaid")
  ELSE IF r.pin = NoPin THEN Saying("STATE_CHALLENGE_UNKNOWN", "unsaid")
  ELSE IF r.pin # Create /\ ~Strong(r.pin) THEN Saying("ETAG_UNVERIFIABLE", "not applied")
  ELSE None

\* Mutant: a canary that could not tell lets the write through.
UnknownPasses(v) ==
  IF v = "DOES_NOT_HONOR" THEN Saying("IF_MATCH_CANARY_REFUSED", "not applied") ELSE None

\* canaryGateRefusal: only HONORS_IF_MATCH, or no canary at all, goes on.
CanaryRefusal(v) ==
  CASE v \in {None, "HONORS_IF_MATCH"} -> None
    [] v = "DOES_NOT_HONOR" -> Saying("IF_MATCH_CANARY_REFUSED", "not applied")
    [] OTHER -> Saying("STATE_CHALLENGE_UNKNOWN", "not applied")

\* The gate, once the canary's verdict is in.
PassGate(c, v) ==
  /\ verdict' = [verdict EXCEPT ![c] = v]
  /\ IF CanaryRefusal(v) = None
       THEN pc' = [pc EXCEPT ![c] = "observe"] /\ UNCHANGED reply
       ELSE Return(c, CanaryRefusal(v).status, CanaryRefusal(v).said)

Receive(c, r) ==
  /\ pc[c] = "idle"
  /\ req' = [req EXCEPT ![c] = r]
  /\ IF EarlyRefusal(r) # None
       THEN Return(c, EarlyRefusal(r).status, EarlyRefusal(r).said) /\ UNCHANGED verdict
       ELSE IF r.canary = "probe"
              THEN pc' = [pc EXCEPT ![c] = "canary"] /\ UNCHANGED <<reply, verdict>>
              ELSE PassGate(c, IF r.canary = "none" THEN None ELSE r.canary)
  /\ UNCHANGED <<origin, seen, signed, network, wrote>>

(* providerCanary: a GET to learn the tag; without one, or when it fails or *)
(* is redirected, the verdict is UNKNOWN.                                   *)
CanaryObserve(c) ==
  /\ pc[c] = "canary"
  /\ \/ /\ rep[req[c].path] \in Rep
        /\ pc' = [pc EXCEPT ![c] = "probe"]
        /\ UNCHANGED <<reply, verdict>>
     \/ PassGate(c, "UNKNOWN")
  /\ UNCHANGED <<origin, req, seen, signed, network, wrote>>

(* Then a GET with a stale If-Match: 412 where the origin judges it, 2xx    *)
(* where it does not, and UNKNOWN for any other answer or none.             *)
ProbeVerdicts == {IF judges["get"] THEN "HONORS_IF_MATCH" ELSE "DOES_NOT_HONOR", "UNKNOWN"}

CanaryProbe(c) ==
  /\ pc[c] = "probe"
  /\ \E v \in ProbeVerdicts : PassGate(c, v)
  /\ UNCHANGED <<origin, req, seen, signed, network, wrote>>

\* What the GET before the write must show.
ObserveRefusal(r, held) ==
  IF r.pin # Create
    THEN IF Strong(held) THEN None ELSE Saying("ETAG_UNVERIFIABLE", "not applied")
    ELSE IF held = Gone THEN None ELSE Saying("STATE_DRIFT", "not applied")

(* observeEtag, the fail-closed checks on it, and the request on its way:   *)
(* there is no await between the three.                                     *)
Observe(c) ==
  /\ pc[c] = "observe"
  /\ LET held    == rep[req[c].path]
         refusal == ObserveRefusal(req[c], held)
     IN \/ /\ refusal = None
           /\ seen' = [seen EXCEPT ![c] = held]
           /\ wire' = [wire EXCEPT ![c] = TRUE]
           /\ pc'   = [pc EXCEPT ![c] = "wait"]
           /\ UNCHANGED reply
        \/ /\ refusal # None
           /\ Return(c, refusal.status, refusal.said)
           /\ UNCHANGED <<seen, wire>>
  /\ UNCHANGED <<origin, req, verdict, signed, back, wrote>>

\* The GET fails, is redirected, or answers with an error.
ObserveFails(c) ==
  /\ pc[c] = "observe"
  /\ Return(c, "STATE_CHALLENGE_UNKNOWN", "unsaid")
  /\ UNCHANGED <<origin, req, seen, verdict, signed, network, wrote>>
-----------------------------------------------------------------------------
\* The idempotency key is the jti; an origin that knows it replays its answer.
MemoryKey(r) == <<r.path, r.jti, r.body>>

\* Mutant: the write is conditional on what was just read, not on the pin.
ConditionOnSeen(c) == seen[c]

\* If-Match: <pin>, or If-None-Match: * for a create.
Condition(c) == Pinned(req[c].pin)

\* The origin applies the write.
Apply(c) ==
  LET p == req[c].path IN
  /\ judges["write"] => rep[p] = Condition(c)
  /\ rep'    = [rep EXCEPT ![p] = req[c].body]
  /\ wrote'  = [wrote EXCEPT ![c] = [base |-> rep[p], judged |-> judges["write"]]]
  /\ memory' = IF Remembers THEN memory \cup {MemoryKey(req[c])} ELSE memory
  /\ \E answer \in {"2xx", "other"} : back' = [back EXCEPT ![c] = answer]

(* The write arrives: applied, refused with 412, replayed from memory, or   *)
(* answered in some other way without being applied.                        *)
Serve(c) ==
  /\ wire[c]
  /\ wire' = [wire EXCEPT ![c] = FALSE]
  /\ \/ Apply(c)
     \/ /\ judges["write"] /\ rep[req[c].path] # Condition(c)
        /\ back' = [back EXCEPT ![c] = "412"]
        /\ UNCHANGED <<rep, wrote, memory>>
     \/ /\ MemoryKey(req[c]) \in memory
        /\ back' = [back EXCEPT ![c] = "2xx"]
        /\ UNCHANGED <<rep, wrote, memory>>
     \/ /\ back' = [back EXCEPT ![c] = "other"]
        /\ UNCHANGED <<rep, wrote, memory>>
  /\ UNCHANGED <<judges, others, pc, req, seen, verdict, reply, signed>>

\* The write is lost on its way.
Lose(c) ==
  /\ wire[c]
  /\ wire' = [wire EXCEPT ![c] = FALSE]
  /\ UNCHANGED <<origin, pc, req, seen, verdict, reply, signed, back, wrote>>

\* Mutant: no answer is taken for no write.
GiveUpUntouched(c) ==
  /\ pc[c] = "wait"
  /\ Return(c, "STATE_CHALLENGE_UNKNOWN", "not applied")
  /\ UNCHANGED <<origin, req, seen, verdict, signed, network, wrote>>

\* fetch rejects: the connection is gone, whatever becomes of the request.
GiveUp(c) ==
  /\ pc[c] = "wait"
  /\ Return(c, "STATE_CHALLENGE_UNKNOWN", "unsaid")
  /\ UNCHANGED <<origin, req, seen, verdict, signed, network, wrote>>

\* Mutant: a 2xx is a success, whatever was seen before.
NeverMismatched(c) == FALSE

\* The tag seen before the write was another than the pinned one.
Mismatched(c) == seen[c] # Gone /\ seen[c] # req[c].pin

Hear(c) ==
  /\ pc[c] = "wait"
  /\ \/ back[c] = "412" /\ Return(c, "STATE_DRIFT", "unsaid")
     \/ back[c] = "2xx" /\ Mismatched(c) /\ Return(c, "IF_MATCH_NOT_HONORED", "applied")
     \/ /\ back[c] = "2xx" /\ ~Mismatched(c)
        /\ pc' = [pc EXCEPT ![c] = "seal"]
        /\ UNCHANGED reply
     \/ back[c] = "other" /\ Return(c, "STATE_CHALLENGE_UNKNOWN", "unsaid")
  /\ UNCHANGED <<origin, req, seen, verdict, signed, network, wrote>>

\* The attestation, signed after the fact.
Seal(c) ==
  /\ pc[c] = "seal"
  /\ signed' = [signed EXCEPT ![c] = TRUE]
  /\ Return(c, "OK", "unsaid")
  /\ UNCHANGED <<origin, req, seen, verdict, network, wrote>>

\* The process dies (crashBeforeSeal is the case after the 2xx).
Crash(c) ==
  /\ pc[c] \notin {"idle", "done"}
  /\ pc' = [pc EXCEPT ![c] = "done"]
  /\ UNCHANGED <<origin, req, seen, verdict, reply, signed, network, wrote>>

\* Somebody else writes, or deletes, the resource.
OtherWrite(p) ==
  /\ others < OtherWrites
  /\ others' = others + 1
  /\ \E v \in Held \ {rep[p]} : rep' = [rep EXCEPT ![p] = v]
  /\ UNCHANGED <<judges, memory, pc, req, seen, verdict, reply, signed, network, wrote>>

\* A deploy, or another hop, and preconditions are judged differently.
OriginChanges ==
  /\ Fickle
  /\ \E m \in {"get", "write"} : judges' = [judges EXCEPT ![m] = ~@]
  /\ UNCHANGED <<rep, memory, others, pc, req, seen, verdict, reply, signed, network, wrote>>

Step(c) ==
  \/ CanaryObserve(c) \/ CanaryProbe(c)
  \/ Observe(c) \/ ObserveFails(c)
  \/ Hear(c) \/ GiveUp(c) \/ Seal(c) \/ Crash(c)

Next ==
  \/ \E c \in Call, r \in Requests : Receive(c, r)
  \/ \E c \in Call : Step(c)
  \/ \E c \in Call : Serve(c) \/ Lose(c)
  \/ \E p \in Path : OtherWrite(p)
  \/ OriginChanges

Spec == Init /\ [][Next]_vars
-----------------------------------------------------------------------------
(* Every variable has its type; in particular a call past its GET knows     *)
(* what it saw.                                                             *)
TypeOK ==
  /\ rep \in [Path -> Held]
  /\ judges \in [{"get", "write"} -> BOOLEAN]
  /\ memory \subseteq Path \X Jti \X Rep
  /\ others \in 0..OtherWrites
  /\ pc \in [Call -> Stage]
  /\ req \in [Call -> Requests \cup {None}]
  /\ seen \in [Call -> Held \cup {None}]
  /\ verdict \in [Call -> Canary \cup {None}]
  /\ reply \in [Call -> Reply \cup {None}]
  /\ signed \in [Call -> BOOLEAN]
  /\ wire \in [Call -> BOOLEAN]
  /\ back \in [Call -> {"2xx", "412", "other", None}]
  /\ wrote \in [Call -> Write \cup {None}]

(* mutation_applied: false is a promise about the future as well: the call  *)
(* has written nothing and nothing of it is still on its way (http-atomic.js*)
(* 346-385, 449-482).                                                       *)
UntouchedIsFinal ==
  \A c \in Call : reply[c] # None /\ reply[c].said = "not applied"
    => wrote[c] = None /\ ~wire[c]

(* A canary that did not prove the origin judges If-Match keeps every write *)
(* of that call away from it, then and later (http-atomic.js 340-372).      *)
CanaryKeepsWritesAway ==
  \A c \in Call :
    req[c] # None /\ req[c].canary = "probe" /\ (wire[c] \/ wrote[c] # None)
      => verdict[c] = "HONORS_IF_MATCH"

(* What an attestation is worth: the write under this grant was applied,    *)
(* and where this call applied it, it replaced the pinned state - unless    *)
(* the origin did not judge the precondition and the state changed between  *)
(* the GET, which still showed it, and the write (http-atomic.js 26-40).    *)
AttestedIsSwap ==
  \A c \in Call : signed[c] =>
    /\ seen[c] = Pinned(req[c].pin)
    /\ IF wrote[c] # None
         THEN wrote[c].base = Pinned(req[c].pin) \/ ~wrote[c].judged
         ELSE \E o \in Call : /\ wrote[o] # None
                              /\ MemoryKey(req[o]) = MemoryKey(req[c])

-----------------------------------------------------------------------------
(* Why the above is inductive: what each stage of a call has established.   *)
CallInv(c) ==
  /\ pc[c] # "idle" => req[c] # None
  /\ pc[c] \in {"idle", "canary", "probe", "observe"} =>
       ~wire[c] /\ back[c] = None /\ wrote[c] = None /\ reply[c] = None
  /\ pc[c] \in {"wait", "seal"} => reply[c] = None
  /\ wire[c] => back[c] = None /\ wrote[c] = None
  /\ wire[c] \/ back[c] # None \/ wrote[c] # None =>
       /\ req[c] # None
       /\ (req[c].pin = Create) = (seen[c] = Gone)
       /\ seen[c] \in Held
       /\ req[c].pin # NoPin
       /\ (req[c].canary = "probe") => (verdict[c] = "HONORS_IF_MATCH")
  /\ pc[c] = "observe" /\ req[c].canary = "probe" => verdict[c] = "HONORS_IF_MATCH"
  /\ pc[c] = "observe" => req[c].pin # NoPin
  /\ pc[c] \in {"canary", "probe"} => req[c].pin # NoPin
  /\ pc[c] = "seal" => back[c] = "2xx" /\ seen[c] = Pinned(req[c].pin)
  /\ wrote[c] # None /\ wrote[c].judged => wrote[c].base = Pinned(req[c].pin)
  /\ back[c] = "2xx" =>
       wrote[c] # None \/ MemoryKey(req[c]) \in memory
  /\ signed[c] => back[c] = "2xx" /\ seen[c] = Pinned(req[c].pin) /\ pc[c] = "done"
  /\ pc[c] = "idle" => ~signed[c]

\* The origin remembers only what it once applied.
MemoryIsEarned ==
  \A k \in memory : \E c \in Call : wrote[c] # None /\ MemoryKey(req[c]) = k

\* A path that calls alone have written holds what one of them wrote.
LastWriteStands ==
  others = 0 =>
    \A o \in Call : wrote[o] # None =>
      \E l \in Call : /\ wrote[l] # None
                       /\ req[l].path = req[o].path /\ rep[req[o].path] = req[l].body

IInv ==
  /\ TypeOK
  /\ \A c \in Call : CallInv(c)
  /\ MemoryIsEarned
  /\ LastWriteStands
  /\ UntouchedIsFinal
=============================================================================
