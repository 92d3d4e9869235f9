-------------------------- MODULE HttpAtomicProofs --------------------------
(***************************************************************************)
(* IInv of HttpAtomic is inductive for any calls, paths, grants, requests  *)
(* and representations, and what a call says and signs follows from it;    *)
(* and so does what a reconciliation says of it, whatever tokens the       *)
(* operator holds.                                                         *)
(***************************************************************************)
EXTENDS HttpReconcile, TLAPS

\* What a step does not change of a call.
Kept(d) ==
  /\ pc'[d] = pc[d] /\ req'[d] = req[d] /\ seen'[d] = seen[d]
  /\ verdict'[d] = verdict[d] /\ reply'[d] = reply[d] /\ signed'[d] = signed[d]
  /\ wire'[d] = wire[d] /\ back'[d] = back[d] /\ wrote'[d] = wrote[d]

\* A step of one call, or of the origin on its behalf.
Moves(c) ==
  \/ \E r \in Requests : Receive(c, r)
  \/ Step(c) \/ Serve(c) \/ Lose(c)

\* A step that concerns no call.
Elsewhere == (\E p \in Path : OtherWrite(p)) \/ OriginChanges

\* Every step is one or the other.
LEMMA NextCases == Next => (\E c \in Call : Moves(c)) \/ Elsewhere
BY DEF Next, Moves, Elsewhere

\* A status and what it says make a reply, which is not None.
LEMMA Replies ==
  ASSUME NEW status \in Status, NEW said \in Said
  PROVE  /\ Saying(status, said) \in Reply /\ Saying(status, said) # None
         /\ Saying(status, said).said = said /\ Saying(status, said).status = status
BY NullIsNoCall DEF Saying, Reply

(* The checks before a request leaves answer with a reply or None; None     *)
(* only for a pin that is there (http-atomic.js 310-339).                   *)
LEMMA EarlyRefusals ==
  ASSUME NEW r \in Requests
  PROVE  /\ EarlyRefusal(r) # None =>
              EarlyRefusal(r).status \in Status /\ EarlyRefusal(r).said \in Said
         /\ EarlyRefusal(r) = None => r.pin # NoPin
<1>1. /\ "DEPLOYMENT_MISMATCH" \in Status /\ "STATE_CHALLENGE_UNKNOWN" \in Status
      /\ "ETAG_UNVERIFIABLE" \in Status /\ "unsaid" \in Said /\ "not applied" \in Said
  BY DEF Status, Said
<1>2. ASSUME NEW status \in Status, NEW said \in Said, EarlyRefusal(r) = Saying(status, said)
      PROVE  /\ EarlyRefusal(r) # None
             /\ EarlyRefusal(r).status \in Status /\ EarlyRefusal(r).said \in Said
  BY <1>2, Replies, Zenon
<1>3. CASE r.dep # Configured
  <2>1. EarlyRefusal(r) = Saying("DEPLOYMENT_MISMATCH", "unsaid")
    BY <1>3 DEF EarlyRefusal
  <2> QED BY <1>1, <1>2, <2>1, Zenon
<1>4. CASE r.dep = Configured /\ r.pin = NoPin
  <2>1. EarlyRefusal(r) = Saying("STATE_CHALLENGE_UNKNOWN", "unsaid")
    BY <1>4 DEF EarlyRefusal
  <2> QED BY <1>1, <1>2, <2>1, Zenon
<1>5. CASE r.dep = Configured /\ r.pin # NoPin
  <2>1. EarlyRefusal(r) \in {Saying("ETAG_UNVERIFIABLE", "not applied"), None}
    BY <1>5 DEF EarlyRefusal
  <2> QED BY <1>1, <1>2, <1>5, <2>1, Zenon
<1> QED BY <1>3, <1>4, <1>5

\* Only a verdict that shows If-Match is honoured, or none, passes the gate.
LEMMA CanaryRefusals ==
  ASSUME NEW v \in Canary \cup {None}
  PROVE  /\ CanaryRefusal(v) # None =>
              CanaryRefusal(v).status \in Status /\ CanaryRefusal(v).said = "not applied"
         /\ CanaryRefusal(v) = None => v \in {None, "HONORS_IF_MATCH"}
<1>1. \A status \in Status :
        /\ Saying(status, "not applied") # None
        /\ Saying(status, "not applied").said = "not applied"
        /\ Saying(status, "not applied").status = status
  BY Replies DEF Said
<1>2. {"IF_MATCH_CANARY_REFUSED", "STATE_CHALLENGE_UNKNOWN"} \subseteq Status
  BY DEF Status
<1> QED BY <1>1, <1>2, NullIsNoCall DEF CanaryRefusal, Canary

\* The reading before the write: what lets it through is the pinned state or a strong tag.
LEMMA ObserveRefusals ==
  ASSUME NEW r \in Requests, NEW held \in Held
  PROVE  /\ ObserveRefusal(r, held) # None =>
              /\ ObserveRefusal(r, held).status \in Status
              /\ ObserveRefusal(r, held).said = "not applied"
         /\ ObserveRefusal(r, held) = None => (r.pin = Create) = (held = Gone)
<1>1. \A status \in Status :
        /\ Saying(status, "not applied") # None
        /\ Saying(status, "not applied").said = "not applied"
        /\ Saying(status, "not applied").status = status
  BY Replies DEF Said
<1>2. {"ETAG_UNVERIFIABLE", "STATE_DRIFT"} \subseteq Status
  BY DEF Status
<1>3. Strong(held) => held # Gone
  BY HttpConstants DEF Strong
<1> QED BY <1>1, <1>2, <1>3 DEF ObserveRefusal

\* No answer is not a 2xx.
LEMMA NoAnswer == None # "2xx"
BY NullIsNoCall

\* A request is one, with the fields of RequestType.
LEMMA RequestFields ==
  ASSUME NEW r \in Requests
  PROVE  /\ r # None /\ r \in RequestType
         /\ r.jti \in Jti /\ r.path \in Path /\ r.pin \in Pin /\ r.body \in Rep
         /\ r.canary \in Canary \cup {"probe", "none"}
         /\ MemoryKey(r) \in Path \X Jti \X Rep
<1>1. r # None /\ r \in RequestType
  BY HttpConstants, NullIsNoCall
<1> QED BY <1>1 DEF RequestType, MemoryKey
-----------------------------------------------------------------------------
(* A step of one call leaves the others as they were, and the origin never  *)
(* forgets an answer.                                                       *)
LEMMA OthersKept ==
  ASSUME TypeOK, NEW c \in Call, Moves(c), NEW d \in Call, d # c
  PROVE  Kept(d)
<1>1. ASSUME NEW r \in Requests, Receive(c, r) PROVE Kept(d)
  BY <1>1 DEF Receive, PassGate, Return, Kept, TypeOK, network
<1>2. CASE Step(c)
  BY <1>2 DEF Step, CanaryObserve, CanaryProbe, Observe, ObserveFails, Hear, GiveUp, Seal, Crash,
              PassGate, Return, Kept, TypeOK, network
<1>3. CASE Serve(c)
  BY <1>3 DEF Serve, Apply, Kept, TypeOK
<1>4. CASE Lose(c)
  BY <1>4 DEF Lose, Kept, TypeOK
<1> QED BY <1>1, <1>2, <1>3, <1>4 DEF Moves

LEMMA MemoryGrows ==
  ASSUME NEW c \in Call, Moves(c)
  PROVE  memory \subseteq memory'
BY DEF Moves, Receive, Step, CanaryObserve, CanaryProbe, Observe, ObserveFails, Hear, GiveUp, Seal,
       Crash, Serve, Apply, Lose, origin

\* What is not touched keeps its invariant.
LEMMA Untouched ==
  ASSUME NEW d \in Call, CallInv(d), Kept(d), memory \subseteq memory'
  PROVE  CallInv(d)'
BY DEF CallInv, Kept, MemoryKey, Pinned
-----------------------------------------------------------------------------
(* Types.                                                                   *)
LEMMA GateTypes ==
  ASSUME TypeOK, NEW c \in Call, NEW v \in Canary \cup {None}, PassGate(c, v)
  PROVE  /\ pc' \in [Call -> Stage] /\ verdict' \in [Call -> Canary \cup {None}]
         /\ reply' \in [Call -> Reply \cup {None}]
<1>1. CanaryRefusal(v) # None =>
        Saying(CanaryRefusal(v).status, CanaryRefusal(v).said) \in Reply
  BY CanaryRefusals, Replies DEF Said
<1> QED BY <1>1 DEF PassGate, Return, TypeOK, Stage

LEMMA ReceiveTypes ==
  ASSUME TypeOK, NEW c \in Call, NEW r \in Requests, Receive(c, r)
  PROVE  TypeOK'
<1>1. /\ UNCHANGED <<origin, seen, signed, network, wrote>>
      /\ req' \in [Call -> Requests \cup {None}]
  BY DEF Receive, TypeOK
<1>2. /\ pc' \in [Call -> Stage] /\ verdict' \in [Call -> Canary \cup {None}]
      /\ reply' \in [Call -> Reply \cup {None}]
  <2>1. CASE EarlyRefusal(r) # None
    <3>1. Saying(EarlyRefusal(r).status, EarlyRefusal(r).said) \in Reply
      BY <2>1, EarlyRefusals, Replies
    <3> QED BY <2>1, <3>1 DEF Receive, Return, TypeOK, Stage
  <2>2. CASE EarlyRefusal(r) = None /\ r.canary = "probe"
    BY <2>2 DEF Receive, TypeOK, Stage
  <2>3. CASE EarlyRefusal(r) = None /\ r.canary # "probe"
    <3> DEFINE v == IF r.canary = "none" THEN None ELSE r.canary
    <3>1. v \in Canary \cup {None} /\ PassGate(c, v)
      BY <2>3, RequestFields DEF Receive
    <3> HIDE DEF v
    <3> QED BY <3>1, GateTypes
  <2> QED BY <2>1, <2>2, <2>3
<1> QED BY <1>1, <1>2 DEF TypeOK, origin, network

LEMMA StepTypes ==
  ASSUME TypeOK, NEW c \in Call, Step(c), pc[c] # "idle" => req[c] \in Requests
  PROVE  TypeOK'
<1>1. CASE CanaryObserve(c) \/ CanaryProbe(c)
  <2>1. UNCHANGED <<origin, req, seen, signed, network, wrote>>
    BY <1>1 DEF CanaryObserve, CanaryProbe
  <2>2. \/ \E v \in Canary \cup {None} : PassGate(c, v)
        \/ pc' = [pc EXCEPT ![c] = "probe"] /\ UNCHANGED <<reply, verdict>>
    BY <1>1 DEF CanaryObserve, CanaryProbe, ProbeVerdicts, Canary
  <2>3. /\ pc' \in [Call -> Stage] /\ verdict' \in [Call -> Canary \cup {None}]
        /\ reply' \in [Call -> Reply \cup {None}]
    BY <2>2, GateTypes DEF TypeOK, Stage
  <2> QED BY <2>1, <2>3 DEF TypeOK, origin, network
<1>2. CASE Observe(c)
  <2> DEFINE held == rep[req[c].path]
             refusal == ObserveRefusal(req[c], held)
  <2>1. req[c] \in Requests /\ held \in Held
    BY <1>2, RequestFields DEF Observe, TypeOK
  <2>2. refusal # None => Saying(refusal.status, refusal.said) \in Reply
    BY <2>1, ObserveRefusals, Replies DEF Said
  <2>3. /\ UNCHANGED <<origin, req, verdict, signed, back, wrote>>
        /\ \/ /\ seen' = [seen EXCEPT ![c] = held] /\ wire' = [wire EXCEPT ![c] = TRUE]
              /\ pc' = [pc EXCEPT ![c] = "wait"] /\ UNCHANGED reply
           \/ /\ refusal # None /\ Return(c, refusal.status, refusal.said)
              /\ UNCHANGED <<seen, wire>>
    BY <1>2 DEF Observe
  <2> HIDE DEF held, refusal
  <2>4. /\ pc' \in [Call -> Stage] /\ reply' \in [Call -> Reply \cup {None}]
        /\ seen' \in [Call -> Held \cup {None}] /\ wire' \in [Call -> BOOLEAN]
    <3>1. CASE /\ seen' = [seen EXCEPT ![c] = held] /\ wire' = [wire EXCEPT ![c] = TRUE]
               /\ pc' = [pc EXCEPT ![c] = "wait"] /\ UNCHANGED reply
      <4>1. pc' \in [Call -> Stage] /\ reply' \in [Call -> Reply \cup {None}]
        BY <3>1 DEF TypeOK, Stage
      <4>2. seen' \in [Call -> Held \cup {None}] /\ wire' \in [Call -> BOOLEAN]
        BY <2>1, <3>1 DEF TypeOK
      <4> QED BY <4>1, <4>2
    <3>2. CASE refusal # None /\ Return(c, refusal.status, refusal.said) /\ UNCHANGED <<seen, wire>>
      BY <2>2, <3>2 DEF TypeOK, Return, Stage
    <3> QED BY <2>3, <3>1, <3>2
  <2> QED BY <2>3, <2>4 DEF TypeOK, origin
<1>3. CASE ObserveFails(c) \/ Hear(c) \/ GiveUp(c) \/ Seal(c) \/ Crash(c)
  <2>1. /\ UNCHANGED <<origin, req, seen, verdict, network, wrote>>
        /\ signed' \in [Call -> BOOLEAN]
    BY <1>3 DEF ObserveFails, Hear, GiveUp, Seal, Crash, TypeOK
  <2>2. \/ \E status \in Status, said \in Said : Return(c, status, said)
        \/ pc' = [pc EXCEPT ![c] = "seal"] /\ UNCHANGED reply
        \/ pc' = [pc EXCEPT ![c] = "done"] /\ UNCHANGED reply
    BY <1>3 DEF ObserveFails, Hear, GiveUp, Seal, Crash, Status, Said
  <2>3. pc' \in [Call -> Stage] /\ reply' \in [Call -> Reply \cup {None}]
    <3>1. ASSUME NEW status \in Status, NEW said \in Said, Return(c, status, said)
          PROVE  pc' \in [Call -> Stage] /\ reply' \in [Call -> Reply \cup {None}]
      BY <3>1, Replies DEF Return, TypeOK, Stage
    <3>2. ASSUME NEW stage \in Stage, pc' = [pc EXCEPT ![c] = stage], UNCHANGED reply
          PROVE  pc' \in [Call -> Stage] /\ reply' \in [Call -> Reply \cup {None}]
      BY <3>2 DEF TypeOK
    <3> QED BY <2>2, <3>1, <3>2, Zenon DEF Stage
  <2> QED BY <2>1, <2>3 DEF TypeOK, origin, network
<1> QED BY <1>1, <1>2, <1>3 DEF Step

LEMMA ServeTypes ==
  ASSUME TypeOK, NEW c \in Call, Serve(c) \/ Lose(c), wire[c] => req[c] \in Requests
  PROVE  TypeOK'
<1>1. CASE Lose(c)
  BY <1>1 DEF Lose, TypeOK, origin
<1>2. CASE Serve(c)
  <2>1. req[c].path \in Path /\ req[c].body \in Rep /\ MemoryKey(req[c]) \in Path \X Jti \X Rep
    BY <1>2, RequestFields DEF Serve
  <2>2. rep[req[c].path] \in Held /\ judges["write"] \in BOOLEAN
    BY <2>1 DEF TypeOK
  <2>3. [base |-> rep[req[c].path], judged |-> judges["write"]] \in Write
    BY <2>2 DEF Write
  <2>4. /\ wire' \in [Call -> BOOLEAN]
        /\ UNCHANGED <<judges, others, pc, req, seen, verdict, reply, signed>>
    BY <1>2 DEF Serve, TypeOK
  <2>5. CASE Apply(c)
    <3>1. rep' \in [Path -> Held]
      BY <2>1, <2>5 DEF Apply, TypeOK, Held
    <3>2. wrote' \in [Call -> Write \cup {None}]
      BY <2>3, <2>5 DEF Apply, TypeOK
    <3>3. memory' \subseteq Path \X Jti \X Rep
      BY <2>1, <2>5 DEF Apply, TypeOK
    <3>4. back' \in [Call -> {"2xx", "412", "other", None}]
      BY <2>5 DEF Apply, TypeOK
    <3> QED BY <2>4, <3>1, <3>2, <3>3, <3>4 DEF TypeOK
  <2>6. CASE UNCHANGED <<rep, wrote, memory>> /\ ~Apply(c)
    <3>1. back' \in [Call -> {"2xx", "412", "other", None}]
      BY <1>2, <2>6 DEF Serve, TypeOK
    <3> QED BY <2>4, <2>6, <3>1 DEF TypeOK
  <2> QED BY <1>2, <2>5, <2>6 DEF Serve
<1> QED BY <1>1, <1>2

LEMMA ElsewhereTypes == ASSUME TypeOK, Elsewhere PROVE TypeOK'
<1>1. ASSUME NEW p \in Path, OtherWrite(p) PROVE TypeOK'
  <2>1. /\ others' \in 0..OtherWrites /\ rep' \in [Path -> Held]
        /\ UNCHANGED <<judges, memory, pc, req, seen, verdict, reply, signed, wire, back, wrote>>
    BY <1>1, HttpConstants DEF OtherWrite, TypeOK, network
  <2> QED BY <2>1 DEF TypeOK
<1>2. CASE OriginChanges
  <2>1. /\ judges' \in [{"get", "write"} -> BOOLEAN]
        /\ UNCHANGED <<rep, memory, others, pc, req, seen, verdict, reply, signed, wire, back, wrote>>
    BY <1>2 DEF OriginChanges, TypeOK, network
  <2> QED BY <2>1 DEF TypeOK
<1> QED BY <1>1, <1>2 DEF Elsewhere
-----------------------------------------------------------------------------
(* The invariant of the call that moves.  What a call has when it is done   *)
(* with the gate, and what it must have had when it was not.                *)
LEMMA GateKeeps ==
  ASSUME TypeOK, NEW c \in Call, NEW v \in Canary \cup {None}, PassGate(c, v),
         UNCHANGED <<seen, signed, network, wrote>>, req'[c] \in Requests,
         ~wire[c], back[c] = None, wrote[c] = None, reply[c] = None, ~signed[c],
         req'[c].pin # NoPin, req'[c].canary = "probe" => v # None
  PROVE  CallInv(c)'
<1>1. req'[c] # None /\ (req'[c].canary = "probe" /\ v \in {None, "HONORS_IF_MATCH"}
                           => v = "HONORS_IF_MATCH")
  BY NullIsNoCall
<1>2. /\ ~wire'[c] /\ back'[c] = None /\ wrote'[c] = None /\ ~signed'[c] /\ verdict'[c] = v
  BY DEF network, PassGate, TypeOK
<1>3. CASE CanaryRefusal(v) = None
  <2>1. pc'[c] = "observe" /\ reply'[c] = None
    BY <1>3 DEF PassGate, TypeOK
  <2>2. v \in {None, "HONORS_IF_MATCH"}
    BY <1>3, CanaryRefusals
  <2> QED BY <1>1, <1>2, <2>1, <2>2, NoAnswer DEF CallInv
<1>4. CASE CanaryRefusal(v) # None
  <2>1. pc'[c] = "done"
    BY <1>4 DEF PassGate, Return, TypeOK
  <2> QED BY <1>1, <1>2, <2>1, NoAnswer DEF CallInv
<1> QED BY <1>3, <1>4

LEMMA ReceiveKeeps ==
  ASSUME IInv, NEW c \in Call, NEW r \in Requests, Receive(c, r)
  PROVE  CallInv(c)'
<1>1. /\ TypeOK /\ pc[c] = "idle" /\ req'[c] = r /\ r # None
      /\ UNCHANGED <<seen, signed, network, wrote>>
  BY RequestFields DEF IInv, Receive, TypeOK
<1>2. ~wire[c] /\ back[c] = None /\ wrote[c] = None /\ reply[c] = None /\ ~signed[c]
  BY <1>1 DEF IInv, CallInv
<1>3. CASE EarlyRefusal(r) # None
  <2>1. pc'[c] = "done"
    BY <1>1, <1>3 DEF Receive, Return, TypeOK
  <2> QED BY <1>1, <1>2, <2>1, NoAnswer DEF CallInv, network
<1>4. CASE EarlyRefusal(r) = None /\ r.canary = "probe"
  <2>1. pc'[c] = "canary" /\ reply'[c] = None /\ r.pin # NoPin
    BY <1>1, <1>2, <1>4, EarlyRefusals DEF Receive, TypeOK
  <2> QED BY <1>1, <1>2, <2>1, NoAnswer DEF CallInv, network
<1>5. CASE EarlyRefusal(r) = None /\ r.canary # "probe"
  <2> DEFINE v == IF r.canary = "none" THEN None ELSE r.canary
  <2>1. v \in Canary \cup {None} /\ PassGate(c, v)
    BY <1>5, RequestFields DEF Receive
  <2>2. r.pin # NoPin
    BY <1>5, EarlyRefusals
  <2> HIDE DEF v
  <2> QED BY <1>1, <1>2, <1>5, <2>1, <2>2, GateKeeps
<1> QED BY <1>3, <1>4, <1>5

LEMMA CanaryKeeps ==
  ASSUME IInv, NEW c \in Call, CanaryObserve(c) \/ CanaryProbe(c)
  PROVE  CallInv(c)'
<1>1. /\ TypeOK /\ pc[c] \in {"canary", "probe"}
      /\ UNCHANGED <<req, seen, signed, network, wrote>>
  BY DEF IInv, CanaryObserve, CanaryProbe
<1>2. /\ ~wire[c] /\ back[c] = None /\ wrote[c] = None /\ reply[c] = None /\ ~signed[c]
      /\ req[c] # None /\ req[c].pin # NoPin
  BY <1>1 DEF IInv, CallInv
<1>3. req'[c] = req[c] /\ req[c] \in Requests
  BY <1>1, <1>2 DEF TypeOK
<1>4. CASE \E v \in Canary : PassGate(c, v)
  <2>1. PICK v \in Canary : PassGate(c, v)
    BY <1>4
  <2>2. v # None
    BY NullIsNoCall
  <2> QED BY <1>1, <1>2, <1>3, <2>1, <2>2, GateKeeps
<1>5. CASE pc' = [pc EXCEPT ![c] = "probe"] /\ UNCHANGED <<reply, verdict>>
  <2>1. pc'[c] = "probe" /\ reply'[c] = None
    BY <1>1, <1>2, <1>5 DEF TypeOK
  <2> QED BY <1>1, <1>2, <1>3, <2>1, NoAnswer DEF CallInv, network
<1> QED BY <1>4, <1>5 DEF CanaryObserve, CanaryProbe, ProbeVerdicts, Canary

(* The write leaves only over a reading that showed the pinned state or a   *)
(* strong tag (http-atomic.js 386-448).                                     *)
LEMMA ObserveKeeps ==
  ASSUME IInv, NEW c \in Call, Observe(c)
  PROVE  CallInv(c)'
<1> DEFINE held == rep[req[c].path]
           refusal == ObserveRefusal(req[c], held)
<1>1. /\ TypeOK /\ pc[c] = "observe"
      /\ UNCHANGED <<req, verdict, signed, back, wrote>>
  BY DEF IInv, Observe
<1>2. /\ ~wire[c] /\ back[c] = None /\ wrote[c] = None /\ reply[c] = None /\ ~signed[c]
      /\ req[c] # None /\ req[c].pin # NoPin
      /\ req[c].canary = "probe" => verdict[c] = "HONORS_IF_MATCH"
  BY <1>1 DEF IInv, CallInv
<1>3. req[c] \in Requests /\ held \in Held
  BY <1>1, <1>2, RequestFields DEF TypeOK
<1>4. CASE /\ refusal = None
           /\ seen' = [seen EXCEPT ![c] = held]
           /\ wire' = [wire EXCEPT ![c] = TRUE]
           /\ pc'   = [pc EXCEPT ![c] = "wait"]
           /\ UNCHANGED reply
  <2>1. seen'[c] = held /\ wire'[c] = TRUE /\ pc'[c] = "wait" /\ reply'[c] = None
    BY <1>1, <1>2, <1>4 DEF TypeOK
  <2>2. (req[c].pin = Create) = (held = Gone)
    BY <1>3, <1>4, ObserveRefusals
  <2> HIDE DEF held, refusal
  <2> QED BY <1>1, <1>2, <1>3, <2>1, <2>2, NoAnswer DEF CallInv
<1>5. CASE Return(c, refusal.status, refusal.said) /\ UNCHANGED <<seen, wire>>
  <2>1. pc'[c] = "done" /\ ~wire'[c]
    BY <1>1, <1>2, <1>5 DEF Return, TypeOK
  <2> QED BY <1>1, <1>2, <2>1, NoAnswer DEF CallInv
<1> QED BY <1>4, <1>5 DEF Observe

(* A 2xx that was seen over the pinned state is one that may be signed.     *)
LEMMA AnswerKeeps ==
  ASSUME IInv, NEW c \in Call,
         ObserveFails(c) \/ Hear(c) \/ GiveUp(c) \/ Seal(c) \/ Crash(c)
  PROVE  CallInv(c)'
<1>1. TypeOK /\ CallInv(c) /\ UNCHANGED <<memory, req, seen, verdict, network, wrote>>
  BY DEF IInv, ObserveFails, Hear, GiveUp, Seal, Crash, origin
<1>2. CASE ObserveFails(c) \/ GiveUp(c) \/ Crash(c)
  <2>1. pc[c] \notin {"idle", "done"} /\ pc'[c] = "done" /\ signed' = signed
    BY <1>1, <1>2 DEF ObserveFails, GiveUp, Crash, Return, TypeOK
  <2> QED BY <1>1, <2>1 DEF CallInv, network, MemoryKey, Pinned
<1>3. CASE Hear(c)
  <2>1. pc[c] = "wait" /\ signed' = signed
    BY <1>3 DEF Hear
  <2>2. \/ pc'[c] = "done"
        \/ pc'[c] = "seal" /\ reply' = reply /\ back[c] = "2xx" /\ ~Mismatched(c)
    BY <1>1, <1>3 DEF Hear, Return, TypeOK
  <2>3. back[c] = "2xx" /\ ~Mismatched(c) => seen[c] = Pinned(req[c].pin)
    <3>1. back[c] = "2xx" => (req[c].pin = Create) = (seen[c] = Gone)
      BY <1>1, NullIsNoCall DEF CallInv
    <3> QED BY <3>1 DEF Mismatched, Pinned
  <2> QED BY <1>1, <2>1, <2>2, <2>3 DEF CallInv, network, MemoryKey, Pinned
<1>4. CASE Seal(c)
  <2>1. pc[c] = "seal" /\ pc'[c] = "done"
    BY <1>1, <1>4 DEF Seal, Return, TypeOK
  <2> QED BY <1>1, <2>1 DEF CallInv, network, MemoryKey, Pinned
<1> QED BY <1>2, <1>3, <1>4

(* What arrives at the origin was sent over a strong tag, and where the     *)
(* precondition was judged it replaced the pinned state.                    *)
LEMMA ServeKeeps ==
  ASSUME IInv, NEW c \in Call, Serve(c) \/ Lose(c)
  PROVE  CallInv(c)'
<1>1. /\ TypeOK /\ CallInv(c) /\ wire[c] /\ ~wire'[c]
      /\ UNCHANGED <<pc, req, seen, verdict, reply, signed>>
  BY DEF IInv, Serve, Lose, TypeOK
<1>2. back[c] = None /\ wrote[c] = None /\ ~signed[c] /\ req[c] # None
      /\ pc[c] \in {"wait", "done"}
  BY <1>1, NullIsNoCall DEF CallInv, TypeOK, Stage
<1>3. CASE UNCHANGED <<back, wrote>>
  BY <1>1, <1>2, <1>3, NoAnswer DEF CallInv
<1>4. CASE Apply(c)
  <2>1. judges["write"] \in BOOLEAN
    BY <1>1 DEF TypeOK
  <2>2. /\ wrote'[c].judged => wrote'[c].base = Pinned(req[c].pin)
        /\ wrote'[c] # None
    <3>1. wrote'[c] = [base |-> rep[req[c].path], judged |-> judges["write"]]
      BY <1>1, <1>4 DEF Apply, TypeOK
    <3>2. req[c].path \in Path
      BY <1>1, <1>2, RequestFields DEF TypeOK
    <3>3. wrote'[c] \in Write
      BY <1>1, <2>1, <3>1, <3>2 DEF Write, TypeOK
    <3>4. wrote'[c] # None
      BY <3>3, NullIsNoCall
    <3>5. judges["write"] => rep[req[c].path] = Pinned(req[c].pin)
      BY <1>4 DEF Apply, Condition
    <3> QED BY <3>1, <3>4, <3>5
  <2> QED BY <1>1, <1>2, <2>2 DEF CallInv, Pinned
<1>5. CASE UNCHANGED <<wrote, memory>> /\ (back'[c] = "2xx" => MemoryKey(req[c]) \in memory)
  BY <1>1, <1>2, <1>5 DEF CallInv, MemoryKey, Pinned
<1>6. Serve(c) => Apply(c) \/ (/\ UNCHANGED <<wrote, memory>>
                               /\ back'[c] = "2xx" => MemoryKey(req[c]) \in memory)
  BY <1>1 DEF Serve, TypeOK
<1> QED BY <1>3, <1>4, <1>5, <1>6 DEF Lose
-----------------------------------------------------------------------------
\* The invariant of every call survives a step of one.
LEMMA CallsKept ==
  ASSUME IInv, NEW c \in Call, Moves(c)
  PROVE  \A d \in Call : CallInv(d)'
<1>1. CallInv(c)'
  BY ReceiveKeeps, CanaryKeeps, ObserveKeeps, AnswerKeeps, ServeKeeps DEF Moves, Step
<1>2. ASSUME NEW d \in Call, d # c PROVE CallInv(d)'
  <2>1. Kept(d)
    BY <1>2, OthersKept DEF IInv
  <2>2. memory \subseteq memory'
    BY MemoryGrows
  <2> QED BY <2>1, <2>2, Untouched DEF IInv
<1> QED BY <1>1, <1>2

\* And a step that concerns none.
LEMMA ElsewhereKept ==
  ASSUME IInv, Elsewhere
  PROVE  /\ \A d \in Call : CallInv(d)'
         /\ MemoryIsEarned' /\ LastWriteStands' /\ UntouchedIsFinal'
<1>1. UNCHANGED <<memory, pc, req, seen, verdict, reply, signed, wire, back, wrote>>
  BY DEF Elsewhere, OtherWrite, OriginChanges, network
<1>2. \A d \in Call : CallInv(d)'
  <2> TAKE d \in Call
  <2>1. Kept(d) /\ memory \subseteq memory'
    BY <1>1 DEF Kept
  <2> QED BY <2>1, Untouched DEF IInv
<1>3. MemoryIsEarned' /\ UntouchedIsFinal'
  BY <1>1 DEF IInv, MemoryIsEarned, UntouchedIsFinal, MemoryKey
<1>4. LastWriteStands'
  <2>1. CASE OriginChanges
    BY <1>1, <2>1 DEF OriginChanges, IInv, LastWriteStands
  <2>2. ASSUME NEW p \in Path, OtherWrite(p) PROVE LastWriteStands'
    <3>1. others' # 0
      BY <2>2, HttpConstants DEF OtherWrite, IInv, TypeOK
    <3> QED BY <3>1 DEF LastWriteStands
  <2> QED BY <2>1, <2>2 DEF Elsewhere
<1> QED BY <1>2, <1>3, <1>4

\* A write that was applied stays that of the same request.
LEMMA WritesStay ==
  ASSUME IInv, NEW c \in Call, Moves(c), NEW o \in Call, wrote[o] # None
  PROVE  wrote'[o] # None /\ req'[o] = req[o]
<1>1. CASE o # c
  BY <1>1, OthersKept DEF Kept, IInv
<1>2. CASE o = c
  <2>1. pc[c] # "idle" /\ ~wire[c]
    BY <1>2 DEF IInv, CallInv
  <2>2. UNCHANGED <<req, wrote>>
    BY <2>1 DEF Moves, Receive, Step, CanaryObserve, CanaryProbe, Observe, ObserveFails, Hear,
                GiveUp, Seal, Crash, Serve, Lose
  <2> QED BY <1>2, <2>2
<1> QED BY <1>1, <1>2

(* A step of a call leaves every path as it was, or is the write of one     *)
(* that had written nothing.                                                *)
LEMMA WhatMoves ==
  ASSUME IInv, NEW c \in Call, Moves(c)
  PROVE  /\ others' = others
         /\ \/ Serve(c) /\ Apply(c)
            \/ memory' = memory /\ rep' = rep /\ wrote' = wrote
BY DEF Moves, Receive, Step, CanaryObserve, CanaryProbe, Observe, ObserveFails, Hear, GiveUp,
       Seal, Crash, Serve, Lose, origin

\* What the write of a call puts there.
LEMMA WriteOf ==
  ASSUME IInv, NEW c \in Call, Serve(c), Apply(c)
  PROVE  /\ req' = req /\ req[c] \in Requests /\ wrote'[c] # None
         /\ rep' = [rep EXCEPT ![req[c].path] = req[c].body]
         /\ memory' \subseteq memory \cup {MemoryKey(req[c])}
<1>1. TypeOK /\ req' = req /\ req[c] \in Requests
  BY NullIsNoCall DEF IInv, CallInv, Serve, TypeOK, Stage
<1>2. wrote'[c] = [base |-> rep[req[c].path], judged |-> judges["write"]]
  BY <1>1 DEF Apply, TypeOK
<1>3. wrote'[c] \in Write
  BY <1>1, <1>2, RequestFields DEF Write, TypeOK
<1>4. wrote'[c] # None
  BY <1>3, NullIsNoCall
<1> QED BY <1>1, <1>4 DEF Apply

\* An answer the origin remembers is that of a write it applied.
LEMMA MemoryStep ==
  ASSUME IInv, NEW c \in Call, Moves(c)
  PROVE  MemoryIsEarned'
<1>1. MemoryIsEarned
  BY DEF IInv
<1>2. CASE memory' = memory
  BY <1>1, <1>2, WritesStay DEF MemoryIsEarned, MemoryKey
<1>3. CASE Serve(c) /\ Apply(c)
  <2>1. /\ memory' \subseteq memory \cup {MemoryKey(req[c])} /\ req' = req
        /\ wrote'[c] # None
    BY <1>3, WriteOf
  <2> QED BY <1>1, <2>1, WritesStay DEF MemoryIsEarned, MemoryKey
<1> QED BY <1>2, <1>3, WhatMoves

(* As long as nobody else writes, a resource that a call has written holds  *)
(* what the last of them wrote (http-atomic.js 486-552).                    *)
LEMMA LastWriteStep ==
  ASSUME IInv, NEW c \in Call, Moves(c)
  PROVE  LastWriteStands'
<1> SUFFICES ASSUME others' = 0, NEW o \in Call, wrote'[o] # None
             PROVE  \E l \in Call : /\ wrote'[l] # None
                                     /\ req'[l].path = req'[o].path
                                     /\ rep'[req'[o].path] = req'[l].body
  BY DEF LastWriteStands
<1>1. others = 0
  BY WhatMoves
<1>2. ASSUME wrote[o] # None
      PROVE  \E l \in Call : /\ wrote'[l] # None
                              /\ req'[o] = req[o] /\ req'[l] = req[l]
                              /\ req[l].path = req[o].path
                              /\ rep[req[o].path] = req[l].body
  <2>1. PICK l \in Call : /\ wrote[l] # None
                          /\ req[l].path = req[o].path /\ rep[req[o].path] = req[l].body
    BY <1>1, <1>2 DEF IInv, LastWriteStands
  <2> QED BY <1>2, <2>1, WritesStay
<1>3. CASE rep' = rep /\ wrote' = wrote
  BY <1>2, <1>3
<1>4. CASE Serve(c) /\ Apply(c)
  <2>1. /\ req' = req /\ req[c] \in Requests /\ wrote'[c] # None
        /\ rep' = [rep EXCEPT ![req[c].path] = req[c].body]
    BY <1>4, WriteOf
  <2>2. req[c].path \in Path /\ rep \in [Path -> Held]
    BY <2>1, RequestFields DEF IInv, TypeOK
  <2>3. rep'[req[c].path] = req[c].body
    BY <2>1, <2>2
  <2>4. CASE req[o].path = req[c].path
    BY <2>1, <2>3, <2>4
  <2>5. CASE req[o].path # req[c].path
    <3>1. wrote[o] # None
      BY <1>4, <2>5, OthersKept DEF IInv, Kept
    <3>2. req[o].path \in Path
      BY <3>1, NullIsNoCall, RequestFields DEF IInv, CallInv, TypeOK
    <3>3. rep'[req[o].path] = rep[req[o].path]
      BY <2>1, <2>2, <2>5, <3>2
    <3> QED BY <1>2, <2>1, <3>1, <3>3
  <2> QED BY <2>4, <2>5
<1> QED BY <1>3, <1>4, WhatMoves

(* Who has been told that nothing was applied has nothing on its way, and   *)
(* is told so only before anything was sent (http-atomic.js 346-385).       *)
LEMMA UntouchedStep ==
  ASSUME IInv, NEW c \in Call, Moves(c)
  PROVE  UntouchedIsFinal'
<1>1. TypeOK /\ UntouchedIsFinal /\ CallInv(c)
  BY DEF IInv
<1>2. ASSUME NEW o \in Call, o # c, reply'[o] # None, reply'[o].said = "not applied"
      PROVE  wrote'[o] = None /\ ~wire'[o]
  BY <1>1, <1>2, OthersKept DEF Kept, UntouchedIsFinal
<1>3. ASSUME reply'[c] # None, reply'[c].said = "not applied"
      PROVE  wrote'[c] = None /\ ~wire'[c]
  <2>1. CASE reply'[c] = reply[c]
    <3>1. wrote[c] = None /\ ~wire[c]
      BY <1>1, <1>3, <2>1 DEF UntouchedIsFinal
    <3>2. pc[c] # "observe"
      BY <1>1, <1>3, <2>1 DEF CallInv
    <3> QED
      BY <1>1, <3>1, <3>2 DEF Moves, Receive, Step, CanaryObserve, CanaryProbe, Observe, ObserveFails,
         Hear, GiveUp, Seal, Crash, Serve, Lose, network
  <2>2. CASE reply'[c] # reply[c]
    <3>1. CASE pc[c] \in {"idle", "canary", "probe", "observe"}
      <4>1. wrote[c] = None /\ ~wire[c]
        BY <1>1, <3>1 DEF CallInv
      <4>2. wrote' = wrote /\ wire' = wire
        BY <1>1, <2>2, <3>1, <4>1 DEF Moves, Receive, Step, CanaryObserve, CanaryProbe, Observe,
           ObserveFails, Hear, GiveUp, Seal, Crash, Serve, Lose, network
      <4> QED BY <4>1, <4>2
    <3>2. CASE pc[c] \notin {"idle", "canary", "probe", "observe"}
      <4>1. Hear(c) \/ GiveUp(c) \/ Seal(c)
        BY <2>2, <3>2 DEF Moves, Receive, Step, CanaryObserve, CanaryProbe, Observe, ObserveFails,
           Crash, Serve, Lose
      <4>2. PICK status \in Status, said \in {"unsaid", "applied"} :
              reply'[c] = Saying(status, said)
        BY <1>1, <2>2, <4>1 DEF Hear, GiveUp, Seal, Return, Status, TypeOK
      <4>3. Saying(status, said).said = said
        BY DEF Saying
      <4> QED BY <1>3, <4>2, <4>3
    <3> QED BY <3>1, <3>2
  <2> QED BY <2>1, <2>2
<1> QED BY <1>2, <1>3 DEF UntouchedIsFinal
-----------------------------------------------------------------------------
\* Nothing has been asked, sent or said.
LEMMA InitIInv == Init => IInv
<1> SUFFICES ASSUME Init PROVE IInv
  OBVIOUS
<1>1. TypeOK
  BY HttpConstants DEF Init, TypeOK, Stage
<1>2. \A c \in Call : CallInv(c)
  BY NoAnswer DEF Init, CallInv
<1>3. MemoryIsEarned /\ LastWriteStands /\ UntouchedIsFinal
  BY DEF Init, MemoryIsEarned, LastWriteStands, UntouchedIsFinal
<1> QED BY <1>1, <1>2, <1>3 DEF IInv

LEMMA StepIInv == IInv /\ [Next]_vars => IInv'
<1> SUFFICES ASSUME IInv, [Next]_vars PROVE IInv'
  OBVIOUS
<1>1. ASSUME NEW c \in Call, Moves(c) PROVE IInv'
  <2>1. pc[c] # "idle" \/ wire[c] => req[c] \in Requests
    BY DEF IInv, CallInv, TypeOK
  <2>2. TypeOK'
    BY <1>1, <2>1, ReceiveTypes, StepTypes, ServeTypes DEF Moves, IInv
  <2>3. /\ \A d \in Call : CallInv(d)'
        /\ MemoryIsEarned' /\ LastWriteStands' /\ UntouchedIsFinal'
    BY <1>1, CallsKept, MemoryStep, LastWriteStep, UntouchedStep
  <2> QED BY <2>2, <2>3 DEF IInv
<1>2. CASE Elsewhere
  BY <1>2, ElsewhereTypes, ElsewhereKept DEF IInv
<1>3. CASE UNCHANGED vars
  <2>1. TypeOK'
    BY <1>3 DEF IInv, TypeOK, vars, origin, network
  <2>2. /\ memory' = memory /\ \A d \in Call : Kept(d)
        /\ reply' = reply /\ wrote' = wrote /\ req' = req /\ wire' = wire
        /\ rep' = rep /\ others' = others
    BY <1>3 DEF vars, origin, network, Kept
  <2>3. \A d \in Call : CallInv(d)'
    BY <2>2, Untouched DEF IInv
  <2>4. MemoryIsEarned' /\ LastWriteStands' /\ UntouchedIsFinal'
    BY <2>2 DEF IInv, MemoryIsEarned, LastWriteStands, UntouchedIsFinal, MemoryKey
  <2> QED BY <2>1, <2>3, <2>4 DEF IInv
<1> QED BY <1>1, <1>2, <1>3, NextCases

(* The strengthened invariant: what each stage of a call has established,   *)
(* that the origin remembers only what it once applied, and whose           *)
(* representation a path holds that calls alone have written.               *)
THEOREM Inductive == Spec => []IInv
BY InitIInv, StepIInv, PTL DEF Spec

(* mutation_applied: false is never taken back: whatever the origin, other  *)
(* writers and late messages do, the call has written nothing and will not  *)
(* (http-atomic.js 346-385, 449-482).                                       *)
THEOREM UntouchedStaysSo == Spec => []UntouchedIsFinal
<1>1. IInv => UntouchedIsFinal
  BY DEF IInv
<1> QED BY <1>1, Inductive, PTL

(* No write of a call that asked for the canary leaves without a verdict    *)
(* HONORS_IF_MATCH (http-atomic.js 340-372).                                *)
THEOREM CanaryIsObeyed == Spec => []CanaryKeepsWritesAway
<1>1. IInv => CanaryKeepsWritesAway
  BY DEF IInv, CallInv, CanaryKeepsWritesAway
<1> QED BY <1>1, Inductive, PTL

(* What is signed was applied, by this call or, where the origin answered   *)
(* from memory, by another with the same grant and body; and where the      *)
(* precondition was judged it replaced the pinned state (http-atomic.js     *)
(* 26-40, 546-582).                                                         *)
THEOREM AttestationsAreSwaps == Spec => []AttestedIsSwap
<1>1. IInv => AttestedIsSwap
  <2> SUFFICES ASSUME IInv, NEW c \in Call, signed[c]
               PROVE  /\ seen[c] = Pinned(req[c].pin)
                      /\ IF wrote[c] # None
                           THEN wrote[c].base = Pinned(req[c].pin) \/ ~wrote[c].judged
                           ELSE \E o \in Call : /\ wrote[o] # None
                                                /\ MemoryKey(req[o]) = MemoryKey(req[c])
    BY DEF AttestedIsSwap
  <2>1. back[c] = "2xx" /\ seen[c] = Pinned(req[c].pin)
    BY DEF IInv, CallInv
  <2>2. wrote[c] # None /\ wrote[c].judged => wrote[c].base = Pinned(req[c].pin)
    BY DEF IInv, CallInv
  <2>3. wrote[c] = None => MemoryKey(req[c]) \in memory
    BY <2>1 DEF IInv, CallInv
  <2> QED BY <2>1, <2>2, <2>3 DEF IInv, MemoryIsEarned
<1> QED BY <1>1, Inductive, PTL
-----------------------------------------------------------------------------
\* An entry that is found is one of the manifest.
LEMMA ResolvedIsAnEntry ==
  ASSUME NEW keys, NEW kid, A!ResolveKeyManifest(keys, kid) # None
  PROVE  \E i \in DOMAIN keys : A!ResolveKeyManifest(keys, kid) = keys[i]
<1> DEFINE matches == {i \in DOMAIN keys : /\ keys[i].kid = kid
                                           /\ \A j \in DOMAIN keys : j < i => keys[j].kid # kid}
<1>1. matches # {} /\ A!ResolveKeyManifest(keys, kid) = keys[CHOOSE i \in matches : TRUE]
  BY DEF A!ResolveKeyManifest
<1>2. (CHOOSE i \in matches : TRUE) \in matches
  BY <1>1
<1> QED BY <1>1, <1>2

(* What ATTEST_VALID says: the token is signed by a key of the manifest     *)
(* that is active or retired, over this jti and deployment, and its target  *)
(* is the one expected (reconcile.js 168-330, atomic.js 60-130).            *)
LEMMA ValidSays ==
  ASSUME NEW token, NEW jti, NEW dep, NEW path \in Path,
         A!VerifyStoredAttestation(token, jti, dep, Keys, 0, A!Expected("exact", path)) = "ATTEST_VALID"
  PROVE  /\ token.whole
         /\ \E i \in DOMAIN Keys : /\ token.signer = Keys[i].key
                                   /\ Keys[i].status \in {"active", "retired"}
         /\ token.preimage.jti = jti /\ token.preimage.dep = dep
         /\ token.preimage.target = path
<1> DEFINE e == A!ResolveKeyManifest(Keys, token.kid)
           expected == A!Expected("exact", path)
           r == A!VerifyAtomicExecutionAttestation(token, e.key, jti, dep)
<1>1. /\ token.whole /\ e # None /\ A!KeyInForce(e, 0)
      /\ r = "ATTEST_VALID" /\ A!CompareTarget(token.preimage, expected)
  <2> DEFINE answer == A!VerifyStoredAttestation(token, jti, dep, Keys, 0, expected)
  <2>1. answer = IF Keys = None THEN "NO_KEY_MATERIAL"
                 ELSE IF ~token.whole THEN "ATTEST_MALFORMED"
                 ELSE IF e = None THEN "UNKNOWN_KID"
                 ELSE IF ~A!KeyInForce(e, 0) THEN "KEY_NOT_IN_FORCE"
                 ELSE IF e.key = None THEN "UNUSABLE_KEY"
                 ELSE IF r # "ATTEST_VALID" THEN r
                 ELSE IF ~A!CompareTarget(token.preimage, expected) THEN "ATTEST_TARGET_MISMATCH"
                 ELSE "ATTEST_VALID"
    BY Zenon DEF A!VerifyStoredAttestation
  <2>2. answer = "ATTEST_VALID"
    OBVIOUS
  <2> HIDE DEF answer, e, r, expected
  <2> QED BY <2>1, <2>2
<1>2. PICK i \in DOMAIN Keys : e = Keys[i]
  BY <1>1, ResolvedIsAnEntry
<1>3. Keys[i].status \in {"active", "retired"}
  BY <1>1, <1>2 DEF A!KeyInForce
<1>4. /\ token.signer = e.key
      /\ token.preimage.jti = jti /\ token.preimage.dep = dep
  <2> HIDE DEF e
  <2> QED BY <1>1 DEF A!VerifyAtomicExecutionAttestation
<1>5. token.preimage.target = path
  <2>1. expected # None /\ expected.kind = "exact" /\ expected.value = path
    BY NoneIsNothing DEF A!Expected
  <2> HIDE DEF expected
  <2> QED BY <1>1, <2>1 DEF A!CompareTarget
<1> QED BY <1>1, <1>2, <1>3, <1>4, <1>5

\* A token that verifies was signed by a call, never brought from elsewhere.
LEMMA ValidIsSigned ==
  ASSUME NEW token \in Signed \cup Stray, NEW jti, NEW path \in Path,
         A!VerifyStoredAttestation(token, jti, Asked, Keys, 0, A!Expected("exact", path)) = "ATTEST_VALID"
  PROVE  \E c \in Call : /\ signed[c] /\ Asked = Configured
                         /\ req[c].jti = jti /\ req[c].path = path
<1>1. token \notin Stray
  BY ValidSays, StrayAssumption
<1>2. PICK c \in Call : signed[c] /\ token = TokenOf(c)
  BY <1>1 DEF Signed
<1>3. /\ token.preimage.jti = req[c].jti /\ token.preimage.dep = Configured
      /\ token.preimage.target = req[c].path
  BY <1>2 DEF TokenOf, A!Token, A!Preimage
<1> QED BY <1>2, <1>3, ValidSays

(* A reconciliation that says CONFIRMED is right, by every token that calls *)
(* signed and every other: a write of that grant to that resource was       *)
(* applied (reconcile.js 28-35, 566-640).                                   *)
THEOREM ConfirmationsAreProven == Spec => []ConfirmedIsProven
<1>1. AttestedIsSwap => ConfirmedIsProven
  <2> SUFFICES ASSUME AttestedIsSwap,
                      NEW it \in ItemType, NEW token \in Signed \cup Stray \cup {None},
                      HttpOutcome(it, token) = "CONFIRMED"
               PROVE  /\ Asked = Configured
                      /\ \E c \in Call : /\ wrote[c] # None
                                         /\ req[c].jti = it.jti /\ req[c].path = it.path
    BY DEF ConfirmedIsProven
  <2>1. /\ token # None
        /\ A!VerifyStoredAttestation(token, it.jti, Asked, Keys, 0,
                                     A!Expected("exact", it.path)) = "ATTEST_VALID"
    BY Zenon DEF HttpOutcome
  <2>2. it.path \in Path
    BY DEF ItemType
  <2>3. PICK c \in Call : /\ signed[c] /\ Asked = Configured
                          /\ req[c].jti = it.jti /\ req[c].path = it.path
    BY <2>1, <2>2, ValidIsSigned
  <2>4. CASE wrote[c] # None
    BY <2>3, <2>4
  <2>5. CASE wrote[c] = None
    <3>1. PICK o \in Call : wrote[o] # None /\ MemoryKey(req[o]) = MemoryKey(req[c])
      BY <2>3, <2>5 DEF AttestedIsSwap
    <3> QED BY <2>3, <3>1 DEF MemoryKey
  <2> QED BY <2>3, <2>4, <2>5
<1> QED BY <1>1, AttestationsAreSwaps, PTL

\* The manifest answers the kid of the sidecar with its key, in force.
LEMMA SignerResolves ==
  LET e == A!ResolveKeyManifest(Keys, "k")
  IN e # None /\ e.status = "active" /\ e.key = "key"
<1> DEFINE matches == {i \in DOMAIN Keys : /\ Keys[i].kid = "k"
                                           /\ \A j \in DOMAIN Keys : j < i => Keys[j].kid # "k"}
<1>1. PICK i \in DOMAIN Keys :
        /\ Keys[i].kid = "k" /\ Keys[i].status = "active" /\ Keys[i].key = "key"
        /\ \A j \in DOMAIN Keys : j < i => Keys[j].kid # "k"
  BY ManifestNamesTheSigner
<1>2. i \in matches
  BY <1>1
<1>3. ASSUME NEW m \in matches PROVE m = i
  <2>1. m \in Nat /\ i \in Nat /\ ~(m < i) /\ ~(i < m)
    BY <1>1, <1>3, ManifestNamesTheSigner
  <2> QED BY <2>1
<1>4. A!ResolveKeyManifest(Keys, "k") = Keys[CHOOSE m \in matches : TRUE]
  BY <1>2, Zenon DEF A!ResolveKeyManifest
<1>5. (CHOOSE m \in matches : TRUE) = i
  BY <1>2, <1>3
<1> QED BY <1>1, <1>4, <1>5, ManifestNamesTheSigner

\* The token of a call verifies for its grant and its resource.
LEMMA SealedTokenVerifies ==
  ASSUME NEW c \in Call, req[c].path \in Path
  PROVE  A!VerifyStoredAttestation(TokenOf(c), req[c].jti, Configured, Keys, 0,
                                   A!Expected("exact", req[c].path)) = "ATTEST_VALID"
<1> DEFINE token    == TokenOf(c)
           e        == A!ResolveKeyManifest(Keys, token.kid)
           expected == A!Expected("exact", req[c].path)
<1>1. /\ token.whole = TRUE /\ token.kid = "k" /\ token.signer = "key"
      /\ token.preimage.jti = req[c].jti /\ token.preimage.dep = Configured
      /\ token.preimage.target = req[c].path
  BY DEF TokenOf, A!Token, A!Preimage
<1>2. e # None /\ e.status = "active" /\ e.key = "key"
  BY <1>1, SignerResolves
<1>3. A!KeyInForce(e, 0)
  BY <1>2, Zenon DEF A!KeyInForce
<1>4. expected.kind = "exact" /\ expected.value = req[c].path
  BY DEF A!Expected
<1> HIDE DEF token, e, expected
<1>5. A!CompareTarget(token.preimage, expected)
  BY <1>1, <1>4, NoneIsNothing DEF A!CompareTarget
<1>6. A!VerifyAtomicExecutionAttestation(token, e.key, req[c].jti, Configured) = "ATTEST_VALID"
  BY <1>1, <1>2, NoneIsNothing DEF A!VerifyAtomicExecutionAttestation
<1>7. A!VerifyStoredAttestation(token, req[c].jti, Configured, Keys, 0, expected) = "ATTEST_VALID"
  BY <1>1, <1>2, <1>3, <1>5, <1>6, NoneIsNothing, ManifestNamesTheSigner, Zenon
     DEF A!VerifyStoredAttestation, e
<1> QED BY <1>7 DEF token, expected

(* Whoever was answered OK can have it confirmed, as long as nothing else   *)
(* was written there: the OK was that of a write, this call's or one with   *)
(* the same grant and body, and what the calls wrote last is still there    *)
(* (http-atomic.js 546-633, reconcile.js 591-699).                          *)
THEOREM SealsAreConfirmed == Spec => []SealedIsConfirmed
<1>1. IInv => SealedIsConfirmed
  <2> SUFFICES ASSUME IInv, NEW c \in Call, signed[c], others = 0, Asked = Configured,
                      \A o \in Call : wrote[o] # None => req[o].body = req[c].body
               PROVE  HttpOutcome([jti |-> req[c].jti, path |-> req[c].path, expects |-> req[c].body],
                                  TokenOf(c)) = "CONFIRMED"
    BY DEF SealedIsConfirmed
  <2> DEFINE it == [jti |-> req[c].jti, path |-> req[c].path, expects |-> req[c].body]
  <2>1. CallInv(c) /\ back[c] = "2xx"
    BY DEF IInv, CallInv
  <2>2. req[c] \in Requests /\ req[c].path \in Path /\ req[c].body \in Rep
    BY <2>1, NoAnswer, RequestFields DEF IInv, CallInv, TypeOK
  <2>3. \E o \in Call : wrote[o] # None /\ req[o].path = req[c].path
    BY <2>1 DEF IInv, CallInv, MemoryIsEarned, MemoryKey
  <2>4. rep[req[c].path] = req[c].body
    BY <2>3 DEF IInv, LastWriteStands
  <2>5. Reading(req[c].path) = req[c].body /\ req[c].body # None
    BY <2>2, <2>4, NullIsNoCall DEF Reading, Held
  <2>6. TokenOf(c) # None
    <3>1. <<req[c].pin, req[c].body>> \in Pin \X Rep /\ req[c].jti \in Jti
      BY <2>2, RequestFields
    <3>2. TokenOf(c) \in SealedTokens
      BY <2>2, <3>1 DEF TokenOf, A!Token, A!Preimage, SealedTokens
    <3> QED BY <3>2, NoneIsNothing
  <2>7. it.jti = req[c].jti /\ it.path = req[c].path /\ it.expects = req[c].body
    OBVIOUS
  <2> HIDE DEF it
  <2>8. HttpOutcome(it, TokenOf(c)) = "CONFIRMED"
    BY <2>2, <2>5, <2>6, <2>7, SealedTokenVerifies, Zenon DEF HttpOutcome
  <2> QED BY <2>8 DEF it
<1> QED BY <1>1, Inductive, PTL
=============================================================================
