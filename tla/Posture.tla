------------------------------ MODULE Posture ------------------------------
(***************************************************************************)
(* The posture receipt (posture.js): six catalog queries, one after the    *)
(* other and without a snapshot, are compared with the wiring that was     *)
(* frozen in BASELINE, and the verdict is signed with the executor's key,  *)
(* dated when the reading is over.  Meanwhile an administrator grants and  *)
(* revokes, and keys are retired in the manifest of keys; later the        *)
(* receipt is checked against the manifest of that day.                    *)
(***************************************************************************)
EXTENDS Integers, Sequences, FiniteSets

CONSTANTS
  Kid,           \* keys of the executor; a kid is its key pair
  ValidFrom,     \* valid_from of a key
  ValidUntil,    \* valid_until of a key in the first manifest
  Leeway,        \* POSTURE_CLOCK_SKEW_LEEWAY_MS, in ticks
  MaxClock,      \* bound: ticks of the clock
  MaxChanges,    \* bound: changes of the catalog
  None

ASSUME PostureAssumption ==
  /\ Leeway \in Nat /\ MaxClock \in Nat /\ MaxChanges \in Nat
  /\ ValidFrom \in [Kid -> Nat] /\ ValidUntil \in [Kid -> Nat]
  /\ None \notin Kid

VARIABLES
  catalog,     \* the objects each query looks at
  changes,     \* how often they were changed
  clock,
  managed,     \* whether a key manifest is configured
  manifest,    \* [until, status] of each key
  signer,      \* the key of the receipt in the making, None before it begins
  facts,       \* the answers so far, in the order of the queries
  receipt,     \* [kid, measured_at, verdict, drift], None until it is signed
  begun,       \* history: when the reading began
  was          \* history: what each query's objects were since then

vars == <<catalog, changes, clock, managed, manifest, signer, facts, receipt, begun, was>>

-----------------------------------------------------------------------------
(* The queries in their order.                                             *)
Queries == <<"tables", "sequences", "functions", "trigger", "ownerLogin", "temp">>

Part == {Queries[i] : i \in DOMAIN Queries}

(* What a query's objects may be, against BASELINE: there or not, with a    *)
(* privilege too many on the table or on one of its columns, or with        *)
(* another owner, signature, search path, overload, state or attribute.     *)
Pinned == [there |-> TRUE, onTable |-> FALSE, onColumn |-> FALSE, altered |-> FALSE]

Objects(p) ==
  { Pinned, [Pinned EXCEPT !.altered = TRUE] }
    \cup (IF p = "temp" THEN {} ELSE { [Pinned EXCEPT !.there = FALSE] })
    \cup (IF p \in {"tables", "sequences", "functions"}
          THEN { [Pinned EXCEPT !.onTable = TRUE] } ELSE {})
    \cup (IF p = "tables" THEN { [Pinned EXCEPT !.onColumn = TRUE] } ELSE {})

\* One object's facts: a privilege counts on the table or on any column.
FactOf(o) ==
  [missing |-> ~o.there, gained |-> o.onTable \/ o.onColumn, altered |-> o.altered]

BaselineFact == FactOf(Pinned)

\* The name of a deviation.
DriftName(f) ==
  IF f.missing THEN "missing from catalog" ELSE IF f.gained THEN "gained" ELSE "changed"

(* Every difference, by query; a catalog that could not be read differs.    *)
DiffFacts(fs) ==
  IF fs = None THEN {<<"catalog", "unreadable">>}
  ELSE {<<Queries[i], DriftName(fs[i])>> :
          i \in {i \in DOMAIN fs : fs[i] # BaselineFact}}

-----------------------------------------------------------------------------
(* The first catalog has at most one object that is not as pinned.          *)
Init ==
  /\ \E p \in Part : \E o \in Objects(p) :
       catalog = [q \in Part |-> IF q = p THEN o ELSE Pinned]
  /\ changes = 0 /\ clock = 0
  /\ managed \in BOOLEAN
  /\ manifest = [k \in Kid |-> [until |-> ValidUntil[k], status |-> "active"]]
  /\ signer = None /\ facts = <<>> /\ receipt = None /\ begun = None
  /\ was = [p \in Part |-> {}]

receiptVars == <<signer, facts, receipt, begun>>

Tick ==
  /\ clock < MaxClock
  /\ clock' = clock + 1
  /\ UNCHANGED <<catalog, changes, managed, manifest, receiptVars, was>>

\* GRANT, REVOKE, ALTER or DROP by an administrator during the reading; what
\* was changed before it is in Init, and what is changed later no receipt sees.
Change(p, o) ==
  /\ signer # None /\ receipt = None
  /\ changes < MaxChanges /\ catalog[p] # o
  /\ changes' = changes + 1
  /\ catalog' = [catalog EXCEPT ![p] = o]
  /\ was' = [was EXCEPT ![p] = @ \cup {o}]
  /\ UNCHANGED <<clock, managed, manifest, receiptVars>>

\* A key is rotated out: its window ends now, if it had not ended.
Retire(k) ==
  /\ managed /\ manifest[k].status = "active"
  /\ manifest' = [manifest EXCEPT ![k] =
       [until |-> IF @.until < clock THEN @.until ELSE clock, status |-> "retired"]]
  /\ UNCHANGED <<catalog, changes, clock, managed, receiptVars, was>>

\* assertSigningKeyActive, before the catalog is read; the window is not asked.
SigningKeyActive(k) == managed => manifest[k].status = "active"

Begin(k) ==
  /\ signer = None
  /\ SigningKeyActive(k)
  /\ signer' = k /\ begun' = clock
  /\ was' = [p \in Part |-> {catalog[p]}]
  /\ UNCHANGED <<catalog, changes, clock, managed, manifest, facts, receipt>>

Reading == signer # None /\ receipt = None /\ facts # None

\* The next query of readCatalogFacts.
Query ==
  /\ Reading /\ Len(facts) < Len(Queries)
  /\ facts' = Append(facts, FactOf(catalog[Queries[Len(facts) + 1]]))
  /\ UNCHANGED <<catalog, changes, clock, managed, manifest, signer, receipt, begun, was>>

\* A query fails, and with it the reading.
QueryFails ==
  /\ Reading /\ Len(facts) < Len(Queries)
  /\ facts' = None
  /\ UNCHANGED <<catalog, changes, clock, managed, manifest, signer, receipt, begun, was>>

\* Mutant: a catalog that cannot be read shows no drift.
VerdictOfRead(fs) == IF fs = None \/ DiffFacts(fs) = {} THEN "PASS" ELSE "FAIL"

Verdict(fs) == IF DiffFacts(fs) = {} THEN "PASS" ELSE "FAIL"

(* The receipt is dated and signed; a FAIL is signed as well.               *)
Sign ==
  /\ signer # None /\ receipt = None
  /\ facts # None => Len(facts) = Len(Queries)
  /\ receipt' = [kid |-> signer, measured_at |-> clock,
                 verdict |-> Verdict(facts), drift |-> DiffFacts(facts)]
  /\ UNCHANGED <<catalog, changes, clock, managed, manifest, signer, facts, begun, was>>

-----------------------------------------------------------------------------
\* Mutant: a key that has been retired verifies nothing any more.
ActiveKeyWindow(t, k) ==
  manifest[k].status = "active" /\ t + Leeway >= ValidFrom[k] /\ t - Leeway <= manifest[k].until

CheckKeyWindow(t, k) == t + Leeway >= ValidFrom[k] /\ t - Leeway <= manifest[k].until

(* verifyPostureReceipt, of the receipt in an envelope that names kid, by a *)
(* verifier who holds key.  The envelope is not signed, the preimage is.    *)
(* A manifest answers for the kid and the verifier's own key is not asked;  *)
(* without one that key decides, and the kid is not looked at.              *)
VerifyKey(kid, key) == IF ~managed THEN key ELSE IF kid \in Kid THEN kid ELSE None

VerifyPosture(kid, key) ==
  IF VerifyKey(kid, key) = None THEN "POSTURE_UNKNOWN_KEY"
  ELSE IF VerifyKey(kid, key) # receipt.kid THEN "POSTURE_INVALID_SIGNATURE"
  ELSE IF managed /\ ~CheckKeyWindow(receipt.measured_at, kid)
       THEN "POSTURE_KEY_WINDOW"
  ELSE IF receipt.verdict = "PASS" THEN "POSTURE_PASS" ELSE "POSTURE_FAIL"

Accepted(kid, key) == VerifyPosture(kid, key) \in {"POSTURE_PASS", "POSTURE_FAIL"}

Next ==
  \/ Tick \/ Query \/ QueryFails \/ Sign
  \/ \E p \in Part : \E o \in Objects(p) : Change(p, o)
  \/ \E k \in Kid : Retire(k) \/ Begin(k)

Spec == Init /\ [][Next]_vars

-----------------------------------------------------------------------------
(* What the verdict is worth although the queries share no snapshot: a PASS *)
(* says that every query's objects were as pinned at some moment of the     *)
(* reading, a drift that the one it names was not, at some moment; and if   *)
(* nothing changed in the meantime, it is exact.  A catalog that could not  *)
(* be read is never a PASS (posture.js 283-461, 624-634).                   *)
VerdictIsOfTheReading ==
  receipt # None =>
    /\ receipt.verdict = "PASS" => facts # None /\ \A p \in Part : Pinned \in was[p]
    /\ facts # None =>
         \A d \in receipt.drift : \E o \in was[d[1]] : o # Pinned /\ DriftName(FactOf(o)) = d[2]
    /\ facts # None /\ (\A p \in Part : Cardinality(was[p]) = 1) =>
         (receipt.verdict = "PASS" <=> \A p \in Part : was[p] = {Pinned})

(* Retiring a key is rotation and not revocation: a receipt begun within    *)
(* its key's window and read within the leeway is accepted, whatever was    *)
(* retired since, under its own kid where there is a manifest and with its  *)
(* own key where there is none.  What a verifier accepts, under whatever    *)
(* label and with whatever key in hand, was signed by the key that the      *)
(* manifest has for the label, or, without one, by the key in hand          *)
(* (posture.js 466-468, 515-519, 570-603).                                  *)
ReceiptsOutliveTheirKeys ==
  receipt # None =>
    /\ begun \in ValidFrom[receipt.kid] .. ValidUntil[receipt.kid] /\ receipt.measured_at - begun <= Leeway
         => \A other \in Kid \cup {None} :
              Accepted(IF managed THEN receipt.kid ELSE other, IF managed THEN other ELSE receipt.kid)
    /\ \A kid, key \in Kid \cup {None} :
         Accepted(kid, key) => receipt.kid = IF managed THEN kid ELSE key
=============================================================================
