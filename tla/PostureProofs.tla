---------------------------- MODULE PostureProofs ----------------------------
(***************************************************************************)
(* What a posture verdict is worth and how long it is accepted, for any    *)
(* keys and windows and any number of changes of the catalog.              *)
(***************************************************************************)
EXTENDS Posture, FiniteSetTheorems, TLAPS

\* A query's objects since the reading began, and as they are.
CatalogInv ==
  /\ DOMAIN catalog = Part /\ DOMAIN was = Part
  /\ \A p \in Part : /\ catalog[p] \in Objects(p)
                     /\ was[p] \subseteq Objects(p) /\ IsFiniteSet(was[p])
                     /\ signer # None /\ receipt = None => catalog[p] \in was[p]

\* An answer is of an object that was there during the reading.
FactsInv ==
  \/ facts = None
  \/ /\ facts \in Seq({FactOf(o) : o \in UNION {Objects(p) : p \in Part}})
     /\ Len(facts) <= Len(Queries)
     /\ signer = None => facts = <<>>
     /\ \A i \in 1 .. Len(facts) : \E o \in was[Queries[i]] : facts[i] = FactOf(o)

\* A receipt is of the whole reading, or of its failure, and stays so.
ReceiptInv ==
  receipt # None =>
    /\ signer # None /\ receipt.kid = signer
    /\ facts = None \/ Len(facts) = Len(Queries)
    /\ receipt.verdict = Verdict(facts) /\ receipt.drift = DiffFacts(facts)
    /\ receipt.measured_at \in Nat /\ begun <= receipt.measured_at

(* The signing key was active when the reading began: its window can only   *)
(* have been closed since.                                                  *)
KeysInv ==
  /\ clock \in Nat
  /\ manifest \in [Kid -> [until : Nat, status : {"active", "retired"}]]
  /\ \A k \in Kid : manifest[k].status = "active" => manifest[k].until = ValidUntil[k]
  /\ signer # None =>
       /\ signer \in Kid /\ begun \in Nat /\ begun <= clock
       /\ managed => \/ manifest[signer].until = ValidUntil[signer]
                     \/ manifest[signer].until >= begun

PostureInv == CatalogInv /\ FactsInv /\ ReceiptInv /\ KeysInv

\* The queries.
LEMMA QueryNames ==
  /\ Len(Queries) = 6 /\ DOMAIN Queries = 1 .. 6
  /\ \A i \in 1 .. 6 : Queries[i] \in Part
  /\ \A p \in Part : \E i \in 1 .. 6 : p = Queries[i]
BY DEF Queries, Part

\* Only an object as pinned has the facts of the baseline.
LEMMA PinnedByFact ==
  ASSUME NEW p \in Part, NEW o \in Objects(p)
  PROVE  FactOf(o) = BaselineFact <=> o = Pinned
<1>1. \/ o = Pinned
      \/ o = [there |-> TRUE, onTable |-> FALSE, onColumn |-> FALSE, altered |-> TRUE]
      \/ o = [there |-> FALSE, onTable |-> FALSE, onColumn |-> FALSE, altered |-> FALSE]
      \/ o = [there |-> TRUE, onTable |-> TRUE, onColumn |-> FALSE, altered |-> FALSE]
      \/ o = [there |-> TRUE, onTable |-> FALSE, onColumn |-> TRUE, altered |-> FALSE]
  BY DEF Objects, Pinned
<1>2. CASE o.altered /\ o # Pinned
  <2>1. FactOf(o).altered # BaselineFact.altered
    BY <1>2 DEF FactOf, BaselineFact, Pinned
  <2> QED BY <1>2, <2>1
<1>3. CASE ~o.there /\ o # Pinned
  <2>1. FactOf(o).missing # BaselineFact.missing
    BY <1>3 DEF FactOf, BaselineFact, Pinned
  <2> QED BY <1>3, <2>1
<1>4. CASE (o.onTable \/ o.onColumn) /\ o # Pinned
  <2>1. FactOf(o).gained # BaselineFact.gained
    BY <1>4 DEF FactOf, BaselineFact, Pinned
  <2> QED BY <1>4, <2>1
<1>5. o = Pinned \/ ((o.altered \/ ~o.there \/ o.onTable \/ o.onColumn) /\ o # Pinned)
  BY <1>1 DEF Pinned
<1>6. CASE o = Pinned
  BY <1>6 DEF BaselineFact
<1> QED BY <1>2, <1>3, <1>4, <1>5, <1>6

\* The first catalog satisfies the invariant.
LEMMA PostureInit == Init => PostureInv
<1> SUFFICES ASSUME Init PROVE PostureInv
  OBVIOUS
<1>1. CatalogInv
  <2>1. PICK p \in Part : \E o \in Objects(p) :
           catalog = [q \in Part |-> IF q = p THEN o ELSE Pinned]
    BY Zenon DEF Init
  <2>2. PICK o \in Objects(p) : catalog = [q \in Part |-> IF q = p THEN o ELSE Pinned]
    BY <2>1
  <2>3. \A q \in Part : Pinned \in Objects(q)
    BY DEF Objects
  <2>4. was = [q \in Part |-> {}] /\ signer = None /\ IsFiniteSet({})
    BY FS_EmptySet DEF Init
  <2> QED BY <2>2, <2>3, <2>4 DEF CatalogInv
<1>2. FactsInv
  BY QueryNames DEF Init, FactsInv
<1>3. ReceiptInv
  BY DEF Init, ReceiptInv
<1>4. KeysInv
  BY PostureAssumption DEF Init, KeysInv
<1> QED BY <1>1, <1>2, <1>3, <1>4 DEF PostureInv

\* A change of the catalog during the reading.
LEMMA ChangeStep ==
  ASSUME PostureInv, NEW p \in Part, NEW o \in Objects(p), Change(p, o)
  PROVE  PostureInv'
<1>1. CatalogInv'
  <2>1. /\ DOMAIN catalog = Part /\ DOMAIN was = Part
        /\ catalog' = [catalog EXCEPT ![p] = o]
        /\ was' = [was EXCEPT ![p] = @ \cup {o}]
    BY DEF Change, PostureInv, CatalogInv
  <2>2. IsFiniteSet(was[p]) /\ IsFiniteSet(was[p] \cup {o})
    BY FS_AddElement DEF PostureInv, CatalogInv
  <2> QED BY <2>1, <2>2 DEF Change, PostureInv, CatalogInv, receiptVars
<1>2. FactsInv'
  <2>1. \A q \in Part : was[q] \subseteq was'[q]
    BY DEF Change, PostureInv, CatalogInv
  <2>2. UNCHANGED <<facts, signer>>
    BY DEF Change, receiptVars
  <2>3. \A i \in 1 .. 6 : Queries[i] \in Part
    BY QueryNames
  <2> QED BY <2>1, <2>2, <2>3, QueryNames DEF PostureInv, FactsInv
<1>3. ReceiptInv' /\ KeysInv'
  BY DEF Change, PostureInv, ReceiptInv, KeysInv, receiptVars
<1> QED BY <1>1, <1>2, <1>3 DEF PostureInv

\* The next query, or its failure.
LEMMA QueryStep ==
  ASSUME PostureInv, Query \/ QueryFails
  PROVE  PostureInv'
<1>1. UNCHANGED <<catalog, clock, managed, manifest, signer, receipt, begun, was>>
  BY DEF Query, QueryFails
<1>2. CatalogInv' /\ KeysInv'
  BY <1>1 DEF PostureInv, CatalogInv, KeysInv
<1>3. FactsInv'
  <2>1. CASE QueryFails
    BY <2>1 DEF QueryFails, FactsInv
  <2>2. CASE Query
    <3> DEFINE n == Len(facts)
               f == FactOf(catalog[Queries[n + 1]])
               F == {FactOf(o) : o \in UNION {Objects(p) : p \in Part}}
    <3>1. /\ facts \in Seq(F) /\ n < 6 /\ facts' = Append(facts, f) /\ n \in Nat
          /\ signer # None /\ receipt = None
          /\ \A i \in 1 .. n : \E o \in was[Queries[i]] : facts[i] = FactOf(o)
      BY <2>2, QueryNames DEF PostureInv, FactsInv, Query, Reading
    <3>2. Queries[n + 1] \in Part
      BY <3>1, QueryNames
    <3>3. catalog[Queries[n + 1]] \in was[Queries[n + 1]] /\ f \in F
      BY <3>1, <3>2 DEF PostureInv, CatalogInv
    <3> HIDE DEF f, F
    <3>4. /\ facts' \in Seq(F) /\ Len(facts') = n + 1
          /\ facts'[n + 1] = f /\ \A i \in 1 .. n : facts'[i] = facts[i]
      BY <3>1, <3>3
    <3>5. \A i \in 1 .. n + 1 : i \in 1 .. n \/ i = n + 1
      BY <3>1
    <3>6. \A i \in 1 .. Len(facts') : \E o \in was'[Queries[i]] : facts'[i] = FactOf(o)
      BY <1>1, <3>1, <3>3, <3>4, <3>5 DEF f
    <3>7. Len(facts') <= Len(Queries) /\ signer' # None
      BY <1>1, <3>1, <3>4, QueryNames
    <3> QED BY <3>4, <3>6, <3>7 DEF FactsInv, F
  <2> QED BY <2>1, <2>2
<1>4. ReceiptInv'
  BY <1>1 DEF ReceiptInv, Query, QueryFails, Reading
<1> QED BY <1>2, <1>3, <1>4 DEF PostureInv

\* A retirement closes a window now, and no earlier than a reading began.
LEMMA RetireStep ==
  ASSUME PostureInv, NEW k \in Kid, Retire(k)
  PROVE  PostureInv'
<1>1. UNCHANGED <<catalog, clock, managed, signer, facts, receipt, begun, was>>
  BY DEF Retire, receiptVars
<1>2. CatalogInv' /\ FactsInv' /\ ReceiptInv'
  BY <1>1 DEF PostureInv, CatalogInv, FactsInv, ReceiptInv
<1>3. KeysInv'
  <2> DEFINE until == IF manifest[k].until < clock THEN manifest[k].until ELSE clock
  <2>1. /\ clock \in Nat /\ manifest[k].until \in Nat /\ manifest[k].until = ValidUntil[k]
        /\ manifest \in [Kid -> [until : Nat, status : {"active", "retired"}]]
        /\ manifest' = [manifest EXCEPT ![k] = [until |-> until, status |-> "retired"]]
    BY DEF Retire, PostureInv, KeysInv
  <2>2. until \in Nat /\ (until = ValidUntil[k] \/ until = clock)
    BY <2>1
  <2> HIDE DEF until
  <2>3. /\ manifest'[k] = [until |-> until, status |-> "retired"]
        /\ \A j \in Kid \ {k} : manifest'[j] = manifest[j]
        /\ manifest' \in [Kid -> [until : Nat, status : {"active", "retired"}]]
    BY <2>1, <2>2
  <2> QED BY <1>1, <2>1, <2>2, <2>3 DEF PostureInv, KeysInv
<1> QED BY <1>2, <1>3 DEF PostureInv

\* A reading begins with a key that is active.
LEMMA BeginStep ==
  ASSUME PostureInv, NEW k \in Kid, Begin(k)
  PROVE  PostureInv'
<1>1. /\ signer = None /\ signer' = k /\ begun' = clock
      /\ managed => manifest[k].status = "active"
      /\ was' = [p \in Part |-> {catalog[p]}]
      /\ UNCHANGED <<catalog, clock, managed, manifest, facts, receipt>>
  BY DEF Begin, SigningKeyActive
<1>2. CatalogInv'
  BY <1>1, FS_Singleton DEF PostureInv, CatalogInv
<1>3. FactsInv'
  BY <1>1 DEF PostureInv, FactsInv
<1>4. receipt = None
  BY <1>1 DEF PostureInv, ReceiptInv
<1>5. ReceiptInv' /\ KeysInv'
  BY <1>1, <1>4 DEF PostureInv, KeysInv, ReceiptInv
<1> QED BY <1>2, <1>3, <1>5 DEF PostureInv

\* The receipt is of what was read.
LEMMA SignStep ==
  ASSUME PostureInv, Sign
  PROVE  PostureInv'
<1>1. /\ signer # None /\ receipt = None
      /\ facts # None => Len(facts) = Len(Queries)
      /\ receipt' = [kid |-> signer, measured_at |-> clock,
                     verdict |-> Verdict(facts), drift |-> DiffFacts(facts)]
      /\ UNCHANGED <<catalog, clock, managed, manifest, signer, facts, begun, was>>
  BY DEF Sign
<1>2. CatalogInv' /\ FactsInv' /\ KeysInv'
  BY <1>1 DEF PostureInv, CatalogInv, FactsInv, KeysInv
<1>3. ReceiptInv'
  <2>1. Verdict(facts)' = Verdict(facts) /\ DiffFacts(facts)' = DiffFacts(facts)
    BY <1>1 DEF Verdict, DiffFacts
  <2> QED BY <1>1, <2>1 DEF PostureInv, KeysInv, ReceiptInv
<1> QED BY <1>2, <1>3 DEF PostureInv

\* The invariant of the receipt, its catalog and its keys.
THEOREM PostureInductive == Spec => []PostureInv
<1>1. PostureInv /\ [Next]_vars => PostureInv'
  <2>1. CASE UNCHANGED vars \/ Tick
    <3>1. /\ UNCHANGED <<catalog, managed, manifest, signer, facts, receipt, begun, was>>
          /\ clock' = clock \/ clock' = clock + 1
      BY <2>1 DEF vars, Tick, receiptVars
    <3> QED BY <3>1 DEF PostureInv, CatalogInv, FactsInv, ReceiptInv, KeysInv
  <2> QED BY <2>1, ChangeStep, QueryStep, RetireStep, BeginStep, SignStep DEF Next
<1> QED BY PostureInit, <1>1, PTL DEF Spec

(* A PASS says of each query's objects that they were as pinned at some     *)
(* moment of the reading, a drift that they were not; an unchanged catalog  *)
(* is judged exactly (posture.js 283-461, 624-634).                         *)
THEOREM VerdictsAreOfTheReading == Spec => []VerdictIsOfTheReading
<1>1. ASSUME PostureInv, receipt # None
      PROVE  VerdictIsOfTheReading
  <2>1. /\ receipt.verdict = (IF DiffFacts(facts) = {} THEN "PASS" ELSE "FAIL")
        /\ receipt.drift = DiffFacts(facts)
        /\ facts = None \/ Len(facts) = 6
    BY <1>1, QueryNames DEF PostureInv, ReceiptInv, Verdict
  <2>2. facts = None => receipt.verdict # "PASS"
    BY <2>1 DEF DiffFacts
  <2>3. ASSUME facts # None
        PROVE  /\ DOMAIN facts = 1 .. 6
               /\ DiffFacts(facts) = {<<Queries[i], DriftName(facts[i])>> :
                                        i \in {i \in 1 .. 6 : facts[i] # BaselineFact}}
               /\ \A i \in 1 .. 6 : \E o \in was[Queries[i]] :
                    facts[i] = FactOf(o) /\ (facts[i] = BaselineFact <=> o = Pinned)
    <3>1. DOMAIN facts = 1 .. 6
      BY <1>1, <2>1, <2>3 DEF PostureInv, FactsInv
    <3>2. ASSUME NEW i \in 1 .. 6
          PROVE  \E o \in was[Queries[i]] :
                    facts[i] = FactOf(o) /\ (facts[i] = BaselineFact <=> o = Pinned)
      <4>1. PICK o \in was[Queries[i]] : facts[i] = FactOf(o)
        BY <1>1, <2>1, <2>3 DEF PostureInv, FactsInv
      <4>2. Queries[i] \in Part /\ o \in Objects(Queries[i])
        BY <1>1, QueryNames DEF PostureInv, CatalogInv
      <4> QED BY <4>1, <4>2, PinnedByFact
    <3> QED BY <2>3, <3>1, <3>2, Zenon DEF DiffFacts
  <2>4. facts # None /\ receipt.verdict = "PASS" => \A i \in 1 .. 6 : facts[i] = BaselineFact
    <3>1. ASSUME facts # None, receipt.verdict = "PASS",
                 NEW i \in 1 .. 6, facts[i] # BaselineFact
          PROVE  FALSE
      <4>1. <<Queries[i], DriftName(facts[i])>> \in DiffFacts(facts)
        BY <2>3, <3>1
      <4>2. DiffFacts(facts) = {}
        BY <2>1, <3>1
      <4> QED BY <4>1, <4>2
    <3> QED BY <3>1
  <2>5. receipt.verdict = "PASS" => facts # None /\ \A p \in Part : Pinned \in was[p]
    <3>1. ASSUME receipt.verdict = "PASS", NEW p \in Part
          PROVE  Pinned \in was[p]
      BY <2>2, <2>3, <2>4, <3>1, QueryNames
    <3> QED BY <2>2, <3>1
  <2>6. facts # None =>
          \A d \in receipt.drift : \E o \in was[d[1]] : o # Pinned /\ DriftName(FactOf(o)) = d[2]
    <3>1. ASSUME facts # None, NEW d \in DiffFacts(facts)
          PROVE  \E o \in was[d[1]] : o # Pinned /\ DriftName(FactOf(o)) = d[2]
      <4>1. PICK i \in 1 .. 6 : /\ d = <<Queries[i], DriftName(facts[i])>>
                                /\ facts[i] # BaselineFact
        BY <2>3, <3>1
      <4>2. d[1] = Queries[i] /\ d[2] = DriftName(facts[i])
        BY <4>1
      <4> QED BY <2>3, <3>1, <4>1, <4>2
    <3> QED BY <2>1, <3>1
  <2>7. facts # None /\ (\A p \in Part : Cardinality(was[p]) = 1) =>
          (receipt.verdict = "PASS" <=> \A p \in Part : was[p] = {Pinned})
    <3>1. SUFFICES ASSUME facts # None, \A p \in Part : Cardinality(was[p]) = 1
                   PROVE  receipt.verdict = "PASS" <=> \A p \in Part : was[p] = {Pinned}
      OBVIOUS
    <3>2. \A p \in Part : \E o : was[p] = {o}
      BY <1>1, <3>1, FS_Singleton DEF PostureInv, CatalogInv
    <3>3. receipt.verdict = "PASS" => \A p \in Part : was[p] = {Pinned}
      BY <2>5, <3>2
    <3>4. ASSUME \A p \in Part : was[p] = {Pinned}
          PROVE  receipt.verdict = "PASS"
      <4>1. \A i \in 1 .. 6 : facts[i] = BaselineFact
        BY <2>3, <3>1, <3>4, QueryNames
      <4> QED BY <2>1, <2>3, <3>1, <4>1
    <3> QED BY <3>3, <3>4
  <2> QED BY <1>1, <2>5, <2>6, <2>7 DEF VerdictIsOfTheReading
<1>2. PostureInv => VerdictIsOfTheReading
  BY <1>1 DEF VerdictIsOfTheReading
<1> QED BY PostureInductive, <1>2, PTL

(* Retiring a key is rotation: a receipt begun within its key's window and  *)
(* read within the leeway stays accepted, under its own kid by a manifest   *)
(* and under any label by a verifier who holds its key; nothing is accepted *)
(* that another key signed (posture.js 466-468, 515-519, 570-603).          *)
THEOREM RotationIsNotRevocation == Spec => []ReceiptsOutliveTheirKeys
<1>1. ASSUME PostureInv, receipt # None
      PROVE  ReceiptsOutliveTheirKeys
  <2> DEFINE own == receipt.kid
  <2>1. /\ own \in Kid /\ begun \in Nat /\ receipt.measured_at \in Nat
        /\ begun <= receipt.measured_at
        /\ manifest[own].until \in Nat /\ ValidFrom[own] \in Nat /\ ValidUntil[own] \in Nat
        /\ managed => manifest[own].until = ValidUntil[own] \/ manifest[own].until >= begun
    BY <1>1, PostureAssumption DEF PostureInv, ReceiptInv, KeysInv
  <2>2. ASSUME begun \in ValidFrom[own] .. ValidUntil[own], receipt.measured_at - begun <= Leeway,
               NEW other \in Kid \cup {None}
        PROVE  Accepted(IF managed THEN own ELSE other, IF managed THEN other ELSE own)
    <3>1. CASE managed
      <4>1. CheckKeyWindow(receipt.measured_at, own)
        BY <2>1, <2>2, <3>1, PostureAssumption DEF CheckKeyWindow
      <4>2. VerifyKey(own, other) = own
        BY <2>1, <3>1 DEF VerifyKey
      <4>3. Accepted(own, other)
        BY <2>1, <3>1, <4>1, <4>2, PostureAssumption DEF Accepted, VerifyPosture
      <4> QED BY <3>1, <4>3
    <3>2. CASE ~managed
      <4>1. VerifyKey(other, own) = own
        BY <3>2 DEF VerifyKey
      <4>2. Accepted(other, own)
        BY <2>1, <3>2, <4>1, PostureAssumption DEF Accepted, VerifyPosture
      <4> QED BY <3>2, <4>2
    <3> QED BY <3>1, <3>2
  <2>3. ASSUME NEW kid \in Kid \cup {None}, NEW key \in Kid \cup {None}, Accepted(kid, key)
        PROVE  own = IF managed THEN kid ELSE key
    <3>1. VerifyKey(kid, key) # None /\ VerifyKey(kid, key) = own
      BY <2>3 DEF Accepted, VerifyPosture
    <3> QED BY <3>1 DEF VerifyKey
  <2> QED BY <1>1, <2>2, <2>3 DEF ReceiptsOutliveTheirKeys
<1>2. PostureInv => ReceiptsOutliveTheirKeys
  BY <1>1 DEF ReceiptsOutliveTheirKeys
<1> QED BY PostureInductive, <1>2, PTL
=============================================================================
