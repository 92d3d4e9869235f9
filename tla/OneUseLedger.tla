---------------------------- MODULE OneUseLedger ----------------------------
(***************************************************************************)
(* What an executor promises of single-use grants, with everything about   *)
(* databases, refs and requests left out: a key is applied at most once,   *)
(* and evidence never speaks of an effect that did not happen.             *)
(*                                                                         *)
(* AtomicEvidence tells the executors apart (docs/adapter-spi.md, strength *)
(* per adapter).  Where it is TRUE the effect and its evidence appear in   *)
(* one step; where it is FALSE the evidence may follow later, or never.    *)
(***************************************************************************)
EXTENDS Sequences

CONSTANTS Key, Effect, AtomicEvidence

VARIABLES
  applied,    \* applied[k]: the effects of k, in order
  evidence    \* evidence[k]: the effects of k that signed evidence speaks of

vars == <<applied, evidence>>

Init ==
  /\ applied  = [k \in Key |-> <<>>]
  /\ evidence = [k \in Key |-> <<>>]

\* k is spent and its effect takes place.
Execute(k, e) ==
  /\ applied[k] = <<>>
  /\ applied' = [applied EXCEPT ![k] = <<e>>]
  /\ \/ evidence' = [evidence EXCEPT ![k] = <<e>>]
     \/ ~AtomicEvidence /\ UNCHANGED evidence

\* Evidence of an effect that took place earlier.
Attest(k) ==
  /\ ~AtomicEvidence
  /\ evidence[k] = <<>>
  /\ evidence' = [evidence EXCEPT ![k] = applied[k]]
  /\ UNCHANGED applied

Next == \E k \in Key : Attest(k) \/ \E e \in Effect : Execute(k, e)

Spec == Init /\ [][Next]_vars
=============================================================================
