------------------------------ MODULE MCChain ------------------------------
(***************************************************************************)
(* Proof runs with two versions of the proposal; every deviation of the    *)
(* environment is a choice of the step it bites in.                        *)
(***************************************************************************)
EXTENDS EvidenceChain

CONSTANTS b1, b2
=============================================================================
