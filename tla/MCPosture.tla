----------------------------- MODULE MCPosture -----------------------------
(***************************************************************************)
(* Two executor keys: the window of k1 is over almost at once, that of k2  *)
(* begins later than the first moment a receipt can be made.               *)
(***************************************************************************)
EXTENDS Posture, TLC

CONSTANTS k1, k2

FromOfKid  == (k1 :> 0) @@ (k2 :> 2)
UntilOfKid == (k1 :> 0) @@ (k2 :> 2)
=============================================================================
