--------------------------- MODULE MCGitReconcile ---------------------------
(***************************************************************************)
(* Instances of GitReconcile for TLC.                                      *)
(***************************************************************************)
EXTENDS GitReconcile, TLC

CONSTANTS s1, s2, d1, d2, j1, j2, main, tag, x, y, blob

TwoSidecars == [s \in Session |-> IF s = s1 THEN d1 ELSE d2]

BranchAtX == [r \in Ref |-> IF r = main THEN x ELSE Absent]

\* Each sidecar has a grant of its own; the refs are for the body to say.
TwoGrants ==
  { [dep |-> d1, jti |-> j1, target |-> None], [dep |-> d2, jti |-> j2, target |-> None] }

\* A move of the branch and the creation of the tag.
MoveOrTag ==
  { [ref |-> main, pin |-> x, new |-> y], [ref |-> tag, pin |-> Absent, new |-> x] }

(* Somebody deletes or restores the branch, deletes a claim with the branch *)
(* or alone, or claims a jti without a move.                                *)
Meddling ==
  { [refs |-> main :> Absent, claims |-> <<>>], [refs |-> main :> x, claims |-> <<>>],
    [refs |-> main :> Absent, claims |-> j1 :> Absent],
    [refs |-> <<>>, claims |-> j1 :> Absent], [refs |-> <<>>, claims |-> j2 :> x] }
=============================================================================
