---------------------------- MODULE MCGitAtomic ----------------------------
(***************************************************************************)
(* Instances of GitAtomic for TLC.                                         *)
(***************************************************************************)
EXTENDS GitAtomic, TLC

CONSTANTS s1, s2, d1, d2, j1, j2, main, tag, x, y, blob

OneSidecar  == [s \in Session |-> d1]
TwoSidecars == [s \in Session |-> IF s = s1 THEN d1 ELSE d2]

\* The branch exists, the tag does not.
BranchAtX == [r \in Ref |-> IF r = main THEN x ELSE Absent]

G(dep, jti, target) == [dep |-> dep, jti |-> jti, target |-> target]

\* One grant for any ref, one for the branch alone.
TwoGrants == { G(d1, j1, None), G(d1, j2, main) }

B(ref, pin, new) == [ref |-> ref, pin |-> pin, new |-> new]

(* Moves of the branch forth and back, its creation, a request without a    *)
(* pin, and moves of the branch and the tag to an object that is no commit. *)
AllBodies ==
  { B(main, x, y), B(main, y, x), B(main, Absent, x), B(main, None, y),
    B(main, x, blob), B(tag, Absent, blob) }

\* One jti signed for each of two deployments, and one for the branch alone.
AllGrants == { G(d1, j1, None), G(d2, j1, None), G(d1, j2, main) }

\* A branch can hold no blob, a tag can.
BlobBodies == { B(main, x, blob), B(tag, Absent, blob), B(main, x, y), B(tag, blob, x) }

Ps(moves, entries) == [refs |-> moves, claims |-> entries]

(* Somebody moves the branch back, deletes it, deletes or repoints a claim, *)
(* does two of these in one push, or claims a jti that is not theirs.       *)
AllPushes ==
  { Ps(main :> x, <<>>), Ps(main :> Absent, <<>>),
    Ps(<<>>, j1 :> Absent), Ps(<<>>, j1 :> x),
    Ps(main :> x, j1 :> Absent), Ps(<<>>, j2 :> y) }
=============================================================================
