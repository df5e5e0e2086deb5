---------------------------- MODULE MCGateReview ----------------------------
(* Instances of GateReview for TLC. *)
EXTENDS GateReview, TLC

CONSTANTS r1, r2

(* Both verdicts, and a review that reopens. *)
SomeAsks ==
  {<<"resolve", "approved">>, <<"resolve", "declined">>, <<"review", "in_review">>}

SomePolicies == {{"require_approval"}, {"block"}, {"auto_approve"}}
BlockPolicies == {{"block"}}

ReviewerSymmetry == Permutations(Reviewers)
=============================================================================
