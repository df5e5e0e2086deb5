-------------------------- MODULE MCGatewayAdmission --------------------------
(* Instances of GatewayAdmission for TLC. *)
EXTENDS GatewayAdmission, TLC

CONSTANTS A, r1, r2, r3, m0, m1, m2, m3

(* Months of one tick, seen by clocks that are up to one tick behind. *)
Calendar == -1 :> m0 @@ 0 :> m1 @@ 1 :> m2 @@ 2 :> m3

Symmetric == Permutations(Requests)
=============================================================================
