--------------------------- MODULE MCIngestionQueue ---------------------------
(* Instances of IngestionQueue for TLC. *)
EXTENDS IngestionQueue

CONSTANTS A, B, e1, e2, e3, f1, f2, i1, i2, i3, i4

(* Three events of project A and one of project B. *)
TwoProjects == e1 :> A @@ e2 :> A @@ e3 :> A @@ f1 :> B
OwnIds == e1 :> i1 @@ e2 :> i2 @@ e3 :> i3 @@ f1 :> i4

(* Three of A; one of A and two of B. *)
OneProject == e1 :> A @@ e2 :> A @@ e3 :> A
ThreeIdsA == e1 :> i1 @@ e2 :> i2 @@ e3 :> i3

ThreeEvents == e1 :> A @@ f1 :> B @@ f2 :> B
ThreeIds == e1 :> i1 @@ f1 :> i2 @@ f2 :> i3

=============================================================================
