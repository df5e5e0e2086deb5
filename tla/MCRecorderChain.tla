-------------------------- MODULE MCRecorderChain --------------------------
(* Instances of RecorderChain for TLC. *)
EXTENDS RecorderChain, TLC

CONSTANTS h1, h2, h3, A, B, d1, d2, d3, x, y

Q(d, body, c, n) ==
  [decision |-> d, body |-> body, chain |-> c, seq |-> n, valid |-> TRUE]

(* Two requests for one decision with different payloads, two numbered     *)
(* requests of one project, an invalid one and one of another project.     *)
RacingRequests ==
  {Q(d1, x, A, NoSeq), Q(d1, y, A, NoSeq), Q(d2, x, A, 1), Q(d3, x, A, 2),
   [Q(d2, y, B, NoSeq) EXCEPT !.valid = FALSE], Q(d3, y, B, NoSeq)}

(* One decision twice, for slots that wait for each other's transaction.   *)
RivalRequests == {Q(d1, x, A, 1), Q(d1, y, A, 1)}

NumberedRequests ==
  {Q(d1, x, A, 1), Q(d1, y, A, 2), Q(d2, x, A, 2), Q(d3, x, A, NoSeq),
   Q(d2, y, B, 1)}

AllServeAll == [h \in Handlers |-> Chains]
OneEach == h1 :> {A} @@ h2 :> {B}
=============================================================================
