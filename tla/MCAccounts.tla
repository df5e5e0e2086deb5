----------------------------- MODULE MCAccounts -----------------------------
(* Instances of Accounts for TLC. *)
EXTENDS Accounts, TLC

CONSTANTS h1, h2, e1, e2

Symmetry == Permutations(Handlers) \cup Permutations(Emails)
=============================================================================
