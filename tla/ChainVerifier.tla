--------------------------- MODULE ChainVerifier ---------------------------
(***************************************************************************)
(* What the recorder's verifier makes of a table of decisions: a set T of  *)
(* rows with fields id, chain, hash and prev.                              *)
(*                                                                         *)
(* The payload behind a hash is the hash itself here, so that the check of *)
(* a record's hash against its payload always succeeds: what is verified   *)
(* is the order and the links.  Attestations are left out.                 *)
(***************************************************************************)
EXTENDS Integers

CONSTANT NoHash   (* the NULL of column previous_record_hash *)

Before(r, T) == {s \in T : s.id < r.id}

(* p is the row just before r in record_id order. *)
Precedes(p, r, T) == p \in Before(r, T) /\ \A s \in Before(r, T) : s.id <= p.id

(* verify_chain_link, previous_hash being that of the row verified before. *)
Linked(r, T) ==
  IF Before(r, T) = {} THEN r.prev = NoHash
  ELSE \E p \in T : Precedes(p, r, T) /\ r.prev = p.hash

(* The record_id expected next. *)
InStep(r, T) ==
  IF Before(r, T) = {} THEN r.id = 1
  ELSE \E p \in T : Precedes(p, r, T) /\ r.id = p.id + 1

(* Operators ending in _Fault are mutations of the definition below them.  *)

(* Any earlier row will do. *)
LinkVerified_AnyFault(r, T) ==
  IF Before(r, T) = {} THEN r.prev = NoHash ELSE \E p \in Before(r, T) : r.prev = p.hash

(* The first row of the table is taken as it is. *)
LinkVerified_AnchorFault(r, T) == Before(r, T) = {} \/ Linked(r, T)

(* Every row but number 1 has one before it. *)
LinkVerified_GenesisFault(r, T) ==
  IF r.id = 1 THEN r.prev = NoHash
  ELSE \E p \in T : Precedes(p, r, T) /\ r.prev = p.hash

(* verify_full_integrity: number 1 is a genesis, every other row links to  *)
(* the one before it -- nothing, when there is none.                       *)
LinkVerified(r, T) == IF r.id = 1 THEN r.prev = NoHash ELSE Linked(r, T)

(* verify_full_integrity walks the whole table, whatever the chain. *)
FullIntegrity(T) == \A r \in T : LinkVerified(r, T)

(* verify_chain from 1 to the last record of chain c. *)
VerifyChain(T, c) ==
  LET C == {r \in T : r.chain = c} IN
  T = {} \/ (C # {} /\ \A r \in C : InStep(r, C) /\ Linked(r, C))
=============================================================================
