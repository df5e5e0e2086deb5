------------------------------- MODULE Ledger -------------------------------
(***************************************************************************)
(* What the decision recorder promises about its table of decisions        *)
(* whatever the number of writers: rows are added one at a time and never  *)
(* changed, a decision and a hash occur once, and every new row is either  *)
(* the first of a line of records or links to a row that is already        *)
(* committed in the same chain under a smaller record_id, with the         *)
(* sequence number that follows that row.                                  *)
(*                                                                         *)
(* It does NOT promise that a chain is one line: two rows may link to the  *)
(* same row.  Module HashChain states the stronger, linear promise.        *)
(***************************************************************************)
EXTENDS Integers

CONSTANTS
  Row,      (* every row the table can hold: a set of records            *)
  NoHash,   (* the NULL of column previous_record_hash                   *)
  NoSeq     (* the NULL of column sequence_number                        *)

VARIABLE rows  (* the committed rows of the table "decisions" *)

Fresh(r) == \A s \in rows :
  s.id # r.id /\ s.decision # r.decision /\ s.hash # r.hash

StartsLine(r) == r.prev = NoHash /\ r.seq \in {NoSeq, 1}

Follows(r, p) ==
  /\ p.chain = r.chain
  /\ p.hash = r.prev
  /\ p.id < r.id
  /\ NoSeq \in {r.seq, p.seq} \/ r.seq = p.seq + 1

Init == rows = {}

Append(r) ==
  /\ Fresh(r)
  /\ StartsLine(r) \/ \E p \in rows : Follows(r, p)
  /\ rows' = rows \cup {r}

(* The new row is looked for in the next state, Row being infinite. *)
Next == \E r \in rows' : r \in Row /\ Append(r)

Spec == Init /\ [][Next]_rows
=============================================================================
