----------------------------- MODULE HashChain -----------------------------
(***************************************************************************)
(* The chain the documents describe (TRUST_FREEZE.md, section 3;           *)
(* ordering_guarantees.md): one line of links per project, which only      *)
(* grows at its end, every link holding the hash of the link before it,    *)
(* and a hash used once in all projects.                                   *)
(***************************************************************************)
EXTENDS Naturals, Sequences

CONSTANTS Chains, Hash, NoHash

VARIABLE line  (* line[c]: the links of project c, oldest first *)

Uses(c, h) == \E i \in DOMAIN line[c] : line[c][i].hash = h

LastHash(c) == IF line[c] = <<>> THEN NoHash ELSE line[c][Len(line[c])].hash

Init == line = [c \in Chains |-> <<>>]

Extend(c, h) ==
  /\ \A d \in Chains : ~Uses(d, h)
  /\ line' = [line EXCEPT ![c] = Append(@, [hash |-> h, prev |-> LastHash(c)])]

Next == \E c \in Chains, h \in Hash : Extend(c, h)

Spec == Init /\ [][Next]_line
=============================================================================
