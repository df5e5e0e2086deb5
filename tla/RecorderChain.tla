--------------------------- MODULE RecorderChain ---------------------------
(***************************************************************************)
(* The decision recorder: request handlers that append rows to the table   *)
(* "decisions" of one PostgreSQL database.                                 *)
(*                                                                         *)
(* POST /v1/decisions runs as a coroutine per request.  record_decision    *)
(* awaits the database several times -- duplicate check, last record of    *)
(* the project's chain, INSERT, COMMIT, refresh -- and holds no lock across *)
(* them, so the steps of different handlers interleave.  Every statement   *)
(* runs at READ COMMITTED (the engine's default): a SELECT sees the rows   *)
(* committed when it starts.                                               *)
(*                                                                         *)
(* A payload is abstracted to a pair of a decision id and a body; its      *)
(* SHA-256 is that pair itself (two payloads collide only when equal).     *)
(***************************************************************************)
EXTENDS Integers, FiniteSets

CONSTANTS
  Handlers,   (* request slots: coroutines of one or several recorders   *)
  Chains,     (* project ids; chain_id = project_id                      *)
  Decisions,  (* decision ids                                            *)
  Bodies,     (* everything else in a canonical payload                  *)
  Requests,   (* the requests clients may send, again and again          *)
  Serves,     (* Serves[h]: the chains whose requests may reach slot h   *)
  MaxId,      (* the last value of the record_id sequence (2^63 - 1 for  *)
              (* a BIGSERIAL): the bound on INSERTs attempted            *)
  NoHash, NoSeq, NoRow, NoRequest

Hash == Decisions \X Bodies

Request == [decision : Decisions, body : Bodies, chain : Chains,
            seq : Int \cup {NoSeq}, valid : BOOLEAN]

Row == [id : Nat, decision : Decisions, hash : Hash, chain : Chains,
        prev : Hash \cup {NoHash}, seq : Int \cup {NoSeq}]

ASSUME RequestsAssumption == Requests \subseteq Request
ASSUME ServesAssumption == Serves \in [Handlers -> SUBSET Chains]
ASSUME MaxIdAssumption == MaxId \in Nat
ASSUME NullAssumption ==
  /\ NoHash \notin Hash
  /\ NoSeq \notin Int
  /\ NoRow \notin Row
  /\ NoRequest \notin Request

VARIABLES
  rows,     (* committed rows of the table "decisions"                   *)
  nextId,   (* the BIGSERIAL behind record_id                            *)
  pc,       (* pc[h]: how far handler h is, or what it answered          *)
  req,      (* req[h]: the request it handles or answered                *)
  tail,     (* tail[h]: the last record it read                          *)
  rid       (* rid[h]: the record_id its INSERT was given                *)

vars == <<rows, nextId, pc, req, tail, rid>>

Stages == {"received", "checked", "linked", "inserting", "hashed", "flushed", "committed"}
Outcomes == {"rejected", "duplicate", "ordering", "storage_error", "recorded"}

-----------------------------------------------------------------------------
(* The operators whose names end in _Fault are mutations: forms of the     *)
(* definition below them that a plausible bug would give.  No definition   *)
(* uses them; each shows that a property can fail.                         *)

(* record_hash depends on the payload only, not on the previous hash. *)
HashOf(q) == <<q.decision, q.body>>

SequenceAccepted_FirstFault(q, last) ==
  \/ q.seq = NoSeq
  \/ last = NoRow
  \/ last # NoRow /\ last.seq = NoSeq
  \/ last # NoRow /\ last.seq # NoSeq /\ q.seq # NoSeq /\ q.seq = last.seq + 1

SequenceAccepted(q, last) ==
  \/ q.seq = NoSeq
  \/ last = NoRow /\ q.seq = 1
  \/ last # NoRow /\ last.seq = NoSeq
  \/ last # NoRow /\ last.seq # NoSeq /\ q.seq = last.seq + 1

RowOf_UnlinkedFault(h) ==
  [id |-> rid[h], decision |-> req[h].decision, hash |-> HashOf(req[h]),
   chain |-> req[h].chain, prev |-> NoHash, seq |-> req[h].seq]

RowOf(h) ==
  [id |-> rid[h], decision |-> req[h].decision, hash |-> HashOf(req[h]),
   chain |-> req[h].chain,
   prev |-> IF tail[h] = NoRow THEN NoHash ELSE tail[h].hash,
   seq |-> req[h].seq]

(* The handler leaves record_decision and its session is closed. *)
Forget(h) ==
  /\ tail' = [tail EXCEPT ![h] = NoRow]
  /\ rid' = [rid EXCEPT ![h] = 0]

Reply(h, outcome) ==
  /\ pc' = [pc EXCEPT ![h] = outcome]
  /\ req' = req
  /\ Forget(h)

-----------------------------------------------------------------------------
Init ==
  /\ rows = {}
  /\ nextId = 1
  /\ pc = [h \in Handlers |-> "idle"]
  /\ req = [h \in Handlers |-> NoRequest]
  /\ tail = [h \in Handlers |-> NoRow]
  /\ rid = [h \in Handlers |-> 0]

Receive(h, q) ==
  /\ pc[h] \notin Stages
  /\ q.chain \in Serves[h]
  /\ pc' = [pc EXCEPT ![h] = "received"]
  /\ req' = [req EXCEPT ![h] = q]
  /\ UNCHANGED <<rows, nextId, tail, rid>>

(* Environment mismatch 409, guard 401/400, semantic validation 422. *)
RejectInvalid(h) ==
  /\ pc[h] = "received"
  /\ ~req[h].valid
  /\ Reply(h, "rejected")
  /\ UNCHANGED <<rows, nextId>>

CheckDuplicate(h) ==
  /\ pc[h] = "received"
  /\ req[h].valid
  /\ \/ /\ \E r \in rows : r.decision = req[h].decision
        /\ Reply(h, "duplicate")
     \/ /\ \A r \in rows : r.decision # req[h].decision
        /\ pc' = [pc EXCEPT ![h] = "checked"]
        /\ UNCHANGED <<req, tail, rid>>
  /\ UNCHANGED <<rows, nextId>>

IsLast_AnyChainFault(r, c) ==
  r \in rows /\ \A s \in rows : s.id <= r.id

IsLast_AscendingFault(r, c) ==
  /\ r \in rows
  /\ r.chain = c
  /\ \A s \in rows : s.chain = c => s.id >= r.id

IsLast(r, c) ==
  /\ r \in rows
  /\ r.chain = c
  /\ \A s \in rows : s.chain = c => s.id <= r.id

(* get_last_record, and the sequence check that follows without an await. *)
GetLastRecord(h) ==
  /\ pc[h] = "checked"
  /\ \E last \in rows \cup {NoRow} :
       /\ \/ IsLast(last, req[h].chain)
          \/ last = NoRow /\ \A r \in rows : r.chain # req[h].chain
       /\ \/ /\ SequenceAccepted(req[h], last)
             /\ pc' = [pc EXCEPT ![h] = "linked"]
             /\ tail' = [tail EXCEPT ![h] = last]
             /\ UNCHANGED <<req, rid>>
          \/ /\ ~SequenceAccepted(req[h], last)
             /\ Reply(h, "ordering")
  /\ UNCHANGED <<rows, nextId>>

(* Ids counted from the table instead of drawn from the sequence. *)
TakeId_CountFault(h) ==
  /\ pc[h] = "linked"
  /\ nextId <= MaxId
  /\ pc' = [pc EXCEPT ![h] = "inserting"]
  /\ rid' = [rid EXCEPT ![h] = Cardinality(rows) + 1]
  /\ nextId' = nextId + 1
  /\ UNCHANGED <<rows, req, tail>>

(* The flush sends the INSERT: nextval() is taken before any index is      *)
(* consulted, and a sequence is never rolled back.                         *)
TakeId(h) ==
  /\ pc[h] = "linked"
  /\ nextId <= MaxId
  /\ pc' = [pc EXCEPT ![h] = "inserting"]
  /\ rid' = [rid EXCEPT ![h] = nextId]
  /\ nextId' = nextId + 1
  /\ UNCHANGED <<rows, req, tail>>

(* The INSERT enters the unique indexes one after the other, in the order  *)
(* they were created: those of the two hash columns, made with the table,  *)
(* then that of decision_id, made after it.  In each it waits for the end  *)
(* of an open transaction that has entered it with the same key.           *)
EnterHashIndexes(h) ==
  /\ pc[h] = "inserting"
  /\ \A r \in rows : r.hash # HashOf(req[h])
  /\ \A g \in Handlers : pc[g] \in {"hashed", "flushed"} => HashOf(req[g]) # HashOf(req[h])
  /\ pc' = [pc EXCEPT ![h] = "hashed"]
  /\ UNCHANGED <<rows, nextId, req, tail, rid>>

(* No unique index: the duplicate check is trusted. *)
EnterDecisionIndex_TrustFault(h) ==
  /\ pc[h] = "hashed"
  /\ pc' = [pc EXCEPT ![h] = "flushed"]
  /\ UNCHANGED <<rows, nextId, req, tail, rid>>

(* It waits for rivals that may be waiting themselves. *)
EnterDecisionIndex_WaitFault(h) ==
  /\ pc[h] = "hashed"
  /\ \A r \in rows : r.decision # req[h].decision
  /\ \A g \in Handlers \ {h} :
       pc[g] \in {"hashed", "flushed"} => req[g].decision # req[h].decision
  /\ pc' = [pc EXCEPT ![h] = "flushed"]
  /\ UNCHANGED <<rows, nextId, req, tail, rid>>

EnterDecisionIndex(h) ==
  /\ pc[h] = "hashed"
  /\ \A r \in rows : r.decision # req[h].decision
  /\ \A g \in Handlers : pc[g] = "flushed" => req[g].decision # req[h].decision
  /\ pc' = [pc EXCEPT ![h] = "flushed"]
  /\ UNCHANGED <<rows, nextId, req, tail, rid>>

(* A unique violation.  create_all names the index ix_decisions_decision_id *)
(* and insert_record looks for decisions_decision_id_key: the loser of a   *)
(* race is answered StorageError (500), not DuplicateDecisionError (409).  *)
UniqueViolation(h) ==
  /\ \E r \in rows :
       \/ pc[h] = "inserting" /\ r.hash = HashOf(req[h])
       \/ pc[h] = "hashed" /\ r.decision = req[h].decision
  /\ Reply(h, "storage_error")
  /\ UNCHANGED <<rows, nextId>>

Commit(h) ==
  /\ pc[h] = "flushed"
  /\ rows' = rows \cup {RowOf(h)}
  /\ pc' = [pc EXCEPT ![h] = "committed"]
  /\ UNCHANGED <<nextId, req, tail, rid>>

SequenceExhausted(h) ==
  /\ pc[h] = "linked"
  /\ nextId > MaxId
  /\ Reply(h, "storage_error")
  /\ UNCHANGED <<rows, nextId>>

(* Every database error taken for a duplicate. *)
WriteFails_DuplicateFault(h) ==
  /\ pc[h] \in {"linked", "inserting", "hashed", "flushed"}
  /\ Reply(h, "duplicate")
  /\ UNCHANGED <<rows, nextId>>

(* A sequence that is rolled back with the transaction. *)
WriteFails_ReuseFault(h) ==
  /\ pc[h] \in {"linked", "inserting", "hashed", "flushed"}
  /\ Reply(h, "storage_error")
  /\ nextId' = IF rid[h] = 0 THEN nextId ELSE rid[h]
  /\ UNCHANGED rows

(* The INSERT or the COMMIT fails in the database: rolled back, 500. *)
WriteFails(h) ==
  /\ pc[h] \in {"linked", "inserting", "hashed", "flushed"}
  /\ Reply(h, "storage_error")
  /\ UNCHANGED <<rows, nextId>>

Refresh(h) ==
  /\ pc[h] = "committed"
  /\ Reply(h, "recorded")
  /\ UNCHANGED <<rows, nextId>>

(* session.refresh is inside the same try: when it fails the rollback      *)
(* undoes nothing and the client is told 500 about a committed row.        *)
RefreshFails(h) ==
  /\ pc[h] = "committed"
  /\ Reply(h, "storage_error")
  /\ UNCHANGED <<rows, nextId>>

(* The process dies or the request is cancelled: an open transaction is    *)
(* rolled back by the server, a committed row stays, nobody is answered.   *)
Crash(h) ==
  /\ pc[h] \in Stages
  /\ pc' = [pc EXCEPT ![h] = "idle"]
  /\ req' = [req EXCEPT ![h] = NoRequest]
  /\ Forget(h)
  /\ UNCHANGED <<rows, nextId>>

-----------------------------------------------------------------------------
Handle(h) ==
  \/ RejectInvalid(h) \/ CheckDuplicate(h) \/ GetLastRecord(h)
  \/ TakeId(h) \/ SequenceExhausted(h)
  \/ EnterHashIndexes(h) \/ EnterDecisionIndex(h)
  \/ UniqueViolation(h) \/ Commit(h) \/ Refresh(h)

Next == \E h \in Handlers :
  \/ \E q \in Requests : Receive(h, q)
  \/ Handle(h)
  \/ WriteFails(h) \/ RefreshFails(h) \/ Crash(h)

Spec == Init /\ [][Next]_vars

(* The event loop runs every coroutine that can run, and the database      *)
(* answers every statement; that a client calls, a statement fails or a    *)
(* process dies is not promised.                                           *)
FairSpec == Spec /\ \A h \in Handlers : WF_vars(Handle(h))

-----------------------------------------------------------------------------
(* Type invariant of the table, the sequence and the handlers. *)
TypeOK ==
  /\ rows \subseteq Row
  /\ nextId \in Nat \ {0}
  /\ pc \in [Handlers -> Stages \cup Outcomes \cup {"idle"}]
  /\ req \in [Handlers -> Requests \cup {NoRequest}]
  /\ tail \in [Handlers -> Row \cup {NoRow}]
  /\ rid \in [Handlers -> Nat]
  /\ \A h \in Handlers : pc[h] # "idle" => req[h] \in Requests

(* Recorded at most once: whatever retries and races, no two rows share a  *)
(* decision id, a hash or a record_id (check_duplicate_decision alone does *)
(* not give it: two handlers may both pass it).                            *)
RecordedOnce == \A r, s \in rows :
  r.decision = s.decision \/ r.hash = s.hash \/ r.id = s.id => r = s

(* Every row's previous_record_hash is NULL or the hash of a row that is   *)
(* committed in the same chain under a smaller record_id: the links form a *)
(* forest and never a cycle, a dangling reference or a cross-project link. *)
LinksPointBack == \A r \in rows : r.prev # NoHash =>
  \E p \in rows : p.hash = r.prev /\ p.chain = r.chain /\ p.id < r.id

(* A numbered row carries the number after that of the row it links to,    *)
(* or 1 when it starts a line: numbers never skip along a line of links.   *)
NumberedAlongLinks == \A r \in rows : r.seq # NoSeq =>
  \/ r.prev = NoHash /\ r.seq = 1
  \/ \E p \in rows :
       p.hash = r.prev /\ (p.seq = NoSeq \/ r.seq = p.seq + 1)

(* What a client was told stays true: a confirmation means that very       *)
(* payload is in the chain of its project, a 409 duplicate that some       *)
(* payload of that decision is; neither depends on who won a race.         *)
RepliesTruthful == \A h \in Handlers :
  /\ pc[h] = "recorded" => \E r \in rows :
       r.hash = HashOf(req[h]) /\ r.chain = req[h].chain
  /\ pc[h] = "duplicate" => \E r \in rows : r.decision = req[h].decision

(* The recorder implements the ledger, for any number of writers. *)
L == INSTANCE Ledger
LedgerSpec == L!Spec

V == INSTANCE ChainVerifier

(* A fork never goes unnoticed ("chains forked undetectably",              *)
(* HASH_CHAIN_INVARIANTS.md): neither verifier accepts a table in which    *)
(* two rows of a chain link to the same row.                               *)
ForksDetected == \A r, s \in rows :
  r # s /\ r.chain = s.chain /\ r.prev = s.prev =>
    ~V!FullIntegrity(rows) /\ ~V!VerifyChain(rows, r.chain)

(* "Remove any record -> chain verification MUST fail": so it does on      *)
(* every table the verifier accepts, unless the record is the last one.    *)
RemovalDetected == V!FullIntegrity(rows) => \A r \in rows :
  (\E s \in rows : s.id > r.id) => ~V!FullIntegrity(rows \ {r})

(* A handler always ends: two INSERTs that wait for each other's open      *)
(* transaction in the unique indexes would not.                            *)
Answered == \A h \in Handlers : (pc[h] \in Stages) ~> (pc[h] \notin Stages)

-----------------------------------------------------------------------------
(* One writer per chain: no two slots serve the same project. *)
OneWriter == \A g, h \in Handlers : Serves[g] \cap Serves[h] # {} => g = h

(* r is the first row of its chain, or links to the row just before it.    *)
LinksToNeighbour(r) ==
  \/ r.prev = NoHash /\ \A s \in rows : s.chain = r.chain => r.id <= s.id
  \/ \E p \in rows :
       /\ p.hash = r.prev /\ p.chain = r.chain /\ p.id < r.id
       /\ \A s \in rows : s.chain = r.chain => s.id <= p.id \/ r.id <= s.id

(* "record_id ordering MUST always match hash-chain order" (storage.py),   *)
(* "Record N always references the hash of Record N-1"                     *)
(* (HASH_CHAIN_INVARIANTS.md): each chain, read in record_id order, is one *)
(* line of links.  True with one writer per chain, not in general.         *)
ChainIsLine == \A r \in rows : LinksToNeighbour(r)

(* "New records can only be appended. No insertions": a row never becomes  *)
(* visible below one that readers of its chain could already see.          *)
NeverInsertedBelow ==
  [][\A r \in rows' \ rows : \A s \in rows : s.chain = r.chain => s.id < r.id]_vars

(* The rows of chain c in record_id order, as a line of links. *)
InChain(T, c) == {r \in T : r.chain = c}
Place(T, r) == Cardinality({s \in InChain(T, r.chain) : s.id <= r.id})
AtPlace(T, c, i) == {r \in InChain(T, c) : Place(T, r) = i}

LinkAt(T, c, i) ==
  LET row == CHOOSE r \in AtPlace(T, c, i) : TRUE
  IN  [hash |-> row.hash, prev |-> row.prev]

LineOf(T, c) == [i \in 1 .. Cardinality(InChain(T, c)) |-> LinkAt(T, c, i)]

(* With one writer per chain the recorder implements the documented chain. *)
HC == INSTANCE HashChain WITH line <- [c \in Chains |-> LineOf(rows, c)]
HashChainSpec == HC!Spec

(* With one writer and one project in the database the verifier raises no  *)
(* false alarm, INSERTs that failed and left a gap in record_id included.  *)
OneProjectVerifies ==
  (\A r, s \in rows : r.chain = s.chain) => V!FullIntegrity(rows)

(* An honest table -- every chain one line of links -- is verified.  It is *)
(* not when there are two projects: the boot check (main.py) then ends the *)
(* recorder with "BOOT INTEGRITY FAILED".                                  *)
HonestVerifies == ChainIsLine => V!FullIntegrity(rows)
=============================================================================
