------------------------ MODULE RecorderChainProofs ------------------------
(***************************************************************************)
(* Theorems about RecorderChain, for every set of handlers, chains and     *)
(* requests.  The safety invariants are not inductive: what they need is   *)
(* what each handler still knows between two of its awaits (InFlight) and  *)
(* that no two open transactions hold the same record_id or key (Apart).   *)
(***************************************************************************)
EXTENDS RecorderChain, SequenceTheorems, FiniteSetTheorems, TLAPS

USE DEF Stages, Outcomes

Linking == {"linked", "inserting", "hashed", "flushed"}
Numbered == {"inserting", "hashed", "flushed"}
Hashed == {"hashed", "flushed"}

(* What handler h relies on after it read the last record. *)
TailKnown(h) == pc[h] \in Linking =>
  /\ SequenceAccepted(req[h], tail[h])
  /\ tail[h] # NoRow => tail[h] \in rows /\ tail[h].chain = req[h].chain

IdKnown(h) == pc[h] \in Numbered =>
  /\ rid[h] > 0
  /\ rid[h] < nextId
  /\ \A r \in rows : r.id # rid[h]
  /\ tail[h] # NoRow => tail[h].id < rid[h]

KeysKnown(h) == \A r \in rows :
  /\ pc[h] \in Hashed => r.hash # HashOf(req[h])
  /\ pc[h] = "flushed" => r.decision # req[h].decision

CommitKnown(h) == pc[h] = "committed" =>
  \E r \in rows : r.hash = HashOf(req[h]) /\ r.chain = req[h].chain

InFlight == \A h \in Handlers :
  TailKnown(h) /\ IdKnown(h) /\ KeysKnown(h) /\ CommitKnown(h)

Apart == \A g, h \in Handlers : g # h =>
  /\ pc[g] \in Numbered /\ pc[h] \in Numbered => rid[g] # rid[h]
  /\ pc[g] \in Hashed /\ pc[h] \in Hashed => HashOf(req[g]) # HashOf(req[h])
  /\ pc[g] = "flushed" /\ pc[h] = "flushed" => req[g].decision # req[h].decision

IdsTaken == \A r \in rows : 0 < r.id /\ r.id < nextId

IInv == /\ TypeOK /\ InFlight /\ Apart /\ IdsTaken
        /\ RecordedOnce /\ LinksPointBack /\ NumberedAlongLinks
        /\ RepliesTruthful

-----------------------------------------------------------------------------
(* The fields a row takes from its request and from the tail. *)
LEMMA RequestFields == ASSUME NEW q \in Requests
  PROVE /\ q \in Request
        /\ q.decision \in Decisions /\ q.body \in Bodies /\ q.chain \in Chains
        /\ q.seq \in Int \cup {NoSeq} /\ q.valid \in BOOLEAN
        /\ HashOf(q) \in Hash
  BY RequestsAssumption DEF Request, HashOf, Hash

LEMMA RowTyped == ASSUME TypeOK, NEW h \in Handlers, pc[h] \in Numbered
  PROVE RowOf(h) \in Row
<1>1. req[h] \in Requests
  BY DEF TypeOK, Numbered
<1>2. rid[h] \in Nat
  BY DEF TypeOK
<1>3. (IF tail[h] = NoRow THEN NoHash ELSE tail[h].hash) \in Hash \cup {NoHash}
  BY DEF TypeOK, Row
<1>4. QED
  BY <1>1, <1>2, <1>3, RequestFields DEF RowOf, Row

LEMMA TypeStep == ASSUME TypeOK, [Next]_vars PROVE TypeOK'
<1>1. ASSUME NEW h \in Handlers, NEW q \in Requests, Receive(h, q)
      PROVE TypeOK'
  BY <1>1 DEF Receive, TypeOK
<1>2. ASSUME NEW h \in Handlers, RejectInvalid(h) PROVE TypeOK'
  BY <1>2 DEF RejectInvalid, Reply, Forget, TypeOK
<1>3. ASSUME NEW h \in Handlers, CheckDuplicate(h) PROVE TypeOK'
  BY <1>3 DEF CheckDuplicate, Reply, Forget, TypeOK
<1>4. ASSUME NEW h \in Handlers, GetLastRecord(h) PROVE TypeOK'
  BY <1>4 DEF GetLastRecord, Reply, Forget, TypeOK
<1>5. ASSUME NEW h \in Handlers, TakeId(h) PROVE TypeOK'
  BY <1>5 DEF TakeId, TypeOK
<1>6. ASSUME NEW h \in Handlers, SequenceExhausted(h) PROVE TypeOK'
  BY <1>6 DEF SequenceExhausted, Reply, Forget, TypeOK
<1>7. ASSUME NEW h \in Handlers, EnterHashIndexes(h) \/ EnterDecisionIndex(h) PROVE TypeOK'
  BY <1>7 DEF EnterHashIndexes, EnterDecisionIndex, TypeOK
<1>8. ASSUME NEW h \in Handlers, UniqueViolation(h) PROVE TypeOK'
  BY <1>8 DEF UniqueViolation, Reply, Forget, TypeOK
<1>9. ASSUME NEW h \in Handlers, Commit(h) PROVE TypeOK'
  <2>1. RowOf(h) \in Row
    BY <1>9, RowTyped DEF Commit, Numbered
  <2>2. QED
    BY <1>9, <2>1 DEF Commit, TypeOK
<1>10. ASSUME NEW h \in Handlers, WriteFails(h) PROVE TypeOK'
  BY <1>10 DEF WriteFails, Reply, Forget, TypeOK
<1>11. ASSUME NEW h \in Handlers, Refresh(h) \/ RefreshFails(h) PROVE TypeOK'
  BY <1>11 DEF Refresh, RefreshFails, Reply, Forget, TypeOK
<1>12. ASSUME NEW h \in Handlers, Crash(h) PROVE TypeOK'
  BY <1>12 DEF Crash, Forget, TypeOK
<1>13. CASE UNCHANGED vars
  BY <1>13 DEF vars, TypeOK
<1>14. QED
  BY <1>1, <1>2, <1>3, <1>4, <1>5, <1>6, <1>7, <1>8, <1>9, <1>10, <1>11,
     <1>12, <1>13 DEF Next, Handle

(* The recorder's state always has its type. *)
THEOREM TypeCorrect == Spec => []TypeOK
<1>1. Init => TypeOK
  BY DEF Init, TypeOK
<1>2. TypeOK /\ [Next]_vars => TypeOK'
  BY TypeStep
<1>3. QED
  BY <1>1, <1>2, PTL DEF Spec

-----------------------------------------------------------------------------
(* Steps that leave the table and the record_id sequence alone and end the *)
(* request of one handler.                                                 *)
LEMMA EndKeeps == ASSUME IInv, NEW h \in Handlers, NEW o \in Outcomes,
                         o \notin {"recorded", "duplicate"}, Reply(h, o),
                         UNCHANGED <<rows, nextId>>
                  PROVE InFlight' /\ Apart' /\ IdsTaken' /\ RecordedOnce'
                        /\ LinksPointBack' /\ NumberedAlongLinks' /\ RepliesTruthful'
<1>1. \A g \in Handlers : pc'[g] = IF g = h THEN o ELSE pc[g]
  BY DEF Reply, IInv, TypeOK
<1>2. \A g \in Handlers \ {h} : tail'[g] = tail[g] /\ rid'[g] = rid[g]
  BY DEF Reply, Forget, IInv, TypeOK
<1>3. rows' = rows /\ nextId' = nextId /\ req' = req
  BY DEF Reply
<1>4. InFlight'
  BY <1>1, <1>2, <1>3 DEF IInv, InFlight, TailKnown, IdKnown, KeysKnown,
     CommitKnown, Linking, Numbered, Hashed
<1>5. Apart'
  BY <1>1, <1>2, <1>3 DEF IInv, Apart, Numbered, Hashed
<1>6. RepliesTruthful'
  BY <1>1, <1>3 DEF IInv, RepliesTruthful
<1>7. QED
  BY <1>3, <1>4, <1>5, <1>6
     DEF IInv, IdsTaken, RecordedOnce, LinksPointBack, NumberedAlongLinks

(* Facts about the links and numbers survive a step that changes no row.   *)
LEMMA RowsKeep == ASSUME IInv, UNCHANGED rows
  PROVE RecordedOnce' /\ LinksPointBack' /\ NumberedAlongLinks'
  BY DEF IInv, RecordedOnce, LinksPointBack, NumberedAlongLinks

LEMMA ReceiveKeeps == ASSUME IInv, NEW h \in Handlers, NEW q \in Requests, Receive(h, q)
                      PROVE InFlight' /\ Apart' /\ IdsTaken' /\ RepliesTruthful'
<1>1. \A g \in Handlers : pc'[g] = IF g = h THEN "received" ELSE pc[g]
  BY DEF Receive, IInv, TypeOK
<1>2. \A g \in Handlers \ {h} : req'[g] = req[g]
  BY DEF Receive, IInv, TypeOK
<1>3. UNCHANGED <<rows, nextId, tail, rid>>
  BY DEF Receive
<1>4. InFlight'
  BY <1>1, <1>2, <1>3 DEF IInv, InFlight, TailKnown, IdKnown, KeysKnown,
     CommitKnown, Linking, Numbered, Hashed
<1>5. Apart'
  BY <1>1, <1>2, <1>3 DEF IInv, Apart, Numbered, Hashed
<1>6. RepliesTruthful'
  BY <1>1, <1>2, <1>3 DEF IInv, RepliesTruthful
<1>7. QED
  BY <1>3, <1>4, <1>5, <1>6 DEF IInv, IdsTaken

LEMMA CheckKeeps == ASSUME IInv, NEW h \in Handlers, CheckDuplicate(h)
                    PROVE InFlight' /\ Apart' /\ IdsTaken' /\ RepliesTruthful'
<1>1. \A g \in Handlers \ {h} :
        pc'[g] = pc[g] /\ tail'[g] = tail[g] /\ rid'[g] = rid[g]
  BY DEF CheckDuplicate, Reply, Forget, IInv, TypeOK
<1>2. \/ pc'[h] = "checked"
      \/ pc'[h] = "duplicate" /\ \E r \in rows : r.decision = req[h].decision
  BY SMT DEF CheckDuplicate, Reply, IInv, TypeOK
<1>3. UNCHANGED <<rows, nextId, req>>
  BY DEF CheckDuplicate, Reply
<1>4. InFlight'
  BY <1>1, <1>2, <1>3 DEF IInv, InFlight, TailKnown, IdKnown, KeysKnown,
     CommitKnown, Linking, Numbered, Hashed
<1>5. Apart'
  BY <1>1, <1>2, <1>3 DEF IInv, Apart, Numbered, Hashed
<1>6. RepliesTruthful'
  BY <1>1, <1>2, <1>3 DEF IInv, RepliesTruthful
<1>7. QED
  BY <1>3, <1>4, <1>5, <1>6 DEF IInv, IdsTaken

LEMMA TailKeeps == ASSUME IInv, NEW h \in Handlers, GetLastRecord(h), pc'[h] = "linked"
                   PROVE InFlight' /\ Apart' /\ IdsTaken' /\ RepliesTruthful'
<1>1. \A g \in Handlers \ {h} : pc'[g] = pc[g] /\ tail'[g] = tail[g]
  BY DEF GetLastRecord, Reply, Forget, IInv, TypeOK
<1>2. PICK last \in rows \cup {NoRow} :
        /\ IsLast(last, req[h].chain) \/ last = NoRow
        /\ SequenceAccepted(req[h], last)
        /\ tail'[h] = last
  BY DEF GetLastRecord, Reply, IInv, TypeOK
<1>3. UNCHANGED <<rows, nextId, req, rid>>
  BY DEF GetLastRecord, Reply, IInv, TypeOK
<1>4. TailKnown(h)'
  BY <1>2, <1>3 DEF TailKnown, SequenceAccepted, IsLast
<1>5. InFlight'
  BY <1>1, <1>3, <1>4 DEF IInv, InFlight, TailKnown, IdKnown, KeysKnown,
     CommitKnown, Linking, Numbered, Hashed
<1>6. Apart'
  BY <1>1, <1>3 DEF IInv, Apart, Numbered, Hashed
<1>7. RepliesTruthful'
  BY <1>1, <1>3 DEF IInv, RepliesTruthful
<1>8. QED
  BY <1>3, <1>5, <1>6, <1>7 DEF IInv, IdsTaken

LEMMA TakeIdKeeps == ASSUME IInv, NEW h \in Handlers, TakeId(h)
                     PROVE InFlight' /\ Apart' /\ IdsTaken' /\ RepliesTruthful'
<1>1. \A g \in Handlers : /\ pc'[g] = IF g = h THEN "inserting" ELSE pc[g]
                          /\ rid'[g] = IF g = h THEN nextId ELSE rid[g]
  BY DEF TakeId, IInv, TypeOK
<1>2. UNCHANGED <<rows, req, tail>> /\ nextId' = nextId + 1 /\ pc[h] = "linked"
  BY DEF TakeId
<1>3. nextId \in Nat \ {0} /\ \A r \in rows : r \in Row /\ r.id \in Nat /\ r.id < nextId
  BY DEF IInv, IdsTaken, TypeOK, Row
<1>4. IdKnown(h)'
  BY <1>1, <1>2, <1>3 DEF IInv, InFlight, TailKnown, IdKnown, Linking
<1>5. ASSUME NEW g \in Handlers \ {h} PROVE IdKnown(g)'
  BY <1>1, <1>2, <1>3 DEF IInv, InFlight, IdKnown, TypeOK, Numbered
<1>6. InFlight'
  BY <1>1, <1>2, <1>4, <1>5 DEF IInv, InFlight, TailKnown, KeysKnown,
     CommitKnown, Linking, Hashed
<1>7. Apart'
  BY <1>1, <1>2, <1>3 DEF IInv, Apart, InFlight, IdKnown, TypeOK, Numbered, Hashed
<1>8. RepliesTruthful'
  BY <1>1, <1>2 DEF IInv, RepliesTruthful
<1>9. QED
  BY <1>2, <1>3, <1>6, <1>7, <1>8 DEF IInv, IdsTaken

LEMMA EnterKeeps == ASSUME IInv, NEW h \in Handlers, EnterHashIndexes(h) \/ EnterDecisionIndex(h)
                    PROVE InFlight' /\ Apart' /\ IdsTaken' /\ RepliesTruthful'
<1>1. PICK to \in Hashed :
        /\ \A g \in Handlers : pc'[g] = IF g = h THEN to ELSE pc[g]
        /\ UNCHANGED <<rows, nextId, req, tail, rid>> /\ pc[h] \in {"inserting", "hashed"}
        /\ \/ /\ to = "flushed" /\ pc[h] = "hashed"
              /\ \A r \in rows : r.decision # req[h].decision
              /\ \A g \in Handlers : pc[g] = "flushed" => req[g].decision # req[h].decision
           \/ /\ to = "hashed"
              /\ \A r \in rows : r.hash # HashOf(req[h])
              /\ \A g \in Handlers : pc[g] \in Hashed => HashOf(req[g]) # HashOf(req[h])
  BY DEF EnterHashIndexes, EnterDecisionIndex, Hashed, IInv, TypeOK
<1>2. TailKnown(h)' /\ IdKnown(h)' /\ CommitKnown(h)'
  BY <1>1 DEF IInv, InFlight, TailKnown, IdKnown, CommitKnown, Linking, Numbered, Hashed
<1>3. KeysKnown(h)'
  BY <1>1 DEF IInv, InFlight, KeysKnown, Hashed
<1>4. ASSUME NEW g \in Handlers \ {h} PROVE TailKnown(g)' /\ IdKnown(g)' /\ KeysKnown(g)' /\ CommitKnown(g)'
  BY <1>1 DEF IInv, InFlight, TailKnown, IdKnown, KeysKnown, CommitKnown
<1>5. InFlight'
  BY <1>2, <1>3, <1>4 DEF InFlight
<1>6. Apart'
  <2>1. ASSUME NEW f \in Handlers, NEW g \in Handlers, f # g, pc'[f] \in Numbered, pc'[g] \in Numbered
        PROVE  rid'[f] # rid'[g]
    BY <1>1, <2>1 DEF IInv, Apart, Numbered, Hashed
  <2>2. ASSUME NEW f \in Handlers, NEW g \in Handlers, f # g, pc'[f] \in Hashed, pc'[g] \in Hashed
        PROVE  HashOf(req[f]) # HashOf(req[g])
    BY <1>1, <2>2 DEF IInv, Apart, Hashed
  <2>3. ASSUME NEW f \in Handlers, NEW g \in Handlers, f # g, pc'[f] = "flushed", pc'[g] = "flushed"
        PROVE  req[f].decision # req[g].decision
    BY <1>1, <2>3 DEF IInv, Apart, Hashed
  <2>4. req' = req
    BY <1>1
  <2> QED BY <2>1, <2>2, <2>3, <2>4 DEF Apart, HashOf
<1>7. RepliesTruthful'
  BY <1>1 DEF IInv, RepliesTruthful, Hashed
<1>8. QED
  BY <1>1, <1>5, <1>6, <1>7 DEF IInv, IdsTaken

LEMMA RefreshKeeps == ASSUME IInv, NEW h \in Handlers, Refresh(h)
                      PROVE InFlight' /\ Apart' /\ IdsTaken' /\ RepliesTruthful'
<1>1. \A g \in Handlers : pc'[g] = IF g = h THEN "recorded" ELSE pc[g]
  BY DEF Refresh, Reply, IInv, TypeOK
<1>2. \A g \in Handlers \ {h} : tail'[g] = tail[g] /\ rid'[g] = rid[g]
  BY DEF Refresh, Reply, Forget, IInv, TypeOK
<1>3. UNCHANGED <<rows, nextId, req>> /\ pc[h] = "committed"
  BY DEF Refresh, Reply
<1>4. InFlight'
  BY <1>1, <1>2, <1>3 DEF IInv, InFlight, TailKnown, IdKnown, KeysKnown,
     CommitKnown, Linking, Numbered, Hashed
<1>5. Apart'
  BY <1>1, <1>2, <1>3 DEF IInv, Apart, Numbered, Hashed
<1>6. RepliesTruthful'
  BY <1>1, <1>3 DEF IInv, InFlight, CommitKnown, RepliesTruthful
<1>7. QED
  BY <1>3, <1>4, <1>5, <1>6 DEF IInv, IdsTaken

LEMMA CrashKeeps == ASSUME IInv, NEW h \in Handlers, Crash(h)
                    PROVE InFlight' /\ Apart' /\ IdsTaken' /\ RepliesTruthful'
<1>1. \A g \in Handlers : pc'[g] = IF g = h THEN "idle" ELSE pc[g]
  BY DEF Crash, IInv, TypeOK
<1>2. \A g \in Handlers \ {h} :
        req'[g] = req[g] /\ tail'[g] = tail[g] /\ rid'[g] = rid[g]
  BY DEF Crash, Forget, IInv, TypeOK
<1>3. UNCHANGED <<rows, nextId>>
  BY DEF Crash
<1>4. InFlight'
  BY <1>1, <1>2, <1>3 DEF IInv, InFlight, TailKnown, IdKnown, KeysKnown,
     CommitKnown, Linking, Numbered, Hashed
<1>5. Apart'
  BY <1>1, <1>2, <1>3 DEF IInv, Apart, Numbered, Hashed
<1>6. RepliesTruthful'
  BY <1>1, <1>2, <1>3 DEF IInv, RepliesTruthful
<1>7. QED
  BY <1>3, <1>4, <1>5, <1>6 DEF IInv, IdsTaken

(* The row a commit adds, and what the committing handler knows of it. *)
LEMMA NewRow == ASSUME IInv, NEW h \in Handlers, Commit(h)
  PROVE /\ RowOf(h) \in Row
        /\ L!Fresh(RowOf(h))
        /\ L!StartsLine(RowOf(h)) \/ \E p \in rows : L!Follows(RowOf(h), p)
<1> DEFINE r == RowOf(h)
<1>1. pc[h] = "flushed" /\ req[h] \in Requests /\ TailKnown(h) /\ IdKnown(h) /\ KeysKnown(h)
  BY DEF Commit, IInv, InFlight, TypeOK
<1>2. r \in Row
  BY <1>1, RowTyped DEF Numbered, IInv
<1>3. L!Fresh(r)
  BY <1>1 DEF L!Fresh, RowOf, IdKnown, KeysKnown, Hashed, Numbered, HashOf
<1>4. CASE tail[h] = NoRow
  <2>1. L!StartsLine(r)
    BY <1>1, <1>4, NullAssumption
       DEF L!StartsLine, RowOf, TailKnown, Linking, SequenceAccepted
  <2>2. QED
    BY <1>2, <1>3, <2>1
<1>5. CASE tail[h] # NoRow
  <2>1. tail[h] \in rows /\ L!Follows(r, tail[h])
    BY <1>1, <1>5 DEF L!Follows, RowOf, TailKnown, IdKnown, Linking, Numbered,
       SequenceAccepted
  <2>2. QED
    BY <1>2, <1>3, <2>1
<1>6. QED
  BY <1>4, <1>5

LEMMA CommitKeeps == ASSUME IInv, NEW h \in Handlers, Commit(h)
  PROVE /\ InFlight' /\ Apart' /\ IdsTaken' /\ RepliesTruthful'
        /\ RecordedOnce' /\ LinksPointBack' /\ NumberedAlongLinks'
<1> DEFINE r == RowOf(h)
<1>1. \A g \in Handlers : pc'[g] = IF g = h THEN "committed" ELSE pc[g]
  BY DEF Commit, IInv, TypeOK
<1>2. rows' = rows \cup {r} /\ UNCHANGED <<nextId, req, tail, rid>> /\ pc[h] = "flushed"
  BY DEF Commit
<1>3. /\ r \in Row
      /\ L!Fresh(r)
      /\ L!StartsLine(r) \/ \E p \in rows : L!Follows(r, p)
  BY NewRow
<1>4. /\ r.id = rid[h] /\ r.decision = req[h].decision /\ r.hash = HashOf(req[h])
      /\ r.chain = req[h].chain
  BY DEF RowOf
<1>5. ASSUME NEW g \in Handlers \ {h} PROVE TailKnown(g)'
  BY <1>1, <1>2 DEF IInv, InFlight, TailKnown, Linking
<1>6. ASSUME NEW g \in Handlers \ {h} PROVE IdKnown(g)'
  BY <1>1, <1>2, <1>4 DEF IInv, InFlight, IdKnown, Apart, Numbered
<1>7. ASSUME NEW g \in Handlers \ {h} PROVE KeysKnown(g)'
  BY <1>1, <1>2, <1>4 DEF IInv, InFlight, KeysKnown, Apart, Hashed
<1>8. ASSUME NEW g \in Handlers \ {h} PROVE CommitKnown(g)'
  BY <1>1, <1>2 DEF IInv, InFlight, CommitKnown
<1>9. TailKnown(h)' /\ IdKnown(h)' /\ KeysKnown(h)' /\ CommitKnown(h)'
  BY <1>1, <1>2, <1>4 DEF TailKnown, IdKnown, KeysKnown, CommitKnown, Linking, Numbered, Hashed
<1>10. InFlight'
  BY <1>5, <1>6, <1>7, <1>8, <1>9 DEF InFlight
<1>11. Apart'
  BY <1>1, <1>2 DEF IInv, Apart, Numbered, Hashed
<1>12. IdsTaken'
  BY <1>2, <1>4 DEF IInv, IdsTaken, InFlight, IdKnown, Numbered
<1>13. RepliesTruthful'
  BY <1>1, <1>2 DEF IInv, RepliesTruthful
<1>14. RecordedOnce'
  BY <1>2, <1>3 DEF IInv, RecordedOnce, L!Fresh
<1>15. LinksPointBack'
  BY <1>2, <1>3 DEF IInv, LinksPointBack, L!StartsLine, L!Follows
<1>16. NumberedAlongLinks'
  <2>1. ASSUME r.seq # NoSeq
        PROVE \/ r.prev = NoHash /\ r.seq = 1
              \/ \E p \in rows : p.hash = r.prev /\ (p.seq = NoSeq \/ r.seq = p.seq + 1)
    BY <2>1, <1>3 DEF L!StartsLine, L!Follows
  <2>2. QED
    BY <1>2, <2>1 DEF IInv, NumberedAlongLinks
<1>17. QED
  BY <1>10, <1>11, <1>12, <1>13, <1>14, <1>15, <1>16

LEMMA InitIInv == Init => IInv
  BY DEF Init, IInv, TypeOK, InFlight, TailKnown, IdKnown, KeysKnown, CommitKnown,
     Linking, Numbered, Hashed, Apart, IdsTaken, RecordedOnce, LinksPointBack,
     NumberedAlongLinks, RepliesTruthful

LEMMA StepIInv == ASSUME IInv, [Next]_vars PROVE IInv'
<1> USE DEF IInv
<1>0. TypeOK'
  BY TypeStep
<1>1. ASSUME NEW h \in Handlers, NEW q \in Requests, Receive(h, q) PROVE IInv'
  BY <1>0, <1>1, ReceiveKeeps, RowsKeep DEF Receive
<1>2. ASSUME NEW h \in Handlers, RejectInvalid(h) PROVE IInv'
  BY <1>0, <1>2, EndKeeps DEF RejectInvalid
<1>3. ASSUME NEW h \in Handlers, CheckDuplicate(h) PROVE IInv'
  BY <1>0, <1>3, CheckKeeps, RowsKeep DEF CheckDuplicate
<1>4. ASSUME NEW h \in Handlers, GetLastRecord(h) PROVE IInv'
  <2>1. CASE pc'[h] = "linked"
    BY <1>0, <1>4, <2>1, TailKeeps, RowsKeep DEF GetLastRecord
  <2>2. CASE pc'[h] # "linked"
    <3>1. Reply(h, "ordering") /\ UNCHANGED <<rows, nextId>>
      BY <1>4, <2>2 DEF GetLastRecord, TypeOK
    <3>2. QED
      BY <1>0, <3>1, EndKeeps
  <2>3. QED
    BY <2>1, <2>2
<1>5. ASSUME NEW h \in Handlers, TakeId(h) PROVE IInv'
  BY <1>0, <1>5, TakeIdKeeps, RowsKeep DEF TakeId
<1>6. ASSUME NEW h \in Handlers, Reply(h, "storage_error"), UNCHANGED <<rows, nextId>>
      PROVE IInv'
  BY <1>0, <1>6, EndKeeps
<1>7. ASSUME NEW h \in Handlers, EnterHashIndexes(h) \/ EnterDecisionIndex(h) PROVE IInv'
  BY <1>0, <1>7, EnterKeeps, RowsKeep DEF EnterHashIndexes, EnterDecisionIndex
<1>8. ASSUME NEW h \in Handlers, Commit(h) PROVE IInv'
  BY <1>0, <1>8, CommitKeeps
<1>9. ASSUME NEW h \in Handlers, Refresh(h) PROVE IInv'
  BY <1>0, <1>9, RefreshKeeps, RowsKeep DEF Refresh
<1>10. ASSUME NEW h \in Handlers, Crash(h) PROVE IInv'
  BY <1>0, <1>10, CrashKeeps, RowsKeep DEF Crash
<1>11. CASE UNCHANGED vars
  BY <1>11 DEF vars, TypeOK, InFlight, TailKnown, IdKnown, KeysKnown, CommitKnown,
     Apart, IdsTaken, RecordedOnce, LinksPointBack, NumberedAlongLinks, RepliesTruthful
<1>12. QED
  BY <1>1, <1>2, <1>3, <1>4, <1>5, <1>6, <1>7, <1>8, <1>9, <1>10, <1>11
     DEF Next, Handle, SequenceExhausted, UniqueViolation, WriteFails, RefreshFails

THEOREM Inductive == Spec => []IInv
  BY InitIInv, StepIInv, PTL DEF Spec

(* A decision is recorded at most once, whatever retries and races do. *)
THEOREM RecordedOnceHolds == Spec => []RecordedOnce
  BY Inductive, PTL DEF IInv

(* The links never dangle, cross projects or form a cycle. *)
THEOREM LinksPointBackHolds == Spec => []LinksPointBack
  BY Inductive, PTL DEF IInv

(* Sequence numbers never skip along a line of links. *)
THEOREM NumberedAlongLinksHolds == Spec => []NumberedAlongLinks
  BY Inductive, PTL DEF IInv

(* A confirmation and a duplicate answer stay true for ever. *)
THEOREM RepliesTruthfulHolds == Spec => []RepliesTruthful
  BY Inductive, PTL DEF IInv

-----------------------------------------------------------------------------
(* The only step that changes the table is a commit. *)
LEMMA OnlyCommitWrites == ASSUME [Next]_vars
  PROVE UNCHANGED rows \/ \E h \in Handlers : Commit(h)
  BY DEF Next, Handle, vars, Receive, RejectInvalid, CheckDuplicate, GetLastRecord,
     TakeId, SequenceExhausted, EnterHashIndexes, EnterDecisionIndex, UniqueViolation, WriteFails, Refresh,
     RefreshFails, Crash

(* The recorder implements the ledger for any number of writers. *)
THEOREM ImplementsLedger == Spec => LedgerSpec
<1>1. Init => L!Init
  BY DEF Init, L!Init
<1>2. ASSUME IInv, [Next]_vars PROVE [L!Next]_rows
  <2>1. CASE UNCHANGED rows
    BY <2>1
  <2>2. ASSUME NEW h \in Handlers, Commit(h) PROVE L!Next
    <3>1. RowOf(h) \in Row /\ L!Append(RowOf(h))
      BY <1>2, <2>2, NewRow DEF L!Append, Commit
    <3>2. RowOf(h) \in rows'
      BY <2>2 DEF Commit
    <3>3. QED
      BY <3>1, <3>2 DEF L!Next
  <2>3. QED
    BY <1>2, <2>1, <2>2, OnlyCommitWrites
<1>3. QED
  BY <1>1, <1>2, Inductive, PTL DEF Spec, LedgerSpec, L!Spec

-----------------------------------------------------------------------------
(* With one writer per chain, the tail a handler read is still the last    *)
(* row of its chain when it commits.                                       *)
TailIsLast == \A h \in Handlers : pc[h] \in Linking =>
  \A s \in rows : s.chain = req[h].chain => tail[h] # NoRow /\ s.id <= tail[h].id

ServesOwn == \A h \in Handlers : pc[h] # "idle" => req[h].chain \in Serves[h]

LineInv == IInv /\ ServesOwn /\ TailIsLast /\ ChainIsLine

LEMMA ServesStep == ASSUME IInv, ServesOwn, [Next]_vars PROVE ServesOwn'
<1>1. ASSUME NEW h \in Handlers, NEW q \in Requests, Receive(h, q) PROVE ServesOwn'
  BY <1>1 DEF Receive, ServesOwn, IInv, TypeOK
<1>2. ASSUME NEW h \in Handlers, NEW o, pc' = [pc EXCEPT ![h] = o], UNCHANGED req,
             pc[h] # "idle"
      PROVE ServesOwn'
  BY <1>2 DEF ServesOwn, IInv, TypeOK
<1>3. ASSUME NEW h \in Handlers, Crash(h) PROVE ServesOwn'
  BY <1>3 DEF Crash, ServesOwn, IInv, TypeOK
<1>4. CASE UNCHANGED vars
  BY <1>4 DEF vars, ServesOwn
<1>5. QED
  BY <1>1, <1>2, <1>3, <1>4 DEF Next, Handle, RejectInvalid, CheckDuplicate,
     GetLastRecord, TakeId, SequenceExhausted, EnterHashIndexes, EnterDecisionIndex, UniqueViolation,
     Commit, WriteFails, Refresh, RefreshFails, Reply

LEMMA TailStep == ASSUME OneWriter, LineInv, [Next]_vars PROVE TailIsLast'
<1> USE DEF LineInv, IInv, Linking
<1>1. ASSUME NEW h \in Handlers, NEW q \in Requests, Receive(h, q) PROVE TailIsLast'
  BY <1>1 DEF Receive, TailIsLast, TypeOK
<1>2. ASSUME NEW h \in Handlers, NEW o \in Outcomes, Reply(h, o), UNCHANGED rows
      PROVE TailIsLast'
  BY <1>2 DEF Reply, Forget, TailIsLast, TypeOK
<1>3. ASSUME NEW h \in Handlers, CheckDuplicate(h) PROVE TailIsLast'
  BY <1>3 DEF CheckDuplicate, Reply, Forget, TailIsLast, TypeOK
<1>4. ASSUME NEW h \in Handlers, GetLastRecord(h) PROVE TailIsLast'
  <2>1. CASE pc'[h] = "linked"
    <3>1. /\ UNCHANGED <<rows, req>>
          /\ \A g \in Handlers \ {h} : pc'[g] = pc[g] /\ tail'[g] = tail[g]
      BY <1>4, <2>1 DEF GetLastRecord, Reply, Forget, TypeOK
    <3>2. \A s \in rows : s.chain = req[h].chain => tail'[h] # NoRow /\ s.id <= tail'[h].id
      <4>1. PICK last \in rows \cup {NoRow} :
              /\ \/ IsLast(last, req[h].chain)
                 \/ last = NoRow /\ \A r \in rows : r.chain # req[h].chain
              /\ tail'[h] = last
        BY <1>4, <2>1 DEF GetLastRecord, Reply, TypeOK
      <4>2. NoRow \notin rows
        BY NullAssumption DEF TypeOK
      <4>3. QED
        BY <4>1, <4>2 DEF IsLast
    <3>3. QED
      BY <3>1, <3>2 DEF TailIsLast
  <2>2. CASE pc'[h] # "linked"
    BY <1>4, <1>2, <2>2 DEF GetLastRecord, TypeOK
  <2>3. QED
    BY <2>1, <2>2
<1>5. ASSUME NEW h \in Handlers, TakeId(h) \/ EnterHashIndexes(h) \/ EnterDecisionIndex(h)
      PROVE TailIsLast'
  BY <1>5 DEF TakeId, EnterHashIndexes, EnterDecisionIndex, TailIsLast, TypeOK
<1>6. ASSUME NEW h \in Handlers, Commit(h) PROVE TailIsLast'
  <2>1. ASSUME NEW g \in Handlers \ {h}, pc[g] \in Linking
        PROVE req[g].chain # req[h].chain
    BY <1>6, <2>1 DEF OneWriter, ServesOwn, Commit
  <2>2. RowOf(h).chain = req[h].chain
    BY DEF RowOf
  <2>3. QED
    BY <1>6, <2>1, <2>2 DEF Commit, TailIsLast, TypeOK
<1>7. ASSUME NEW h \in Handlers, Crash(h) PROVE TailIsLast'
  BY <1>7 DEF Crash, Forget, TailIsLast, TypeOK
<1>8. CASE UNCHANGED vars
  BY <1>8 DEF vars, TailIsLast
<1>9. QED
  BY <1>1, <1>2, <1>3, <1>4, <1>5, <1>6, <1>7, <1>8 DEF Next, Handle, RejectInvalid,
     SequenceExhausted, UniqueViolation, WriteFails, Refresh, RefreshFails

(* The row a lone writer commits is above every row of its chain. *)
LEMMA NewRowIsHighest == ASSUME LineInv, NEW h \in Handlers, Commit(h)
  PROVE \A s \in rows : s.chain = req[h].chain => s.id < rid[h]
<1>1. pc[h] = "flushed" /\ IdKnown(h) /\ TailKnown(h)
  BY DEF LineInv, IInv, InFlight, Commit
<1>2. rid[h] \in Nat /\ \A s \in rows : s.id \in Nat
  BY DEF LineInv, IInv, TypeOK, Row
<1>3. \A s \in rows : s.chain = req[h].chain => tail[h] # NoRow /\ s.id <= tail[h].id
  BY <1>1 DEF LineInv, TailIsLast, Linking
<1>4. tail[h] # NoRow => tail[h].id < rid[h] /\ tail[h] \in rows
  BY <1>1 DEF IdKnown, TailKnown, Linking, Numbered
<1>5. QED
  BY <1>2, <1>3, <1>4

LEMMA LineStep == ASSUME LineInv, [Next]_vars PROVE ChainIsLine'
<1>1. CASE UNCHANGED rows
  BY <1>1 DEF LineInv, ChainIsLine, LinksToNeighbour
<1>2. ASSUME NEW h \in Handlers, Commit(h) PROVE ChainIsLine'
  <2>0. PICK r : r = RowOf(h)
    OBVIOUS
  <2>1. pc[h] = "flushed" /\ TailKnown(h) /\ rows' = rows \cup {r}
    BY <1>2, <2>0 DEF LineInv, IInv, InFlight, Commit
  <2>2. /\ r.id = rid[h] /\ r.chain = req[h].chain
        /\ r.prev = IF tail[h] = NoRow THEN NoHash ELSE tail[h].hash
    BY <2>0 DEF RowOf
  <2>3. \A s \in rows : s.chain = r.chain => s.id < r.id
    BY <1>2, <2>2, NewRowIsHighest
  <2>4. r.id \in Nat /\ \A s \in rows : s.id \in Nat
    BY <2>2 DEF LineInv, IInv, TypeOK, Row
  <2>5. ASSUME NEW s \in rows PROVE LinksToNeighbour(s)'
    BY <2>1, <2>3, <2>4, <2>5 DEF LineInv, ChainIsLine, LinksToNeighbour
  <2>6. LinksToNeighbour(r)'
    <3>1. CASE tail[h] = NoRow
      BY <2>1, <2>2, <2>3, <2>4, <3>1 DEF LinksToNeighbour, LineInv, TailIsLast, Linking
    <3>2. CASE tail[h] # NoRow
      <4>1. tail[h] \in rows /\ tail[h].chain = r.chain /\ tail[h].hash = r.prev
        BY <2>1, <2>2, <3>2 DEF TailKnown, Linking
      <4>2. \A s \in rows : s.chain = r.chain => s.id <= tail[h].id
        BY <2>1, <2>2 DEF LineInv, TailIsLast, Linking
      <4>3. \A s \in rows' : s.chain = r.chain => s.id <= tail[h].id \/ r.id <= s.id
        BY <2>1, <2>4, <4>2
      <4>4. QED
        BY <2>1, <2>3, <4>1, <4>3 DEF LinksToNeighbour
    <3>3. QED
      BY <3>1, <3>2
  <2>7. QED
    BY <2>1, <2>5, <2>6 DEF ChainIsLine
<1>3. QED
  BY <1>1, <1>2, OnlyCommitWrites

LEMMA LineInductive == ASSUME OneWriter PROVE Spec => []LineInv
<1>1. Init => LineInv
  BY InitIInv DEF Init, LineInv, ServesOwn, TailIsLast, Linking, ChainIsLine
<1>2. LineInv /\ [Next]_vars => LineInv'
  BY StepIInv, ServesStep, TailStep, LineStep DEF LineInv
<1>3. QED
  BY <1>1, <1>2, PTL DEF Spec

(* With one writer per chain, each chain in record_id order is one line of *)
(* links: what the documents promise without that condition.               *)
THEOREM OneWriterKeepsLine == ASSUME OneWriter PROVE Spec => []ChainIsLine
<1>1. LineInv => ChainIsLine
  BY DEF LineInv
<1>2. QED
  BY <1>1, LineInductive, PTL

(* With one writer per chain, no row appears below a visible one. *)
THEOREM OneWriterNeverInsertsBelow == ASSUME OneWriter PROVE Spec => NeverInsertedBelow
<1>1. ASSUME LineInv, [Next]_vars
      PROVE [\A r \in rows' \ rows : \A s \in rows : s.chain = r.chain => s.id < r.id]_vars
  <2>1. ASSUME NEW h \in Handlers, Commit(h), NEW r \in rows' \ rows, NEW s \in rows,
               s.chain = r.chain
        PROVE s.id < r.id
    <3>1. r = RowOf(h)
      BY <2>1 DEF Commit
    <3>2. QED
      BY <1>1, <2>1, <3>1, NewRowIsHighest DEF RowOf
  <2>2. QED
    BY <1>1, <2>1, OnlyCommitWrites
<1>2. QED
  BY <1>1, LineInductive, PTL DEF Spec, NeverInsertedBelow

-----------------------------------------------------------------------------
(* Two rows of a table with distinct hashes that link to the same row are  *)
(* not both linked to the row just before them.                            *)
LEMMA OneSuccessor ==
  ASSUME NEW T, T \subseteq Row, NEW r \in T, NEW s \in T, r.id < s.id, r.prev = s.prev,
         \A a, b \in T : a.hash = b.hash => a = b
  PROVE  /\ ~(V!Linked(r, T) /\ V!Linked(s, T))
         /\ r.prev = NoHash => ~V!Linked(s, T)
<1>1. \A a \in T : a.id \in Nat /\ a.hash # NoHash
  BY NullAssumption DEF Row
<1>2. r \in V!Before(s, T)
  BY DEF V!Before
<1>3. ASSUME V!Linked(s, T)
      PROVE  \E p \in T : s.prev = p.hash /\ r.id <= p.id
  BY <1>2, <1>3 DEF V!Linked, V!Precedes
<1>4. ASSUME V!Linked(r, T)
      PROVE  r.prev = NoHash \/ \E p \in T : r.prev = p.hash /\ p.id < r.id
  BY <1>4 DEF V!Linked, V!Precedes, V!Before
<1>5. QED
  BY <1>1, <1>3, <1>4

LEMMA ForkFails == ASSUME IInv, NEW r \in rows, NEW s \in rows, r.id < s.id,
                          r.chain = s.chain, r.prev = s.prev
                   PROVE  ~V!FullIntegrity(rows) /\ ~V!VerifyChain(rows, r.chain)
<1>1. rows \subseteq Row /\ \A a, b \in rows : a.hash = b.hash => a = b
  BY DEF IInv, TypeOK, RecordedOnce
<1>2. r.id \in Nat \ {0} /\ s.id \in Nat \ {0}
  BY <1>1 DEF IInv, IdsTaken, Row
<1>3. ~V!FullIntegrity(rows)
  <2>1. s.id # 1
    BY <1>2
  <2>2. ~V!LinkVerified(r, rows) \/ ~V!LinkVerified(s, rows)
    BY <1>1, <2>1, OneSuccessor DEF V!LinkVerified
  <2>3. QED
    BY <2>2 DEF V!FullIntegrity
<1>4. ~V!VerifyChain(rows, r.chain)
  <2> DEFINE C == {a \in rows : a.chain = r.chain}
  <2>1. C \subseteq Row /\ r \in C /\ s \in C /\ \A a, b \in C : a.hash = b.hash => a = b
    BY <1>1
  <2>2. ~V!Linked(r, C) \/ ~V!Linked(s, C)
    BY <2>1, OneSuccessor
  <2>3. QED
    BY <2>1, <2>2 DEF V!VerifyChain
<1>5. QED
  BY <1>3, <1>4

(* Neither verifier accepts a table with a fork.                           *)
THEOREM ForksDetectedHolds == Spec => []ForksDetected
<1>1. IInv => ForksDetected
  <2>1. ASSUME IInv, NEW r \in rows, NEW s \in rows, r # s, r.chain = s.chain,
               r.prev = s.prev
        PROVE  ~V!FullIntegrity(rows) /\ ~V!VerifyChain(rows, r.chain)
    <3>1. r.id \in Nat /\ s.id \in Nat /\ r.id # s.id
      BY <2>1 DEF IInv, TypeOK, Row, RecordedOnce
    <3>2. CASE r.id < s.id
      BY <2>1, <3>2, ForkFails
    <3>3. CASE s.id < r.id
      BY <2>1, <3>3, ForkFails
    <3>4. QED
      BY <3>1, <3>2, <3>3
  <2>2. QED
    BY <2>1 DEF ForksDetected
<1>2. QED
  BY <1>1, Inductive, PTL
-----------------------------------------------------------------------------
(* A set of natural numbers has a least one. *)
LEMMA LeastNat == ASSUME NEW S, S \subseteq Nat, S # {}
  PROVE \E n \in S : \A m \in S : n <= m
<1> DEFINE R == {p \in Nat \X Nat : p[1] < p[2]}
<1>1. IsWellFoundedOn(R, Nat)
  BY NatLessThanWellFounded DEF OpToRel
<1>2. \E n \in S : \A m \in S : ~ (<<m, n>> \in R)
  <2> HIDE DEF R
  <2>1. QED
    BY <1>1, WFMin
<1>3. PICK n \in S : \A m \in S : ~ (<<m, n>> \in R)
  BY <1>2
<1>4. ASSUME NEW m \in S, ~(n <= m) PROVE FALSE
  <2>1. <<m, n>> \in Nat \X Nat /\ m < n
    BY <1>4
  <2>2. <<m, n>> \in R
    BY <2>1
  <2>3. QED
    BY <1>3, <2>2
<1>5. QED
  BY <1>4

(* A row that is not the highest is the one just before another. *)
LEMMA Successor ==
  ASSUME NEW T, T \subseteq Row, NEW r \in T, NEW s \in T, r.id < s.id
  PROVE  \E x \in T : r.id < x.id /\ V!Precedes(r, x, T)
<1> DEFINE above == {a \in T : r.id < a.id}
           ids == {a.id : a \in above}
<1>1. \A a \in T : a.id \in Nat
  BY DEF Row
<1>2. ids \subseteq Nat /\ s.id \in ids
  BY <1>1
<1>3. PICK n \in ids : \A m \in ids : n <= m
  BY <1>2, LeastNat
<1>4. PICK x \in above : n = x.id
  OBVIOUS
<1>5. \A a \in T : r.id < a.id => x.id <= a.id
  BY <1>3, <1>4
<1>6. QED
  BY <1>1, <1>4, <1>5 DEF V!Precedes, V!Before

(* Without the row a row links to, that row links to nothing. *)
LEMMA Unlinked ==
  ASSUME NEW T, T \subseteq Row, NEW r \in T, NEW x \in T, x # r, x.prev = r.hash,
         \A a, b \in T : a.hash = b.hash => a = b
  PROVE  ~V!Linked(x, T \ {r})
<1>1. r.hash # NoHash
  BY NullAssumption DEF Row
<1>2. QED
  BY <1>1 DEF V!Linked

(* No record but the last is removed from a verified table unnoticed: the  *)
(* record after it is then linked to nothing that is left.                 *)
THEOREM RemovalDetectedHolds == Spec => []RemovalDetected
<1>1. IInv => RemovalDetected
  <2>1. ASSUME IInv, V!FullIntegrity(rows), NEW r \in rows, NEW s \in rows, s.id > r.id
        PROVE  ~V!FullIntegrity(rows \ {r})
    <3>1. rows \subseteq Row /\ \A a, b \in rows : a.hash = b.hash \/ a.id = b.id => a = b
      BY <2>1 DEF IInv, TypeOK, RecordedOnce
    <3>2. \A a \in rows : a.id \in Nat \ {0}
      BY <2>1, <3>1 DEF IInv, IdsTaken, Row
    <3>3. r.id < s.id
      BY <2>1, <3>2
    <3>4. PICK x \in rows : r.id < x.id /\ V!Precedes(r, x, rows)
      BY <3>1, <3>3, Successor
    <3>5. x.id # 1 /\ x # r
      BY <3>2, <3>4
    <3>6. V!Linked(x, rows)
      BY <2>1, <3>5 DEF V!FullIntegrity, V!LinkVerified
    <3>7. x.prev = r.hash
      <4>1. PICK p \in rows : V!Precedes(p, x, rows) /\ x.prev = p.hash
        BY <3>4, <3>6 DEF V!Linked, V!Precedes
      <4>2. p.id <= r.id /\ r.id <= p.id
        BY <3>4, <4>1 DEF V!Precedes
      <4>3. QED
        BY <3>1, <3>2, <4>1, <4>2
    <3>8. ~V!Linked(x, rows \ {r})
      BY <3>1, <3>5, <3>7, Unlinked
    <3>9. QED
      BY <3>5, <3>8 DEF V!FullIntegrity, V!LinkVerified
  <2>2. QED
    BY <2>1 DEF RemovalDetected
<1>2. QED
  BY <1>1, Inductive, PTL

(* With one writer and one project the verifier raises no false alarm,     *)
(* whatever gaps failed INSERTs left between the record ids.               *)
THEOREM OneProjectVerifiesHolds == ASSUME OneWriter PROVE Spec => []OneProjectVerifies
<1>1. LineInv => OneProjectVerifies
  <2>1. ASSUME LineInv, \A r, s \in rows : r.chain = s.chain, NEW r \in rows
        PROVE  V!LinkVerified(r, rows)
    <3>1. rows \subseteq Row /\ \A a \in rows : a.id \in Nat \ {0}
      BY <2>1 DEF LineInv, IInv, TypeOK, IdsTaken, Row
    <3>2. CASE r.prev = NoHash /\ \A s \in rows : r.id <= s.id
      BY <3>1, <3>2 DEF V!LinkVerified, V!Linked, V!Before
    <3>3. ASSUME NEW p \in rows, p.hash = r.prev, p.id < r.id,
                 \A s \in rows : s.id <= p.id \/ r.id <= s.id
          PROVE  V!LinkVerified(r, rows)
      <4>1. V!Precedes(p, r, rows) /\ r.id # 1
        BY <3>1, <3>3 DEF V!Precedes, V!Before
      <4>2. QED
        BY <3>3, <4>1 DEF V!LinkVerified, V!Linked, V!Precedes
    <3>4. QED
      BY <2>1, <3>2, <3>3 DEF LineInv, ChainIsLine, LinksToNeighbour
  <2>2. QED
    BY <2>1 DEF OneProjectVerifies, V!FullIntegrity
<1>2. QED
  BY <1>1, LineInductive, PTL
-----------------------------------------------------------------------------
(* With one writer per chain the table, read as a line of links per chain, *)
(* is the documented chain.                                                *)
PlacesTaken(T) ==
  \A c \in Chains : \A i \in 1 .. Cardinality(InChain(T, c)) : AtPlace(T, c, i) # {}

Counted == IsFiniteSet(rows) /\ PlacesTaken(rows)

Link(r) == [hash |-> r.hash, prev |-> r.prev]

Links == [hash : Hash, prev : Hash \cup {NoHash}]

LEMMA PlacesFinite == ASSUME NEW T, IsFiniteSet(T), NEW c, NEW r
  PROVE /\ IsFiniteSet(InChain(T, c)) /\ Cardinality(InChain(T, c)) \in Nat
        /\ Place(T, r) \in Nat /\ Place(T, r) <= Cardinality(InChain(T, r.chain))
<1>1. \A d : InChain(T, d) \subseteq T
  BY DEF InChain
<1>2. \A d : IsFiniteSet(InChain(T, d)) /\ Cardinality(InChain(T, d)) \in Nat
  BY <1>1, FS_Subset, FS_CardinalityType
<1> DEFINE C == InChain(T, r.chain)
           below == {s \in C : s.id <= r.id}
<1>3. below \subseteq C
  OBVIOUS
<1>4. IsFiniteSet(below) /\ Cardinality(below) <= Cardinality(C)
  <2> HIDE DEF C, below
  <2>1. QED
    BY <1>2, <1>3, FS_Subset DEF C
<1>5. Cardinality(below) \in Nat
  BY <1>4, FS_CardinalityType
<1>6. QED
  BY <1>2, <1>4, <1>5 DEF Place

(* What a place holds is a row of the chain. *)
LEMMA LinkTyped == ASSUME NEW T, T \subseteq Row, NEW c, NEW i, AtPlace(T, c, i) # {}
  PROVE \E r \in AtPlace(T, c, i) : r \in T /\ r.chain = c /\ LinkAt(T, c, i) = Link(r)
<1> DEFINE S == AtPlace(T, c, i)
           r == CHOOSE x \in S : TRUE
<1>1. r \in S
  <2>1. \A A : A # {} => (CHOOSE x \in A : TRUE) \in A
    OBVIOUS
  <2> HIDE DEF S
  <2>2. QED
    BY <2>1 DEF S
<1>2. r \in T /\ r.chain = c
  BY <1>1 DEF AtPlace, InChain
<1>3. LinkAt(T, c, i) = Link(r)
  BY DEF LinkAt, Link
<1>4. QED
  BY <1>1, <1>2, <1>3

(* A row above its whole chain takes a place of its own, the next one, and *)
(* leaves every other row where it is.                                     *)
LEMMA PlacesExtend ==
  ASSUME NEW T, T \subseteq Row, IsFiniteSet(T), NEW r \in Row,
         \A s \in T : s.chain = r.chain => s.id < r.id
  PROVE  LET U == T \cup {r}
             n == Cardinality(InChain(T, r.chain))
         IN  /\ InChain(U, r.chain) = InChain(T, r.chain) \cup {r}
             /\ \A c : c # r.chain => InChain(U, c) = InChain(T, c)
             /\ Cardinality(InChain(U, r.chain)) = n + 1
             /\ Place(U, r) = n + 1
             /\ \A s \in T : Place(U, s) = Place(T, s)
<1> DEFINE U == T \cup {r}
           C == InChain(T, r.chain)
<1>1. \A s \in U : s.id \in Nat
  BY DEF Row
<1>2. InChain(U, r.chain) = C \cup {r}
  BY DEF InChain
<1>3. \A c : c # r.chain => InChain(U, c) = InChain(T, c)
  BY DEF InChain
<1>4. r \notin C
  BY <1>1 DEF InChain
<1>5. IsFiniteSet(C)
  BY PlacesFinite
<1>6. Cardinality(C \cup {r}) = Cardinality(C) + 1
  <2> HIDE DEF C
  <2>1. QED
    BY <1>4, <1>5, FS_AddElement
<1>7. {s \in InChain(U, r.chain) : s.id <= r.id} = C \cup {r}
  BY <1>1, <1>2 DEF InChain
<1>8. Place(U, r) = Cardinality(C) + 1
  BY <1>6, <1>7 DEF Place
<1>9. ASSUME NEW s \in T PROVE Place(U, s) = Place(T, s)
  <2>1. {a \in InChain(U, s.chain) : a.id <= s.id} = {a \in InChain(T, s.chain) : a.id <= s.id}
    BY <1>1 DEF InChain
  <2>2. QED
    BY <2>1 DEF Place
<1>10. QED
  BY <1>2, <1>3, <1>6, <1>8, <1>9

LEMMA PlacesTakenExtend ==
  ASSUME NEW T, T \subseteq Row, IsFiniteSet(T), NEW r \in Row, PlacesTaken(T),
         \A s \in T : s.chain = r.chain => s.id < r.id
  PROVE  LET U == T \cup {r}
             n == Cardinality(InChain(T, r.chain))
         IN  /\ PlacesTaken(U)
             /\ AtPlace(U, r.chain, n + 1) = {r}
             /\ \A c, i : c # r.chain \/ i \in 1 .. n => AtPlace(U, c, i) = AtPlace(T, c, i)
<1> DEFINE U == T \cup {r}
           n == Cardinality(InChain(T, r.chain))
<1>1. /\ InChain(U, r.chain) = InChain(T, r.chain) \cup {r}
      /\ \A c : c # r.chain => InChain(U, c) = InChain(T, c)
      /\ Cardinality(InChain(U, r.chain)) = n + 1
      /\ Place(U, r) = n + 1
      /\ \A s \in T : Place(U, s) = Place(T, s)
  BY PlacesExtend
<1>2. n \in Nat /\ \A s : Place(T, s) \in Nat /\ Place(T, s) <= Cardinality(InChain(T, s.chain))
  BY PlacesFinite
<1> HIDE DEF U, n
<1>3. \A c : InChain(T, c) = {s \in T : s.chain = c}
  BY DEF InChain
<1>4. ASSUME NEW c, NEW i, c # r.chain \/ i \in 1 .. n
      PROVE  AtPlace(U, c, i) = AtPlace(T, c, i)
  <2>1. CASE c # r.chain
    BY <1>1, <1>3, <2>1 DEF AtPlace
  <2>2. CASE c = r.chain /\ i \in 1 .. n
    <3>1. i # n + 1
      BY <1>2, <2>2
    <3>2. QED
      BY <1>1, <1>3, <2>2, <3>1 DEF AtPlace
  <2>3. QED
    BY <1>4, <2>1, <2>2
<1>5. AtPlace(U, r.chain, n + 1) = {r}
  <2>1. \A s \in InChain(T, r.chain) : Place(U, s) # n + 1
    BY <1>1, <1>2, <1>3 DEF n
  <2>2. QED
    BY <1>1, <2>1 DEF AtPlace
<1>6. PlacesTaken(U)
  <2>1. ASSUME NEW c \in Chains, NEW i \in 1 .. Cardinality(InChain(U, c))
        PROVE  AtPlace(U, c, i) # {}
    <3>1. CASE c # r.chain
      BY <1>1, <1>4, <2>1, <3>1 DEF PlacesTaken
    <3>2. CASE c = r.chain /\ i = n + 1
      BY <1>5, <3>2
    <3>3. CASE c = r.chain /\ i # n + 1
      <4>1. i \in 1 .. n
        BY <1>1, <1>2, <2>1, <3>3
      <4>2. QED
        BY <1>4, <3>3, <4>1 DEF PlacesTaken, n
    <3>4. QED
      BY <3>1, <3>2, <3>3
  <2>2. QED
    BY <2>1 DEF PlacesTaken
<1>7. QED
  BY <1>4, <1>5, <1>6 DEF U, n

(* The line of a chain is a sequence of links of its rows. *)
LEMMA LineTyped == ASSUME NEW T, T \subseteq Row, IsFiniteSet(T), PlacesTaken(T), NEW c \in Chains
  PROVE /\ LineOf(T, c) \in Seq(Links)
        /\ Len(LineOf(T, c)) = Cardinality(InChain(T, c))
        /\ \A i \in DOMAIN LineOf(T, c) : \E s \in T : LineOf(T, c)[i] = Link(s)
<1> DEFINE n == Cardinality(InChain(T, c))
<1>1. n \in Nat
  BY PlacesFinite
<1>2. ASSUME NEW i \in 1 .. n
      PROVE  \E s \in T : LinkAt(T, c, i) = Link(s)
  BY LinkTyped DEF PlacesTaken
<1>3. \A s \in T : Link(s) \in Links
  BY DEF Link, Links, Row
<1>4. LineOf(T, c) = [i \in 1 .. n |-> LinkAt(T, c, i)]
  BY DEF LineOf
<1> HIDE DEF n
<1>5. LineOf(T, c) \in [1 .. n -> Links]
  BY <1>2, <1>3, <1>4
<1>6. LineOf(T, c) \in Seq(Links) /\ Len(LineOf(T, c)) = n
  <2>1. LineOf(T, c) \in Seq(Links)
    BY <1>1, <1>5, SeqDef
  <2>2. QED
    BY <1>1, <1>5, <2>1, LenProperties
<1>7. \A i \in DOMAIN LineOf(T, c) : \E s \in T : LineOf(T, c)[i] = Link(s)
  BY <1>2, <1>4
<1>8. QED
  BY <1>6, <1>7 DEF n

LEMMA LineExtends ==
  ASSUME NEW T, T \subseteq Row, IsFiniteSet(T), NEW r \in Row, PlacesTaken(T),
         \A s \in T : s.chain = r.chain => s.id < r.id
  PROVE  /\ LineOf(T \cup {r}, r.chain) = Append(LineOf(T, r.chain), Link(r))
         /\ \A c : c # r.chain => LineOf(T \cup {r}, c) = LineOf(T, c)
<1> DEFINE U == T \cup {r}
           n == Cardinality(InChain(T, r.chain))
           line == LineOf(T, r.chain)
<1>1. /\ \A c : c # r.chain => InChain(U, c) = InChain(T, c)
      /\ Cardinality(InChain(U, r.chain)) = n + 1
  BY PlacesExtend
<1>2. /\ AtPlace(U, r.chain, n + 1) = {r}
      /\ \A c, i : c # r.chain \/ i \in 1 .. n => AtPlace(U, c, i) = AtPlace(T, c, i)
  BY PlacesTakenExtend
<1>3. \A c, i : c # r.chain \/ i \in 1 .. n => LinkAt(U, c, i) = LinkAt(T, c, i)
  BY <1>2 DEF LinkAt
<1>4. LinkAt(U, r.chain, n + 1) = Link(r)
  <2>1. (CHOOSE x \in {r} : TRUE) = r
    OBVIOUS
  <2>2. QED
    BY <1>2, <2>1 DEF LinkAt, Link
<1>5. ASSUME NEW c, c # r.chain PROVE LineOf(U, c) = LineOf(T, c)
  <2>1. InChain(U, c) = InChain(T, c)
    BY <1>1, <1>5
  <2>2. \A i : LinkAt(U, c, i) = LinkAt(T, c, i)
    BY <1>3, <1>5
  <2> HIDE DEF U
  <2>3. QED
    BY <2>1, <2>2 DEF LineOf
<1>6. n \in Nat /\ r.chain \in Chains /\ IsFiniteSet(U) /\ U \subseteq Row /\ PlacesTaken(U)
  BY PlacesFinite, FS_AddElement, PlacesTakenExtend DEF Row
<1>7. line \in Seq(Links) /\ Len(line) = n /\ Link(r) \in Links
  BY <1>6, LineTyped DEF Link, Links, Row
<1>8. LineOf(U, r.chain) \in Seq(Links) /\ Len(LineOf(U, r.chain)) = n + 1
  BY <1>1, <1>6, LineTyped
<1>9. /\ line = [i \in 1 .. n |-> LinkAt(T, r.chain, i)]
      /\ LineOf(U, r.chain) = [i \in 1 .. n + 1 |-> LinkAt(U, r.chain, i)]
  BY <1>1 DEF LineOf
<1> HIDE DEF U, n, line
<1>10. LineOf(U, r.chain) = Append(line, Link(r))
  <2>1. /\ Append(line, Link(r)) \in Seq(Links) /\ Len(Append(line, Link(r))) = n + 1
        /\ \A i \in 1 .. n : Append(line, Link(r))[i] = line[i]
        /\ Append(line, Link(r))[n + 1] = Link(r)
    BY <1>7
  <2>2. \A i \in 1 .. n : LineOf(U, r.chain)[i] = line[i]
    BY <1>3, <1>6, <1>9
  <2>3. LineOf(U, r.chain)[n + 1] = Link(r)
    BY <1>4, <1>6, <1>9
  <2>4. \A i \in 1 .. n + 1 : LineOf(U, r.chain)[i] = Append(line, Link(r))[i]
    BY <1>6, <2>1, <2>2, <2>3
  <2>5. QED
    BY <1>8, <2>1, <2>4, SeqEqual
<1>11. QED
  BY <1>5, <1>10 DEF U, line

(* The last link of a line is that of the highest row of its chain. *)
LEMMA LineEnds ==
  ASSUME NEW T, T \subseteq Row, IsFiniteSet(T), PlacesTaken(T), NEW p \in T,
         \A s \in T : s.chain = p.chain => s.id <= p.id,
         \A a, b \in T : a.id = b.id => a = b
  PROVE  LET line == LineOf(T, p.chain)
         IN  line # <<>> /\ line[Len(line)] = Link(p)
<1> DEFINE C == InChain(T, p.chain)
           n == Cardinality(C)
<1>1. IsFiniteSet(C) /\ n \in Nat /\ p \in C
  BY PlacesFinite DEF InChain
<1>2. n # 0
  <2> HIDE DEF C
  <2>1. QED
    BY <1>1, FS_EmptySet
<1>3. p.chain \in Chains /\ \A s \in T : s.id \in Nat
  BY DEF Row
<1>4. ASSUME NEW x \in AtPlace(T, p.chain, n) PROVE x = p
  <2> DEFINE below == {s \in C : s.id <= x.id}
  <2>1. x \in C /\ x \in T /\ x.chain = p.chain
    BY <1>4 DEF AtPlace, InChain
  <2>2. below \subseteq C /\ Cardinality(below) = n
    BY <1>4, <2>1 DEF AtPlace, Place
  <2>3. below = C
    <3> HIDE DEF below, C
    <3>1. QED
      BY <1>1, <2>2, FS_Subset DEF C
  <2>4. p.id <= x.id /\ x.id <= p.id
    BY <1>1, <2>1, <2>3
  <2>5. QED
    BY <1>3, <2>1, <2>4
<1>5. n \in 1 .. n
  BY <1>1, <1>2
<1>6. AtPlace(T, p.chain, n) # {}
  BY <1>3, <1>5 DEF PlacesTaken
<1>7. LinkAt(T, p.chain, n) = Link(p)
  <2> HIDE DEF n
  <2>1. QED
    BY <1>4, <1>6, LinkTyped
<1>8. Len(LineOf(T, p.chain)) = n
  BY <1>3, LineTyped
<1>9. LineOf(T, p.chain)[n] = LinkAt(T, p.chain, n)
  BY <1>5 DEF LineOf
<1>10. LineOf(T, p.chain) # <<>>
  BY <1>1, <1>2, <1>8
<1>11. QED
  BY <1>7, <1>8, <1>9, <1>10
LEMMA CountedStep == ASSUME LineInv, Counted, [Next]_vars PROVE Counted'
<1>1. CASE UNCHANGED rows
  BY <1>1 DEF Counted
<1>2. ASSUME NEW h \in Handlers, Commit(h) PROVE Counted'
  <2>0. PICK r : r = RowOf(h)
    OBVIOUS
  <2>1. r \in Row /\ rows \subseteq Row /\ rows' = rows \cup {r}
    BY <1>2, <2>0, RowTyped DEF LineInv, IInv, TypeOK, Commit, Numbered
  <2>2. \A s \in rows : s.chain = r.chain => s.id < r.id
    BY <1>2, <2>0, NewRowIsHighest DEF RowOf
  <2>3. IsFiniteSet(rows') /\ PlacesTaken(rows')
    BY <2>1, <2>2, FS_AddElement, PlacesTakenExtend DEF Counted
  <2>4. QED
    BY <2>3 DEF Counted, PlacesTaken
<1>3. QED
  BY <1>1, <1>2, OnlyCommitWrites

(* A lone writer's commit is a step of the documented chain. *)
LEMMA CommitExtends == ASSUME LineInv, Counted, NEW h \in Handlers, Commit(h)
  PROVE HC!Extend(req[h].chain, HashOf(req[h]))
<1> DEFINE c == req[h].chain
           line == [d \in Chains |-> LineOf(rows, d)]
<1>0. PICK r : r = RowOf(h)
  OBVIOUS
<1>1. pc[h] = "flushed" /\ rows' = rows \cup {r} /\ TailKnown(h)
  BY <1>0 DEF Commit, LineInv, IInv, InFlight
<1>2. r \in Row /\ rows \subseteq Row /\ IsFiniteSet(rows) /\ PlacesTaken(rows)
  BY <1>0, <1>1, RowTyped DEF LineInv, IInv, TypeOK, Numbered, Counted
<1>3. /\ r.chain = c /\ r.hash = HashOf(req[h])
      /\ r.prev = IF tail[h] = NoRow THEN NoHash ELSE tail[h].hash
  BY <1>0 DEF RowOf
<1>4. c \in Chains
  BY <1>2, <1>3 DEF Row
<1>5. \A s \in rows : s.chain = r.chain => s.id < r.id
  BY <1>0, NewRowIsHighest DEF RowOf
<1>6. ASSUME NEW d \in Chains PROVE ~HC!Uses(d, HashOf(req[h]))
  <2>1. \A s \in rows : s.hash # r.hash
    BY <1>0, NewRow DEF LineInv, Commit, L!Fresh
  <2>2. \A i \in DOMAIN LineOf(rows, d) : \E s \in rows : LineOf(rows, d)[i] = Link(s)
    BY <1>2, LineTyped
  <2>3. QED
    BY <1>3, <2>1, <2>2 DEF HC!Uses, Link
<1>7. HC!LastHash(c) = r.prev
  <2>1. CASE tail[h] = NoRow
    <3>1. \A s \in rows : s.chain # c
      BY <1>1, <2>1 DEF LineInv, TailIsLast, Linking
    <3>2. InChain(rows, c) = {}
      BY <3>1 DEF InChain
    <3>3. LineOf(rows, c) \in Seq(Links) /\ Len(LineOf(rows, c)) = Cardinality(InChain(rows, c))
      BY <1>2, <1>4, LineTyped
    <3>4. LineOf(rows, c) = <<>>
      <4>1. Len(LineOf(rows, c)) = 0
        BY <3>2, <3>3, FS_EmptySet
      <4>2. QED
        BY <3>3, <4>1, EmptySeq
    <3>5. QED
      BY <1>3, <1>4, <2>1, <3>4 DEF HC!LastHash
  <2>2. CASE tail[h] # NoRow
    <3>1. tail[h] \in rows /\ tail[h].chain = c
      BY <1>1, <2>2 DEF TailKnown, Linking
    <3>2. \A s \in rows : s.chain = c => s.id <= tail[h].id
      BY <1>1 DEF LineInv, TailIsLast, Linking
    <3>3. \A a, b \in rows : a.id = b.id => a = b
      BY DEF LineInv, IInv, RecordedOnce
    <3>4. LineOf(rows, c) # <<>> /\ LineOf(rows, c)[Len(LineOf(rows, c))] = Link(tail[h])
      BY <1>2, <3>1, <3>2, <3>3, LineEnds
    <3>5. QED
      BY <1>3, <1>4, <2>2, <3>4 DEF HC!LastHash, Link
  <2>3. QED
    BY <2>1, <2>2
<1>8. /\ LineOf(rows', c) = Append(LineOf(rows, c), Link(r))
      /\ \A d : d # c => LineOf(rows', d) = LineOf(rows, d)
  BY <1>1, <1>2, <1>3, <1>5, LineExtends
<1>9. [d \in Chains |-> LineOf(rows', d)]
        = [line EXCEPT ![c] = Append(@, [hash |-> HashOf(req[h]), prev |-> HC!LastHash(c)])]
  <2>1. Link(r) = [hash |-> HashOf(req[h]), prev |-> HC!LastHash(c)]
    BY <1>3, <1>7 DEF Link
  <2>2. QED
    BY <1>4, <1>8, <2>1
<1>10. QED
  BY <1>6, <1>9 DEF HC!Extend, LineOf, LinkAt, AtPlace, Place, InChain

(* With one writer per chain the recorder implements the chain of the      *)
(* documents: a commit adds a link at the end of its project's line, no    *)
(* other step changes any line.                                            *)
THEOREM OneWriterImplementsChain == ASSUME OneWriter PROVE Spec => HashChainSpec
<1>1. Init => Counted /\ HC!Init
  <2>1. ASSUME Init PROVE IsFiniteSet(rows) /\ \A c : InChain(rows, c) = {} /\ Cardinality(InChain(rows, c)) = 0
    BY <2>1, FS_EmptySet DEF Init, InChain
  <2>2. ASSUME Init, NEW c PROVE LineOf(rows, c) = <<>>
    BY <2>1, <2>2 DEF LineOf
  <2>3. QED
    BY <2>1, <2>2 DEF Counted, PlacesTaken, HC!Init
<1>2. ASSUME LineInv, Counted, [Next]_vars PROVE [HC!Next]_([c \in Chains |-> LineOf(rows, c)])
  <2>1. CASE UNCHANGED rows
    BY <2>1 DEF LineOf, LinkAt, AtPlace, Place, InChain
  <2>2. ASSUME NEW h \in Handlers, Commit(h) PROVE HC!Next
    <3>1. req[h].chain \in Chains /\ HashOf(req[h]) \in Hash
      BY <1>2, <2>2, RequestFields DEF LineInv, IInv, TypeOK, Commit
    <3>2. QED
      BY <1>2, <2>2, <3>1, CommitExtends DEF HC!Next
  <2>3. QED
    BY <1>2, <2>1, <2>2, OnlyCommitWrites
<1>3. LineInv /\ Counted /\ [Next]_vars => Counted'
  BY CountedStep
<1>4. QED
  BY <1>1, <1>2, <1>3, LineInductive, PTL DEF Spec, HashChainSpec, HC!Spec
=============================================================================
