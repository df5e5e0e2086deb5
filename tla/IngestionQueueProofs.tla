------------------------- MODULE IngestionQueueProofs -------------------------
(***************************************************************************)
(* Theorems about IngestionQueue, for any projects, events and faults.     *)
(***************************************************************************)
EXTENDS IngestionQueue, SequenceTheorems, TLAPS

(* A task that was answered knows the answer.                              *)
Heard == \A p \in Projects : phase[p] = "answered" => status[p] \in Statuses

TInv == TypeOK /\ Heard

-----------------------------------------------------------------------------
(* What the operators on streams do.                                       *)
LEMMA AppendTyped == ASSUME NEW S, NEW s \in Seq(S), NEW x \in S
  PROVE /\ Append(s, x) \in Seq(S) /\ Len(Append(s, x)) = Len(s) + 1 /\ Len(s) \in Nat
        /\ DOMAIN Append(s, x) = 1 .. Len(s) + 1 /\ DOMAIN s = 1 .. Len(s)
        /\ \A k \in DOMAIN s : Append(s, x)[k] = s[k]
        /\ Append(s, x)[Len(s) + 1] = x
  BY LenProperties

LEMMA RetryBounded == ASSUME NEW code \in Statuses, NEW tries \in 0 .. MaxRetries,
                             ShouldRetry(code, tries) = "retry"
                      PROVE  tries + 1 \in 0 .. MaxRetries
  BY BoundsAssumption DEF ShouldRetry, Statuses

LEMMA SuccessMeans2xx == ASSUME NEW code \in Statuses, NEW tries \in 0 .. MaxRetries,
                                ShouldRetry(code, tries) = "success"
                         PROVE  code = "2xx"
  BY BoundsAssumption DEF ShouldRetry, Statuses

(* A busy task holds the entry its group was given last.                   *)
LEMMA HeldTyped == ASSUME TInv, NEW p \in Projects, phase[p] # "idle"
  PROVE /\ msg[p] = read[p] /\ msg[p] \in DOMAIN stream[p] /\ Held(p) \in Message
        /\ Held(p).event \in Events /\ Held(p).tries \in 0 .. MaxRetries
<1>1. /\ stream[p] \in Seq(Message) /\ read[p] \in Nat /\ read[p] <= Len(stream[p])
      /\ msg[p] = read[p] /\ read[p] # 0 /\ Len(stream[p]) \in Nat
  BY LenProperties DEF TInv, TypeOK
<1>2. msg[p] \in 1 .. Len(stream[p])
  BY <1>1
<1>3. Held(p) \in Message
  BY <1>1, <1>2, ElementOfSeq DEF Held
<1>4. QED
  BY <1>1, <1>2, <1>3, LenProperties DEF Message

LEMMA RetryTyped == ASSUME TInv, NEW p \in Projects, phase[p] = "answered", Decision(p) = "retry"
  PROVE /\ [Held(p) EXCEPT !.tries = @ + 1] \in Message
        /\ [Held(p) EXCEPT !.tries = @ + 1].event = Held(p).event
        /\ [Held(p) EXCEPT !.tries = @ + 1].tries # 0
<1>1. Held(p) \in Message /\ Held(p).tries \in 0 .. MaxRetries /\ status[p] \in Statuses
  BY HeldTyped DEF TInv, Heard
<1>2. Held(p).tries + 1 \in 0 .. MaxRetries
  BY <1>1, RetryBounded DEF Decision
<1>3. QED
  BY <1>1, <1>2, BoundsAssumption DEF Message

(* A stream grows at its end; its front may be trimmed, down to StreamCap. *)
LEMMA AddGrows == ASSUME TInv, NEW p \in Projects, NEW m \in Message, Add(p, m)
  PROVE /\ stream' \in [Projects -> Seq(Message)] /\ trimmed' \in [Projects -> Nat]
        /\ stream'[p] = Append(stream[p], m)
        /\ \A q \in Projects \ {p} : stream'[q] = stream[q] /\ trimmed'[q] = trimmed[q]
        /\ Len(stream[p]) \in Nat /\ Len(stream'[p]) = Len(stream[p]) + 1
        /\ DOMAIN stream[p] = 1 .. Len(stream[p]) /\ DOMAIN stream'[p] = 1 .. Len(stream[p]) + 1
        /\ \A k \in DOMAIN stream[p] : stream'[p][k] = stream[p][k]
        /\ stream'[p][Len(stream[p]) + 1] = m
        /\ trimmed[p] <= trimmed'[p] /\ trimmed'[p] <= Len(stream'[p])
        /\ trimmed'[p] = trimmed[p] \/ trimmed'[p] + StreamCap <= Len(stream'[p])
<1>1. stream \in [Projects -> Seq(Message)] /\ trimmed \in [Projects -> Nat]
  BY DEF TInv, TypeOK
<1>2. stream[p] \in Seq(Message) /\ trimmed[p] \in Nat
  BY <1>1
<1>3. /\ Append(stream[p], m) \in Seq(Message)
      /\ Len(Append(stream[p], m)) = Len(stream[p]) + 1 /\ Len(stream[p]) \in Nat
      /\ DOMAIN Append(stream[p], m) = 1 .. Len(stream[p]) + 1
      /\ DOMAIN stream[p] = 1 .. Len(stream[p])
      /\ \A k \in DOMAIN stream[p] : Append(stream[p], m)[k] = stream[p][k]
      /\ Append(stream[p], m)[Len(stream[p]) + 1] = m
  BY <1>2, AppendTyped
<1>4. stream' = [stream EXCEPT ![p] = Append(stream[p], m)]
  BY DEF Add
<1>5. PICK k \in trimmed[p] .. Len(stream[p]) + 1 :
        /\ k = trimmed[p] \/ k + StreamCap <= Len(stream[p]) + 1
        /\ trimmed' = [trimmed EXCEPT ![p] = k]
  BY DEF Add
<1>6. stream'[p] = Append(stream[p], m) /\ trimmed'[p] = k
  BY <1>1, <1>4, <1>5
<1>7. stream' \in [Projects -> Seq(Message)] /\ trimmed' \in [Projects -> Nat]
  BY <1>1, <1>2, <1>3, <1>4, <1>5
<1>8. \A q \in Projects \ {p} : stream'[q] = stream[q] /\ trimmed'[q] = trimmed[q]
  BY <1>1, <1>4, <1>5
<1>9. QED
  BY <1>2, <1>3, <1>5, <1>6, <1>7, <1>8

-----------------------------------------------------------------------------
(* An addition leaves every place in a stream in it.                       *)
LEMMA AddTyped == ASSUME TInv, NEW p \in Projects, NEW m \in Message, Add(p, m), UNCHANGED group
  PROVE /\ stream' \in [Projects -> Seq(Message)] /\ trimmed' \in [Projects -> Nat]
        /\ \A q \in Projects : /\ trimmed'[q] <= Len(stream'[q]) /\ read'[q] <= Len(stream'[q])
                               /\ pending'[q] \subseteq 1 .. read'[q]
<1>1. ASSUME NEW q \in Projects
      PROVE  trimmed'[q] <= Len(stream'[q]) /\ read[q] <= Len(stream'[q])
  <2>1. read[q] \in Nat /\ read[q] <= Len(stream[q]) /\ trimmed[q] <= Len(stream[q])
    BY DEF TInv, TypeOK
  <2>2. CASE q = p
    BY <2>1, <2>2, AddGrows
  <2>3. CASE q # p
    BY <2>1, <2>3, AddGrows
  <2>4. QED
    BY <2>2, <2>3
<1>2. QED
  BY <1>1, AddGrows DEF group, TInv, TypeOK

LEMMA FirstTry == ASSUME NEW e \in Events
  PROVE ProjectOf[e] \in Projects /\ [event |-> e, tries |-> 0] \in Message
  BY EventsAssumption, BoundsAssumption DEF Message

LEMMA UnreadTyped == ASSUME TInv, NEW p \in Projects, NEW k, Unread(p, k)
  PROVE /\ k \in Nat /\ k \in 1 .. Len(stream[p]) /\ read[p] < k /\ trimmed[p] < k
        /\ stream[p][k] \in Message
        /\ \A j \in Nat : read[p] < j /\ trimmed[p] < j => k <= j
<1>1. /\ stream[p] \in Seq(Message) /\ Len(stream[p]) \in Nat /\ read[p] \in Nat
      /\ trimmed[p] \in Nat /\ DOMAIN stream[p] = 1 .. Len(stream[p])
  BY LenProperties DEF TInv, TypeOK
<1>2. k \in 1 .. Len(stream[p]) /\ stream[p][k] \in Message
  BY <1>1, ElementOfSeq DEF Unread
<1>3. QED
  BY <1>1, <1>2 DEF Unread

LEMMA DequeueTyped == ASSUME TInv, NEW p \in Projects, Dequeue(p) PROVE TInv'
<1>1. PICK k \in DOMAIN stream[p] : Unread(p, k) /\ Deliver(p, k)
  BY DEF Dequeue
<1>2. k \in Nat /\ k \in 1 .. Len(stream[p]) /\ read[p] < k /\ Len(stream[p]) \in Nat
  BY <1>1, UnreadTyped, LenProperties DEF TInv, TypeOK
<1>3. /\ read' \in [Projects -> Nat] /\ pending' \in [Projects -> SUBSET Nat]
      /\ read'[p] = k /\ pending'[p] = pending[p] \cup {k}
      /\ \A q \in Projects \ {p} : read'[q] = read[q] /\ pending'[q] = pending[q]
  BY <1>1, <1>2 DEF Deliver, TInv, TypeOK
<1>4. \A q \in Projects : read'[q] <= Len(stream[q]) /\ pending'[q] \subseteq 1 .. read'[q]
  <2>1. read[p] \in Nat /\ pending[p] \subseteq 1 .. read[p]
    BY DEF TInv, TypeOK
  <2>2. pending[p] \cup {k} \subseteq 1 .. k
    BY <1>2, <2>1
  <2>3. ASSUME NEW q \in Projects
        PROVE  read'[q] <= Len(stream[q]) /\ pending'[q] \subseteq 1 .. read'[q]
    <3>1. CASE q = p
      BY <1>2, <1>3, <2>2, <3>1
    <3>2. CASE q # p
      BY <1>3, <3>2 DEF TInv, TypeOK
    <3>3. QED
      BY <3>1, <3>2
  <2>4. QED
    BY <2>3
<1>5. /\ phase' \in [Projects -> Phases] /\ msg' \in [Projects -> Nat] /\ UNCHANGED status
      /\ phase'[p] = "idle" <=> msg'[p] = 0
      /\ phase'[p] # "idle" => msg'[p] = k
      /\ \A q \in Projects \ {p} : phase'[q] = phase[q] /\ msg'[q] = msg[q]
      /\ \A q \in Projects : phase'[q] = "answered" => phase[q] = "answered"
  <2>1. phase[p] = "idle" /\ msg[p] = 0 /\ k # 0 /\ phase \in [Projects -> Phases]
        /\ msg \in [Projects -> Nat] /\ "delivered" \in Phases
    BY <1>1, <1>2 DEF Deliver, TInv, TypeOK, Phases
  <2>2. CASE UNCHANGED task
    BY <2>1, <2>2 DEF task
  <2>3. CASE /\ phase' = [phase EXCEPT ![p] = "delivered"]
             /\ msg' = [msg EXCEPT ![p] = k]
             /\ UNCHANGED status
    BY <1>2, <2>1, <2>3
  <2>4. QED
    BY <1>1, <2>2, <2>3 DEF Deliver
<1>6. \A q \in Projects : /\ phase'[q] = "idle" <=> msg'[q] = 0
                          /\ phase'[q] # "idle" => msg'[q] = read'[q]
  BY <1>3, <1>5 DEF TInv, TypeOK
<1>7. QED
  BY <1>1, <1>3, <1>4, <1>5, <1>6 DEF Deliver, log, TInv, TypeOK, Heard

LEMMA IdleTyped == ASSUME TInv, NEW p \in Projects, Idle(p)
  PROVE /\ phase' \in [Projects -> Phases] /\ msg' \in [Projects -> Nat]
        /\ status' \in [Projects -> Statuses \cup {"none"}]
        /\ \A q \in Projects : /\ phase'[q] = "idle" <=> msg'[q] = 0
                               /\ phase'[q] # "idle" => msg'[q] = read[q]
        /\ \A q \in Projects : phase'[q] = "answered" => status'[q] \in Statuses
  BY DEF Idle, TInv, TypeOK, Heard, Phases

LEMMA AnswerTyped == ASSUME TInv, NEW m \in inflight, NEW code \in Statuses, Answer(m, code)
  PROVE /\ inflight' \subseteq Message /\ UNCHANGED <<log, group, dlq, msg>>
        /\ phase' \in [Projects -> Phases]
        /\ status' \in [Projects -> Statuses \cup {"none"}]
        /\ \A q \in Projects : phase'[q] = "idle" <=> phase[q] = "idle"
        /\ \A q \in Projects : phase'[q] = "answered" => status'[q] \in Statuses
<1> DEFINE p == ProjectOf[m.event]
<1>1. p \in Projects /\ phase[p] \in Phases
  BY EventsAssumption DEF TInv, TypeOK, Message
<1>2. inflight' \subseteq Message /\ UNCHANGED <<log, group, dlq, msg>>
  BY DEF Answer, task, TInv, TypeOK
<1>3. CASE phase[p] = "forwarding" /\ Held(p) = m
  <2>1. /\ phase' = [phase EXCEPT ![p] = "answered"]
        /\ status' = [status EXCEPT ![p] = code]
    BY <1>3 DEF Answer
  <2>2. /\ phase' \in [Projects -> Phases]
        /\ status' \in [Projects -> Statuses \cup {"none"}]
    BY <1>1, <2>1 DEF TInv, TypeOK, Phases
  <2>3. \A q \in Projects : phase'[q] = "idle" <=> phase[q] = "idle"
    BY <1>1, <1>3, <2>1 DEF TInv, TypeOK
  <2>4. \A q \in Projects : phase'[q] = "answered" => status'[q] \in Statuses
    BY <1>1, <2>1 DEF TInv, TypeOK, Heard
  <2>5. QED
    BY <1>2, <2>2, <2>3, <2>4
<1>4. CASE ~(phase[p] = "forwarding" /\ Held(p) = m)
  BY <1>2, <1>4 DEF Answer, task, TInv, TypeOK, Heard
<1>5. QED
  BY <1>3, <1>4

LEMMA TInvStep == ASSUME TInv, [Next]_vars PROVE TInv'
<1>1. ASSUME NEW e \in Events, Enqueue(e) PROVE TInv'
  <2>1. /\ stream' \in [Projects -> Seq(Message)] /\ trimmed' \in [Projects -> Nat]
        /\ \A q \in Projects : /\ trimmed'[q] <= Len(stream'[q]) /\ read'[q] <= Len(stream'[q])
                               /\ pending'[q] \subseteq 1 .. read'[q]
    BY <1>1, FirstTry, AddTyped DEF Enqueue
  <2>2. QED
    BY <1>1, <2>1 DEF Enqueue, group, task, TInv, TypeOK, Heard
<1>2. ASSUME NEW p \in Projects, Dequeue(p) PROVE TInv'
  BY <1>2, DequeueTyped
<1>3. ASSUME NEW p \in Projects, Post(p) PROVE TInv'
  <2>1. Held(p) \in Message
    BY <1>3, HeldTyped DEF Post
  <2>2. QED
    BY <1>3, <2>1 DEF Post, log, group, TInv, TypeOK, Heard, Phases
<1>4. ASSUME NEW p \in Projects, Succeed(p) \/ Ack(p) \/ RedisFails(p) PROVE TInv'
  <2>1. /\ Idle(p) /\ UNCHANGED <<log, read, inflight, chain, dlq>>
        /\ pending' \in [Projects -> SUBSET Nat]
        /\ \A q \in Projects : pending'[q] \subseteq pending[q]
    BY <1>4 DEF Succeed, Ack, RedisFails, Acknowledge, group, TInv, TypeOK
  <2>2. \A q \in Projects : pending'[q] \subseteq 1 .. read[q]
    BY <2>1 DEF TInv, TypeOK
  <2>3. QED
    BY <2>1, <2>2, IdleTyped DEF log, TInv, TypeOK, Heard
<1>5. ASSUME NEW p \in Projects, Requeue(p) PROVE TInv'
  <2>1. /\ stream' \in [Projects -> Seq(Message)] /\ trimmed' \in [Projects -> Nat]
        /\ \A q \in Projects : /\ trimmed'[q] <= Len(stream'[q]) /\ read'[q] <= Len(stream'[q])
                               /\ pending'[q] \subseteq 1 .. read'[q]
    BY <1>5, RetryTyped, AddTyped DEF Requeue
  <2>2. QED
    BY <1>5, <2>1 DEF Requeue, group, TInv, TypeOK, Heard, Phases
<1>6. ASSUME NEW p \in Projects, DeadLetter(p) PROVE TInv'
  <2>1. Held(p).event \in Events /\ status[p] \in Statuses
    BY <1>6, HeldTyped DEF DeadLetter, TInv, Heard
  <2>2. [event |-> Held(p).event, code |-> status[p]] \in [event : Events, code : Statuses]
    BY <2>1
  <2>3. dlq' \in [Ids -> [event : Events, code : Statuses] \cup {NoEntry}]
    BY <1>6, <2>2 DEF DeadLetter, TInv, TypeOK
  <2>4. QED
    BY <1>6, <2>3 DEF DeadLetter, log, group, TInv, TypeOK, Heard, Phases
<1>7. ASSUME NEW m \in inflight, Record(m) PROVE TInv'
  <2>1. PICK code \in Statuses : Answer(m, code)
    BY <1>7 DEF Record, Statuses
  <2>2. chain' \in [Projects -> Seq(Message)]
    BY <1>7, AppendTyped, EventsAssumption DEF Record, TInv, TypeOK, Message
  <2>3. QED
    BY <2>1, <2>2, AnswerTyped DEF log, group, TInv, TypeOK, Heard
<1>8. ASSUME NEW m \in inflight, Refuse(m) PROVE TInv'
  <2>1. PICK code \in Statuses : Answer(m, code)
    BY <1>8 DEF Refuse, Statuses
  <2>2. QED
    BY <1>8, <2>1, AnswerTyped DEF Refuse, log, group, TInv, TypeOK, Heard
<1>9. ASSUME NEW p \in Projects, Timeout(p) PROVE TInv'
  BY <1>9 DEF Timeout, log, group, TInv, TypeOK, Heard, Phases, Statuses
<1>10. CASE Crash
  BY <1>10 DEF Crash, log, group, TInv, TypeOK, Heard, Phases
<1>11. CASE UNCHANGED vars
  BY <1>11 DEF vars, log, group, task, TInv, TypeOK, Heard
<1>12. QED
  BY <1>1, <1>2, <1>3, <1>4, <1>5, <1>6, <1>7, <1>8, <1>9, <1>10, <1>11
     DEF Next, Consume, Attend

LEMMA TypeInit == Init => TInv
  BY EmptySeq DEF Init, TInv, TypeOK, Heard, Phases

(* Streams, tasks, recorder and dead letters always have their type; in    *)
(* particular no message is retried more than MaxRetries times, and a busy *)
(* task holds the entry its consumer group was given last.                 *)
THEOREM TypeCorrect == Spec => []TypeOK
<1>1. TInv => TypeOK
  BY DEF TInv
<1>2. TInv /\ [Next]_vars => TInv'
  BY TInvStep
<1>3. QED
  BY <1>1, <1>2, TypeInit, PTL DEF Spec

-----------------------------------------------------------------------------
(* What a task works on stays pending until it is safe elsewhere.          *)
HeldPending == \A p \in Projects : phase[p] # "idle" => msg[p] \in pending[p]

(* A younger entry of the event that the task of p works on.               *)
Renewed(p) == \E k \in DOMAIN stream[p] : k > msg[p] /\ stream[p][k].event = Held(p).event

Handed(p) ==
  /\ phase[p] = "answered" /\ status[p] = "2xx" => Recorded(IdOf[Held(p).event])
  /\ phase[p] = "acking" => Renewed(p) \/ Buried(Held(p).event)

SafeElsewhere == \A p \in Projects : Handed(p)

(* Streams hold events of their own project.                               *)
OwnEvents == \A p \in Projects : \A k \in DOMAIN stream[p] : ProjectOf[stream[p][k].event] = p

(* What has been trimmed has StreamCap younger entries.                    *)
TrimmedFar == \A p \in Projects : trimmed[p] = 0 \/ trimmed[p] + StreamCap <= Len(stream[p])

(* The youngest entry of an event that is not safe elsewhere is unread or  *)
(* pending, whether or not Redis still holds it.                           *)
KeptAt(e, k) == LET p == ProjectOf[e] IN
  /\ k \in DOMAIN stream[p]
  /\ stream[p][k].event = e
  /\ Youngest(p, k)
  /\ k <= trimmed[p] \/ read[p] < k \/ k \in pending[p]

Safe(e) == Buried(e) \/ Recorded(IdOf[e]) \/ \E k \in Nat : KeptAt(e, k)

AllSafe == \A e \in Events : Sent(e) => Safe(e)

AInv == TInv /\ HeldPending /\ SafeElsewhere /\ OwnEvents /\ TrimmedFar /\ AllSafe

(* A step adds a message to one stream or leaves all of them.              *)
LEMMA LogStep == ASSUME TInv, [Next]_vars
  PROVE \/ UNCHANGED log
        \/ \E p \in Projects, m \in Message : Add(p, m) /\ UNCHANGED <<group, msg, chain, dlq>>
<1>1. ASSUME NEW e \in Events, Enqueue(e)
      PROVE  \E p \in Projects, m \in Message : Add(p, m) /\ UNCHANGED <<group, msg, chain, dlq>>
  BY <1>1, FirstTry DEF Enqueue, task
<1>2. ASSUME NEW p \in Projects, Requeue(p)
      PROVE  \E m \in Message : Add(p, m) /\ UNCHANGED <<group, msg, chain, dlq>>
  BY <1>2, RetryTyped DEF Requeue
<1>3. QED
  BY <1>1, <1>2 DEF Next, Consume, Attend, vars, Dequeue, Deliver, Post, Succeed, Ack,
     DeadLetter, Record, Refuse, Answer, Timeout, RedisFails, Crash

(* Entries stay where they are.                                            *)
LEMMA EntriesStay == ASSUME TInv, [Next]_vars, NEW p \in Projects, NEW k \in DOMAIN stream[p]
  PROVE k \in DOMAIN stream'[p] /\ stream'[p][k] = stream[p][k]
<1>1. CASE UNCHANGED log
  BY <1>1 DEF log
<1>2. ASSUME NEW q \in Projects, NEW m \in Message, Add(q, m)
      PROVE  k \in DOMAIN stream'[p] /\ stream'[p][k] = stream[p][k]
  <2>1. CASE p = q
    BY <1>2, <2>1, AddGrows
  <2>2. CASE p # q
    BY <1>2, <2>2, AddGrows
  <2>3. QED
    BY <2>1, <2>2
<1>3. QED
  BY <1>1, <1>2, LogStep

(* What is recorded stays recorded.                                        *)
LEMMA ChainGrows == ASSUME TInv, [Next]_vars, NEW i, Recorded(i) PROVE Recorded(i)'
<1>1. ASSUME NEW m \in inflight, Record(m) PROVE Recorded(i)'
  <2>1. PICK p \in Projects : \E j \in DOMAIN chain[p] : IdOf[chain[p][j].event] = i
    BY DEF Recorded
  <2>2. PICK k \in DOMAIN chain[p] : IdOf[chain[p][k].event] = i
    BY <2>1
  <2>3. chain[p] \in Seq(Message) /\ m \in Message
    BY DEF TInv, TypeOK
  <2>4. k \in DOMAIN chain'[p] /\ chain'[p][k] = chain[p][k]
    BY <1>1, <2>2, <2>3, AppendTyped, EventsAssumption DEF Record, TInv, TypeOK
  <2>5. QED
    BY <2>2, <2>4 DEF Recorded
<1>2. CASE UNCHANGED chain
  BY <1>2 DEF Recorded
<1>3. QED
  BY <1>1, <1>2 DEF Next, Consume, Attend, vars, Enqueue, Dequeue, Deliver, Post, Succeed,
     Requeue, DeadLetter, Ack, Refuse, Timeout, RedisFails, Crash

(* With distinct request ids no dead letter is overwritten by another's.   *)
LEMMA BuriedStays == ASSUME DistinctIds, TInv, [Next]_vars, NEW e \in Events, Buried(e)
  PROVE Buried(e)'
<1>1. ASSUME NEW p \in Projects, DeadLetter(p) PROVE Buried(e)'
  <2>1. Held(p).event \in Events /\ status[p] \in Statuses /\ IdOf[e] \in Ids
    BY <1>1, HeldTyped, EventsAssumption DEF DeadLetter, TInv, Heard
  <2>2. CASE e = Held(p).event
    <3>1. dlq'[IdOf[e]] = [event |-> e, code |-> status[p]]
      BY <1>1, <2>1, <2>2 DEF DeadLetter, TInv, TypeOK
    <3>2. QED
      BY <2>1, <3>1, NullAssumption DEF Buried
  <2>3. CASE e # Held(p).event
    BY <1>1, <2>1, <2>3 DEF DeadLetter, TInv, TypeOK, DistinctIds, Buried
  <2>4. QED
    BY <2>2, <2>3
<1>2. CASE UNCHANGED dlq
  BY <1>2 DEF Buried
<1>3. QED
  BY <1>1, <1>2 DEF Next, Consume, Attend, vars, Enqueue, Dequeue, Deliver, Post, Succeed,
     Requeue, Ack, Record, Refuse, Answer, Timeout, RedisFails, Crash
(* An addition changes no entry's place; a newer entry of the same event   *)
(* takes the place of the youngest.                                        *)
LEMMA KeptOnAdd ==
  ASSUME TInv, NEW q \in Projects, NEW m \in Message, Add(q, m), UNCHANGED group,
         NEW e \in Events, NEW k \in Nat, KeptAt(e, k), m.event = e => q = ProjectOf[e]
  PROVE  \E j \in Nat : KeptAt(e, j)'
<1>0. PICK p \in Projects : p = ProjectOf[e]
  BY EventsAssumption
<1>1. /\ k \in DOMAIN stream[p] /\ stream[p][k].event = e /\ Youngest(p, k)
      /\ k <= trimmed[p] \/ read[p] < k \/ k \in pending[p]
  BY <1>0 DEF KeptAt
<1>2. /\ read'[p] = read[p] /\ pending'[p] = pending[p]
      /\ read[p] \in Nat /\ read[p] <= Len(stream[p]) /\ trimmed[p] \in Nat
      /\ trimmed'[p] \in Nat /\ trimmed[p] <= trimmed'[p]
  <2>1. /\ read'[p] = read[p] /\ pending'[p] = pending[p]
        /\ read[p] \in Nat /\ read[p] <= Len(stream[p]) /\ trimmed[p] \in Nat
    BY <1>0 DEF group, TInv, TypeOK
  <2>2. trimmed' \in [Projects -> Nat] /\ (q = p => trimmed[p] <= trimmed'[p])
        /\ (q # p => trimmed'[p] = trimmed[p])
    BY <1>0, AddGrows
  <2>3. QED
    BY <1>0, <2>1, <2>2
<1>3. CASE q = p
  <2>1. /\ Len(stream[p]) \in Nat
        /\ DOMAIN stream[p] = 1 .. Len(stream[p]) /\ DOMAIN stream'[p] = 1 .. Len(stream[p]) + 1
        /\ \A j \in DOMAIN stream[p] : stream'[p][j] = stream[p][j]
        /\ stream'[p][Len(stream[p]) + 1] = m
    BY <1>3, AddGrows
  <2>2. CASE m.event = e
    <3>0. PICK n : n = Len(stream[p]) + 1
      OBVIOUS
    <3>1. n \in Nat /\ n \in DOMAIN stream'[p] /\ stream'[p][n].event = e /\ read'[p] < n
      BY <1>2, <2>1, <2>2, <3>0
    <3>2. Youngest(p, n)'
      BY <2>1, <3>0 DEF Youngest
    <3>3. KeptAt(e, n)'
      BY <1>0, <3>1, <3>2 DEF KeptAt
    <3>4. QED
      BY <3>1, <3>3
  <2>3. CASE m.event # e
    <3>1. Youngest(p, k)'
      BY <1>1, <2>1, <2>3 DEF Youngest
    <3>2. KeptAt(e, k)'
      BY <1>0, <1>1, <1>2, <2>1, <3>1 DEF KeptAt
    <3>3. QED
      BY <3>2
  <2>4. QED
    BY <2>2, <2>3
<1>4. CASE q # p
  <2>1. stream'[p] = stream[p] /\ trimmed'[p] = trimmed[p]
    BY <1>4, AddGrows
  <2>2. KeptAt(e, k)'
    BY <1>0, <1>1, <1>2, <2>1 DEF KeptAt, Youngest
  <2>3. QED
    BY <2>2
<1>5. QED
  BY <1>3, <1>4

(* Delivery makes an unread entry pending, or passes over a trimmed one.   *)
LEMMA KeptOnDequeue ==
  ASSUME TInv, NEW q \in Projects, Dequeue(q), NEW e \in Events, NEW k \in Nat, KeptAt(e, k)
  PROVE  KeptAt(e, k)'
<1>0. PICK p \in Projects : p = ProjectOf[e]
  BY EventsAssumption
<1>1. PICK j \in DOMAIN stream[q] : Unread(q, j) /\ Deliver(q, j)
  BY DEF Dequeue
<1>2. /\ stream' = stream /\ trimmed' = trimmed
      /\ read' = [read EXCEPT ![q] = j] /\ pending' = [pending EXCEPT ![q] = @ \cup {j}]
  BY <1>1 DEF Deliver, log
<1>3. CASE q = p
  <2>1. j \in Nat /\ \A l \in Nat : read[p] < l /\ trimmed[p] < l => j <= l
    BY <1>1, <1>3, UnreadTyped
  <2>2. read'[p] = j /\ pending'[p] = pending[p] \cup {j} /\ trimmed[p] \in Nat
    BY <1>2, <1>3 DEF TInv, TypeOK
  <2>3. k <= trimmed[p] \/ j < k \/ k \in pending'[p]
    BY <1>0, <2>1, <2>2 DEF KeptAt
  <2>4. QED
    BY <1>0, <1>2, <2>2, <2>3 DEF KeptAt, Youngest
<1>4. CASE q # p
  BY <1>0, <1>2, <1>4 DEF KeptAt, Youngest, TInv, TypeOK
<1>5. QED
  BY <1>3, <1>4

(* An acknowledged entry is recorded, in the dead-letter queue or renewed. *)
LEMMA KeptOnAck ==
  ASSUME AInv, NEW q \in Projects, Succeed(q) \/ Ack(q), NEW e \in Events, NEW k \in Nat,
         KeptAt(e, k)
  PROVE  Recorded(IdOf[e]) \/ Buried(e) \/ KeptAt(e, k)'
<1>0. PICK p \in Projects : p = ProjectOf[e]
  BY EventsAssumption
<1>1. /\ stream' = stream /\ trimmed' = trimmed /\ read' = read
      /\ pending' = [pending EXCEPT ![q] = @ \ {msg[q]}]
  BY DEF Succeed, Ack, Acknowledge, log
<1>2. CASE q = p /\ k = msg[q]
  <2>1. Held(q).event = e
    BY <1>0, <1>2 DEF KeptAt, Held
  <2>2. CASE Succeed(q)
    <3>1. status[q] \in Statuses /\ Held(q).tries \in 0 .. MaxRetries
      BY <2>2, HeldTyped DEF Succeed, AInv, TInv, Heard
    <3>2. status[q] = "2xx"
      BY <2>2, <3>1, SuccessMeans2xx DEF Succeed, Decision
    <3>3. QED
      BY <2>1, <2>2, <3>2 DEF Succeed, AInv, SafeElsewhere, Handed
  <2>3. CASE Ack(q)
    <3>1. Renewed(q) \/ Buried(e)
      BY <2>1, <2>3 DEF Ack, AInv, SafeElsewhere, Handed
    <3>2. ~Renewed(q)
      BY <1>0, <1>2, <2>1 DEF Renewed, KeptAt, Youngest
    <3>3. QED
      BY <3>1, <3>2
  <2>4. QED
    BY <2>2, <2>3
<1>3. CASE ~(q = p /\ k = msg[q])
  BY <1>0, <1>1, <1>3 DEF KeptAt, Youngest, AInv, TInv, TypeOK
<1>4. QED
  BY <1>2, <1>3

LEMMA KeptSame ==
  ASSUME UNCHANGED <<log, group>>, NEW e, NEW k, KeptAt(e, k)
  PROVE  KeptAt(e, k)'
  BY DEF log, group, KeptAt, Youngest

(* What is safe stays safe.                                                *)
LEMMA SafeStays == ASSUME DistinctIds, AInv, [Next]_vars, NEW e \in Events, Safe(e)
  PROVE Safe(e)'
<1>1. CASE Recorded(IdOf[e])
  BY <1>1, ChainGrows, EventsAssumption DEF AInv, Safe
<1>2. CASE Buried(e)
  BY <1>2, BuriedStays DEF AInv, Safe
<1>3. ASSUME NEW k \in Nat, KeptAt(e, k), ~Recorded(IdOf[e]), ~Buried(e)
      PROVE  Safe(e)'
  <2>1. ASSUME NEW f \in Events, Enqueue(f) PROVE Safe(e)'
    BY <1>3, <2>1, FirstTry, KeptOnAdd DEF Enqueue, Safe, AInv
  <2>2. ASSUME NEW q \in Projects, Requeue(q) PROVE Safe(e)'
    <3>1. ProjectOf[Held(q).event] = q
      BY <2>2, HeldTyped DEF Requeue, AInv, OwnEvents, Held
    <3>2. QED
      BY <1>3, <2>2, <3>1, RetryTyped, KeptOnAdd DEF Requeue, Safe, AInv
  <2>3. ASSUME NEW q \in Projects, Dequeue(q) PROVE Safe(e)'
    BY <1>3, <2>3, KeptOnDequeue DEF Safe, AInv
  <2>4. ASSUME NEW q \in Projects, Succeed(q) \/ Ack(q) PROVE Safe(e)'
    BY <1>3, <2>4, KeptOnAck DEF Safe
  <2>5. CASE UNCHANGED <<log, group>>
    BY <1>3, <2>5, KeptSame DEF Safe
  <2>6. QED
    BY <2>1, <2>2, <2>3, <2>4, <2>5 DEF Next, Consume, Attend, vars, Post, DeadLetter, Record,
       Refuse, Answer, Timeout, RedisFails, Crash
<1>4. QED
  BY <1>1, <1>2, <1>3 DEF Safe

LEMMA AllSafeStep == ASSUME DistinctIds, AInv, [Next]_vars PROVE AllSafe'
<1> SUFFICES ASSUME NEW e \in Events, Sent(e)' PROVE Safe(e)'
  BY DEF AllSafe
<1>0. PICK p \in Projects : p = ProjectOf[e]
  BY EventsAssumption
<1>1. CASE Sent(e)
  BY <1>1, SafeStays DEF AInv, AllSafe
<1>2. ASSUME NEW f \in Events, Enqueue(f), ~Sent(e) PROVE Safe(e)'
  <2> DEFINE q == ProjectOf[f]
  <2>0. PICK n : n = Len(stream[q]) + 1
    OBVIOUS
  <2>1. /\ q \in Projects /\ [event |-> f, tries |-> 0] \in Message
        /\ Add(q, [event |-> f, tries |-> 0])
    BY <1>2, FirstTry DEF Enqueue
  <2>2. /\ Len(stream[q]) \in Nat
        /\ DOMAIN stream[q] = 1 .. Len(stream[q]) /\ DOMAIN stream'[q] = 1 .. n
        /\ \A j \in DOMAIN stream[q] : stream'[q][j] = stream[q][j]
        /\ stream'[q][n] = [event |-> f, tries |-> 0]
        /\ \A o \in Projects \ {q} : stream'[o] = stream[o]
    BY <2>0, <2>1, AddGrows DEF AInv
  <2>3. e = f /\ p = q
    <3>1. PICK k \in DOMAIN stream'[p] : stream'[p][k].event = e
      BY <1>0 DEF Sent
    <3>2. p = q /\ k = n
      BY <1>0, <1>2, <2>0, <2>2, <3>1 DEF Sent
    <3>3. QED
      BY <2>2, <3>1, <3>2
  <2>4. n \in Nat /\ n \in DOMAIN stream'[p] /\ stream'[p][n].event = e /\ Youngest(p, n)'
    BY <2>0, <2>2, <2>3 DEF Youngest
  <2>5. read'[p] < n
    BY <1>2, <2>0, <2>2, <2>3 DEF Enqueue, group, AInv, TInv, TypeOK
  <2>6. KeptAt(e, n)'
    BY <1>0, <2>4, <2>5 DEF KeptAt
  <2>7. QED
    BY <2>4, <2>6 DEF Safe
<1>3. ASSUME NEW q \in Projects, Requeue(q), ~Sent(e) PROVE FALSE
  <2>1. /\ [Held(q) EXCEPT !.tries = @ + 1] \in Message
        /\ [Held(q) EXCEPT !.tries = @ + 1].event = Held(q).event
        /\ Add(q, [Held(q) EXCEPT !.tries = @ + 1])
        /\ msg[q] \in DOMAIN stream[q] /\ ProjectOf[Held(q).event] = q
    BY <1>3, HeldTyped, RetryTyped DEF Requeue, AInv, OwnEvents, Held
  <2>2. /\ Len(stream[q]) \in Nat
        /\ DOMAIN stream[q] = 1 .. Len(stream[q]) /\ DOMAIN stream'[q] = 1 .. Len(stream[q]) + 1
        /\ \A j \in DOMAIN stream[q] : stream'[q][j] = stream[q][j]
        /\ stream'[q][Len(stream[q]) + 1].event = Held(q).event
        /\ \A o \in Projects \ {q} : stream'[o] = stream[o]
    BY <2>1, AddGrows DEF AInv
  <2>3. PICK k \in DOMAIN stream'[p] : stream'[p][k].event = e
    BY <1>0 DEF Sent
  <2>4. p = q /\ k = Len(stream[q]) + 1
    BY <1>0, <1>3, <2>2, <2>3 DEF Sent
  <2>5. stream[p][msg[q]].event = e
    BY <2>2, <2>3, <2>4 DEF Held
  <2>6. QED
    BY <1>0, <1>3, <2>1, <2>4, <2>5 DEF Sent
<1>4. CASE UNCHANGED log
  BY <1>1, <1>4 DEF log, Sent
<1>5. QED
  BY <1>1, <1>2, <1>3, <1>4 DEF Next, Consume, Attend, vars, Dequeue, Deliver, Post, Succeed, Ack,
     DeadLetter, Record, Refuse, Answer, Timeout, RedisFails, Crash

LEMMA OwnStep == ASSUME TInv, OwnEvents, [Next]_vars PROVE OwnEvents'
<1>1. ASSUME NEW p \in Projects, NEW m \in Message, Add(p, m), ProjectOf[m.event] = p
      PROVE  OwnEvents'
  <2>1. ASSUME NEW q \in Projects, NEW k \in DOMAIN stream'[q]
        PROVE  ProjectOf[stream'[q][k].event] = q
    <3>1. CASE q = p
      <4>1. k \in DOMAIN stream[p] \/ stream'[p][k] = m
        BY <1>1, <3>1, AddGrows
      <4>2. QED
        BY <1>1, <3>1, <4>1, AddGrows DEF OwnEvents
    <3>2. CASE q # p
      BY <1>1, <3>2, AddGrows DEF OwnEvents
    <3>3. QED
      BY <3>1, <3>2
  <2>2. QED
    BY <2>1 DEF OwnEvents
<1>2. ASSUME NEW e \in Events, Enqueue(e) PROVE OwnEvents'
  BY <1>1, <1>2, FirstTry DEF Enqueue
<1>3. ASSUME NEW p \in Projects, Requeue(p) PROVE OwnEvents'
  <2>1. ProjectOf[Held(p).event] = p
    BY <1>3, HeldTyped DEF Requeue, OwnEvents, Held
  <2>2. QED
    BY <1>1, <1>3, <2>1, RetryTyped DEF Requeue
<1>4. CASE UNCHANGED log
  BY <1>4 DEF log, OwnEvents
<1>5. QED
  BY <1>2, <1>3, <1>4 DEF Next, Consume, Attend, vars, Dequeue, Deliver, Post, Succeed, Ack,
     DeadLetter, Record, Refuse, Answer, Timeout, RedisFails, Crash

LEMMA TrimmedStep == ASSUME TInv, TrimmedFar, [Next]_vars PROVE TrimmedFar'
<1>1. ASSUME NEW p \in Projects, NEW m \in Message, Add(p, m) PROVE TrimmedFar'
  <2>1. ASSUME NEW q \in Projects PROVE trimmed'[q] = 0 \/ trimmed'[q] + StreamCap <= Len(stream'[q])
    <3>1. trimmed[q] \in Nat /\ (trimmed[q] = 0 \/ trimmed[q] + StreamCap <= Len(stream[q]))
      BY DEF TrimmedFar, TInv, TypeOK
    <3>2. CASE q = p
      BY <1>1, <3>1, <3>2, AddGrows, BoundsAssumption
    <3>3. CASE q # p
      BY <1>1, <3>1, <3>3, AddGrows
    <3>4. QED
      BY <3>2, <3>3
  <2>2. QED
    BY <2>1 DEF TrimmedFar
<1>2. QED
  BY <1>1, LogStep DEF log, TrimmedFar
LEMMA HeldStep == ASSUME AInv, [Next]_vars PROVE HeldPending'
<1> USE DEF AInv, TInv, TypeOK
<1>1. ASSUME NEW p \in Projects, Dequeue(p) PROVE HeldPending'
  <2>1. PICK k \in DOMAIN stream[p] : Deliver(p, k)
    BY <1>1 DEF Dequeue
  <2>2. QED
    BY <2>1 DEF Deliver, task, HeldPending
<1>2. ASSUME NEW p \in Projects, Idle(p),
             \A q \in Projects \ {p} : pending'[q] = pending[q]
      PROVE HeldPending'
  BY <1>2 DEF Idle, HeldPending
<1>3. ASSUME NEW p \in Projects, Succeed(p) \/ Ack(p) \/ RedisFails(p) PROVE HeldPending'
  BY <1>2, <1>3 DEF Succeed, Ack, RedisFails, Acknowledge, group
<1>4. ASSUME UNCHANGED <<pending, msg>>,
             \A q \in Projects : phase'[q] # "idle" => phase[q] # "idle"
      PROVE HeldPending'
  BY <1>4 DEF HeldPending
<1>5. ASSUME NEW m \in inflight, Record(m) \/ Refuse(m) PROVE HeldPending'
  <2>1. PICK code \in Statuses : Answer(m, code)
    BY <1>5 DEF Record, Refuse, Statuses
  <2>2. QED
    BY <1>4, <2>1, AnswerTyped DEF group
<1>6. ASSUME NEW p \in Projects, Post(p) \/ Requeue(p) \/ DeadLetter(p) \/ Timeout(p)
      PROVE HeldPending'
  BY <1>4, <1>6 DEF Post, Requeue, DeadLetter, Timeout, group
<1>7. CASE Crash
  BY <1>7 DEF Crash, HeldPending
<1>8. ASSUME NEW e \in Events, Enqueue(e) PROVE HeldPending'
  BY <1>4, <1>8 DEF Enqueue, task, group
<1>9. CASE UNCHANGED vars
  BY <1>4, <1>9 DEF vars, task, group
<1>10. QED
  BY <1>1, <1>3, <1>5, <1>6, <1>7, <1>8, <1>9 DEF Next, Consume, Attend

(* A busy task whose message is not this step's doing holds it still.      *)
LEMMA HeldStays ==
  ASSUME TInv, [Next]_vars, NEW p \in Projects, phase[p] # "idle", msg'[p] = msg[p]
  PROVE  Held(p)' = Held(p) /\ (Renewed(p) => Renewed(p)')
<1>1. Held(p)' = Held(p)
  BY HeldTyped, EntriesStay DEF Held
<1>2. Renewed(p) => Renewed(p)'
  BY <1>1, EntriesStay DEF Renewed
<1>3. QED
  BY <1>1, <1>2

(* A task whose answer or hand-over is not this step's doing.              *)
LEMMA ElsewhereStays ==
  ASSUME DistinctIds, AInv, [Next]_vars, NEW p \in Projects,
         msg'[p] = msg[p], phase'[p] = phase[p], status'[p] = status[p], phase[p] # "idle"
  PROVE  Handed(p)'
<1>0. PICK e \in Events : e = Held(p).event
  BY HeldTyped DEF AInv
<1>1. Handed(p) /\ Held(p)' = Held(p) /\ (Renewed(p) => Renewed(p)')
  BY HeldStays DEF AInv, SafeElsewhere
<1>2. phase[p] = "answered" /\ status[p] = "2xx" => Recorded(IdOf[e])'
  BY <1>0, <1>1, ChainGrows DEF AInv, Handed
<1>3. phase[p] = "acking" => Renewed(p)' \/ Buried(e)'
  BY <1>0, <1>1, BuriedStays DEF AInv, Handed
<1>4. QED
  BY <1>0, <1>1, <1>2, <1>3 DEF Handed, Recorded, Buried

LEMMA ElsewhereStep == ASSUME DistinctIds, AInv, [Next]_vars PROVE SafeElsewhere'
<1> USE DEF AInv, TInv, TypeOK
<1>1. ASSUME NEW q \in Projects, phase'[q] \notin {"answered", "acking"} PROVE Handed(q)'
  BY <1>1 DEF Handed
<1>2. ASSUME NEW q \in Projects, msg'[q] = msg[q], phase'[q] = phase[q], status'[q] = status[q]
      PROVE Handed(q)'
  <2>1. CASE phase[q] = "idle"
    BY <1>2, <2>1 DEF Handed
  <2>2. CASE phase[q] # "idle"
    BY <1>2, <2>2, ElsewhereStays
  <2>3. QED
    BY <2>1, <2>2
<1>3. ASSUME NEW p \in Projects, Requeue(p), NEW q \in Projects PROVE Handed(q)'
  <2>1. CASE q = p
    <3>1. PICK m \in Message : m.event = Held(p).event /\ Add(p, m)
      BY <1>3, RetryTyped DEF Requeue
    <3>2. /\ Len(stream[p]) \in Nat /\ DOMAIN stream[p] = 1 .. Len(stream[p])
          /\ DOMAIN stream'[p] = 1 .. Len(stream[p]) + 1
          /\ stream'[p][Len(stream[p]) + 1] = m
      BY <3>1, AddGrows
    <3>3. msg[p] \in DOMAIN stream[p] /\ Held(p)' = Held(p) /\ msg'[p] = msg[p]
      BY <1>3, HeldTyped, HeldStays DEF Requeue
    <3>4. Renewed(p)'
      <4>1. PICK n : n = Len(stream[p]) + 1
        OBVIOUS
      <4>2. n \in DOMAIN stream'[p] /\ n > msg'[p]
        BY <3>2, <3>3, <4>1
      <4>3. stream'[p][n].event = Held(p)'.event
        BY <3>1, <3>2, <3>3, <4>1
      <4>4. QED
        BY <4>2, <4>3 DEF Renewed
    <3>5. QED
      BY <1>3, <2>1, <3>4 DEF Requeue, Handed
  <2>2. CASE q # p
    BY <1>2, <1>3, <2>2 DEF Requeue
  <2>3. QED
    BY <2>1, <2>2
<1>4. ASSUME NEW p \in Projects, DeadLetter(p), NEW q \in Projects PROVE Handed(q)'
  <2>1. CASE q = p
    <3>1. status[p] \in Statuses /\ Held(p).event \in Events /\ Held(p)' = Held(p)
      BY <1>4, HeldTyped, HeldStays DEF DeadLetter, Heard
    <3>2. dlq'[IdOf[Held(p).event]] = [event |-> Held(p).event, code |-> status[p]]
      BY <1>4, <3>1, EventsAssumption DEF DeadLetter
    <3>3. dlq'[IdOf[Held(p).event]] # NoEntry /\ dlq'[IdOf[Held(p).event]].event = Held(p).event
      BY <3>1, <3>2, NullAssumption
    <3>4. QED
      BY <1>4, <2>1, <3>1, <3>3 DEF DeadLetter, Handed, Buried
  <2>2. CASE q # p
    BY <1>2, <1>4, <2>2 DEF DeadLetter
  <2>3. QED
    BY <2>1, <2>2
<1>5. ASSUME NEW m \in inflight, Record(m), NEW q \in Projects PROVE Handed(q)'
  <2>1. PICK code \in {"2xx", "5xx"} : Answer(m, code)
    BY <1>5 DEF Record
  <2>2. CASE q = ProjectOf[m.event] /\ phase[q] = "forwarding" /\ Held(q) = m
    <3>1. chain[q] \in Seq(Message) /\ m \in Message /\ chain'[q] = Append(chain[q], m)
      BY <1>5, <2>2 DEF Record
    <3>2. Len(chain[q]) + 1 \in DOMAIN chain'[q] /\ chain'[q][Len(chain[q]) + 1] = m
      BY <3>1, AppendTyped
    <3>3. Recorded(IdOf[m.event])'
      BY <3>2 DEF Recorded
    <3>4. Held(q)' = m /\ phase'[q] = "answered"
      BY <2>1, <2>2 DEF Answer, log, Held
    <3>5. QED
      BY <3>3, <3>4 DEF Handed, Recorded
  <2>3. CASE ~(q = ProjectOf[m.event] /\ phase[q] = "forwarding" /\ Held(q) = m)
    BY <1>2, <2>1, <2>3 DEF Answer, task
  <2>4. QED
    BY <2>2, <2>3
<1>6. ASSUME NEW m \in inflight, Refuse(m), NEW q \in Projects PROVE Handed(q)'
  <2>1. PICK code \in {"4xx", "409", "5xx"} : Answer(m, code)
    BY <1>6 DEF Refuse
  <2>2. CASE q = ProjectOf[m.event] /\ phase[q] = "forwarding" /\ Held(q) = m
    BY <2>1, <2>2 DEF Answer, Handed
  <2>3. CASE ~(q = ProjectOf[m.event] /\ phase[q] = "forwarding" /\ Held(q) = m)
    BY <1>2, <2>1, <2>3 DEF Answer, task
  <2>4. QED
    BY <2>2, <2>3
<1>7. ASSUME NEW p \in Projects, NEW q \in Projects, Idle(p) PROVE Handed(q)'
  BY <1>1, <1>2, <1>7 DEF Idle
<1>8. ASSUME NEW p \in Projects, NEW q \in Projects, Dequeue(p) \/ Post(p) \/ Timeout(p)
      PROVE Handed(q)'
  <2>1. CASE Dequeue(p)
    <3>1. PICK k \in DOMAIN stream[p] : Deliver(p, k)
      BY <2>1 DEF Dequeue
    <3>2. QED
      BY <1>1, <1>2, <3>1 DEF Deliver, task
  <2>2. CASE Post(p)
    BY <1>1, <1>2, <2>2 DEF Post
  <2>3. CASE Timeout(p)
    <3>1. q = p => phase'[q] = "answered" /\ status'[q] = "exception"
      BY <2>3 DEF Timeout
    <3>2. q # p => msg'[q] = msg[q] /\ phase'[q] = phase[q] /\ status'[q] = status[q]
      BY <2>3 DEF Timeout
    <3>3. QED
      BY <1>2, <3>1, <3>2 DEF Handed
  <2>4. QED
    BY <1>8, <2>1, <2>2, <2>3
<1>9. ASSUME NEW q \in Projects, Crash \/ UNCHANGED vars \/ \E e \in Events : Enqueue(e)
      PROVE Handed(q)'
  BY <1>1, <1>2, <1>9 DEF Crash, vars, Enqueue, task
<1>10. ASSUME NEW q \in Projects PROVE Handed(q)'
  BY <1>3, <1>4, <1>5, <1>6, <1>7, <1>8, <1>9
     DEF Next, Consume, Attend, Succeed, Ack, RedisFails
<1>11. QED
  BY <1>10 DEF SafeElsewhere

(* No accepted event is lost, through any faults, as long as request ids   *)
(* are distinct, before StreamCap younger entries are in its stream.       *)
THEOREM AccountedHolds == ASSUME DistinctIds PROVE Spec => []Accounted
<1>1. Init => AInv
  <2>1. Init => HeldPending /\ SafeElsewhere /\ TrimmedFar
    BY DEF Init, HeldPending, SafeElsewhere, Handed, TrimmedFar
  <2>2. Init => OwnEvents /\ AllSafe
    BY EventsAssumption DEF Init, OwnEvents, AllSafe, Sent
  <2>3. QED
    BY <2>1, <2>2, TypeInit DEF AInv
<1>2. AInv /\ [Next]_vars => AInv'
  BY TInvStep, HeldStep, ElsewhereStep, OwnStep, TrimmedStep, AllSafeStep DEF AInv
<1>3. AInv => Accounted
  <2> SUFFICES ASSUME AInv, NEW e \in Events, Sent(e), ~Buried(e), ~Recorded(IdOf[e])
               PROVE  LET p == ProjectOf[e] IN \E k \in DOMAIN stream[p] :
                        /\ stream[p][k].event = e
                        /\ Youngest(p, k)
                        /\ Open(p, k) \/ k + StreamCap <= Len(stream[p])
    BY DEF Accounted
  <2>0. PICK p \in Projects : p = ProjectOf[e]
    BY EventsAssumption
  <2>1. PICK k \in Nat : KeptAt(e, k)
    BY DEF AInv, AllSafe, Safe
  <2>2. trimmed[p] \in Nat /\ (trimmed[p] = 0 \/ trimmed[p] + StreamCap <= Len(stream[p]))
    BY DEF AInv, TrimmedFar, TInv, TypeOK
  <2>3. /\ k \in DOMAIN stream[p] /\ stream[p][k].event = e /\ Youngest(p, k)
        /\ k <= trimmed[p] \/ read[p] < k \/ k \in pending[p]
    BY <2>0, <2>1 DEF KeptAt
  <2>4. k \in 1 .. Len(stream[p]) /\ Len(stream[p]) \in Nat
    BY <2>3, LenProperties DEF AInv, TInv, TypeOK
  <2>5. Open(p, k) \/ k + StreamCap <= Len(stream[p])
    BY <2>2, <2>3, <2>4, BoundsAssumption DEF Open
  <2>6. QED
    BY <2>0, <2>3, <2>5
<1>4. QED
  BY <1>1, <1>2, <1>3, PTL DEF Spec
-----------------------------------------------------------------------------
(* Every post the recorder works on is awaited by its task.                *)
PostsAwaited == \A m \in inflight : ProjectOf[m.event] \notin Slow =>
  phase[ProjectOf[m.event]] = "forwarding" /\ Held(ProjectOf[m.event]) = m

LEMMA AwaitedStep ==
  ASSUME "crash" \notin Faults, TInv, OwnEvents, PostsAwaited, [Next]_vars
  PROVE  PostsAwaited'
<1>1. \A m \in inflight : ProjectOf[m.event] \in Projects
  BY EventsAssumption DEF Message, TInv, TypeOK
<1>2. \A q \in Projects : phase[q] = "forwarding" /\ msg'[q] = msg[q] => Held(q)' = Held(q)
  BY HeldStays
<1>3. ASSUME NEW p \in Projects, Post(p) PROVE PostsAwaited'
  <2>1. ProjectOf[Held(p).event] = p /\ Held(p)' = Held(p)
    BY <1>3, HeldTyped, HeldStays DEF Post, OwnEvents, Held
  <2>2. \A m \in inflight : ProjectOf[m.event] = p => p \in Slow
    BY <1>3 DEF Post, PostsAwaited
  <2>3. QED
    BY <1>1, <1>2, <1>3, <2>1, <2>2 DEF Post, PostsAwaited, TInv, TypeOK
<1>4. ASSUME NEW m \in inflight, NEW code \in Statuses, Answer(m, code) PROVE PostsAwaited'
  BY <1>1, <1>2, <1>4 DEF Answer, task, PostsAwaited, TInv, TypeOK
<1>5. ASSUME NEW m \in inflight, Record(m) \/ Refuse(m) PROVE PostsAwaited'
  BY <1>4, <1>5 DEF Record, Refuse, Statuses
<1>6. ASSUME NEW p \in Projects, phase[p] # "forwarding" \/ p \in Slow, UNCHANGED inflight,
             \A q \in Projects \ {p} : phase'[q] = phase[q] /\ msg'[q] = msg[q]
      PROVE PostsAwaited'
  BY <1>1, <1>2, <1>6 DEF PostsAwaited
<1>7. ASSUME NEW p \in Projects, Dequeue(p) PROVE PostsAwaited'
  <2>1. PICK k \in DOMAIN stream[p] : Deliver(p, k)
    BY <1>7 DEF Dequeue
  <2>2. QED
    BY <1>6, <2>1 DEF Deliver, task, TInv, TypeOK
<1>8. ASSUME NEW p \in Projects, Requeue(p) \/ DeadLetter(p) PROVE PostsAwaited'
  BY <1>6, <1>8 DEF Requeue, DeadLetter, TInv, TypeOK
<1>9. ASSUME NEW p \in Projects, Succeed(p) \/ Ack(p) \/ RedisFails(p) PROVE PostsAwaited'
  BY <1>6, <1>9 DEF Succeed, Ack, RedisFails, Idle, TInv, TypeOK
<1>10. ASSUME NEW p \in Projects, Timeout(p) PROVE PostsAwaited'
  BY <1>6, <1>10 DEF Timeout, TInv, TypeOK
<1>11. CASE UNCHANGED vars \/ \E e \in Events : Enqueue(e)
  BY <1>1, <1>2, <1>11 DEF vars, Enqueue, task, PostsAwaited
<1>12. QED
  BY <1>3, <1>5, <1>7, <1>8, <1>9, <1>10, <1>11 DEF Next, Consume, Attend, Crash

(* While nobody dies the recorder works on one post of a project whose     *)
(* posts do not time out.                                                  *)
THEOREM OneAtATimeHolds == ASSUME "crash" \notin Faults
                           PROVE  Spec => []OneAtATime
<1> DEFINE OInv == TInv /\ OwnEvents /\ PostsAwaited
<1>1. Init => OInv
  BY TypeInit DEF Init, OwnEvents, PostsAwaited
<1>2. OInv /\ [Next]_vars => OInv'
  BY TInvStep, OwnStep, AwaitedStep
<1>3. OInv => OneAtATime
  BY DEF PostsAwaited, OneAtATime
<1>4. QED
  BY <1>1, <1>2, <1>3, PTL DEF Spec

LEMMA CurrentStep ==
  ASSUME Faults \cap {"crash", "redis"} = {}, Malformed = {}, TInv, PendingIsCurrent,
         [Next]_vars
  PROVE  PendingIsCurrent'
<1> USE DEF TInv, TypeOK
<1>1. ASSUME NEW p \in Projects, Dequeue(p) PROVE PendingIsCurrent'
  <2>1. PICK k \in DOMAIN stream[p] : Deliver(p, k)
    BY <1>1 DEF Dequeue
  <2>2. pending[p] = {}
    <3>1. msg[p] = 0 /\ pending[p] \subseteq {0} /\ pending[p] \subseteq 1 .. read[p]
          /\ read[p] \in Nat
      BY <2>1 DEF Deliver, PendingIsCurrent
    <3>2. 0 \notin 1 .. read[p]
      BY <3>1
    <3>3. QED
      BY <3>1, <3>2
  <2>3. pending'[p] = {k} /\ msg'[p] = k
    BY <2>1, <2>2 DEF Deliver
  <2>4. \A q \in Projects \ {p} : pending'[q] = pending[q] /\ msg'[q] = msg[q]
    BY <2>1 DEF Deliver, task
  <2>5. QED
    BY <2>3, <2>4 DEF PendingIsCurrent
<1>2. ASSUME NEW p \in Projects, Succeed(p) \/ Ack(p) PROVE PendingIsCurrent'
  <2>1. pending'[p] = pending[p] \ {msg[p]} /\ pending[p] \subseteq {msg[p]}
    BY <1>2 DEF Succeed, Ack, Acknowledge, PendingIsCurrent
  <2>2. pending'[p] = {}
    BY <2>1
  <2>3. \A q \in Projects \ {p} : pending'[q] = pending[q] /\ msg'[q] = msg[q]
    BY <1>2 DEF Succeed, Ack, Acknowledge, Idle
  <2>4. QED
    BY <2>2, <2>3 DEF PendingIsCurrent
<1>3. CASE UNCHANGED <<pending, msg>>
  BY <1>3 DEF PendingIsCurrent
<1>4. QED
  BY <1>1, <1>2, <1>3 DEF Next, Consume, Attend, vars, group, task, Enqueue, Post, Requeue,
     DeadLetter, Record, Refuse, Answer, Timeout, RedisFails, Crash

(* While worker and Redis run, nothing delivered is forgotten.             *)
THEOREM PendingIsCurrentHolds ==
  ASSUME Faults \cap {"crash", "redis"} = {}, Malformed = {}
  PROVE  Spec => []PendingIsCurrent
<1>1. Init => PendingIsCurrent
  BY DEF Init, PendingIsCurrent
<1>2. TInv /\ PendingIsCurrent /\ [Next]_vars => TInv' /\ PendingIsCurrent'
  BY TInvStep, CurrentStep
<1>3. QED
  BY <1>1, <1>2, TypeInit, PTL DEF Spec

-----------------------------------------------------------------------------
(* A project's chain goes along its stream: each record has an entry, in   *)
(* the same order, and what its task has still to post comes after them.   *)
Along(p, m, n) == \E k, l \in DOMAIN stream[p] :
  k < l /\ stream[p][k] = m /\ stream[p][l] = n

Passed(p, m) == \E k \in DOMAIN stream[p] :
  /\ stream[p][k] = m
  /\ k <= read[p]
  /\ phase[p] \in {"delivered", "forwarding"} => k < read[p]

InLine(p) ==
  /\ \A i, j \in DOMAIN chain[p] : i < j => Along(p, chain[p][i], chain[p][j])
  /\ \A i \in DOMAIN chain[p] : Passed(p, chain[p][i])

FirstInLine == \A p \in Projects \ Slow : InLine(p)

(* A step that delivers nothing changes no message's place in the line.    *)
LEMMA LineStays ==
  ASSUME TInv, [Next]_vars, NEW p \in Projects, InLine(p), chain'[p] = chain[p],
         \/ /\ read'[p] = read[p]
            /\ phase'[p] \in {"delivered", "forwarding"}
                 => phase[p] \in {"delivered", "forwarding"}
         \/ read[p] < read'[p]
  PROVE  InLine(p)'
<1>1. ASSUME NEW m, NEW n, Along(p, m, n) PROVE Along(p, m, n)'
  BY <1>1, EntriesStay DEF Along
<1>2. ASSUME NEW m, Passed(p, m) PROVE Passed(p, m)'
  <2>1. PICK k \in DOMAIN stream[p] :
          /\ stream[p][k] = m
          /\ k <= read[p]
          /\ phase[p] \in {"delivered", "forwarding"} => k < read[p]
    BY <1>2 DEF Passed
  <2>2. k \in DOMAIN stream'[p] /\ stream'[p][k] = m
    BY <2>1, EntriesStay
  <2>3. k \in Nat /\ read[p] \in Nat /\ read'[p] \in Nat
    <3>1. stream[p] \in Seq(Message) /\ read[p] \in Nat
      BY DEF TInv, TypeOK
    <3>2. TInv'
      BY TInvStep
    <3>3. read'[p] \in Nat
      BY <3>2 DEF TInv, TypeOK
    <3>4. QED
      BY <2>1, <3>1, <3>3, LenProperties
  <2>4. k <= read'[p] /\ (phase'[p] \in {"delivered", "forwarding"} => k < read'[p])
    BY <2>1, <2>3
  <2>5. QED
    BY <2>2, <2>4 DEF Passed
<1>3. QED
  BY <1>1, <1>2 DEF InLine

LEMMA LineDequeue ==
  ASSUME TInv, FirstInLine, NEW r \in Projects, Dequeue(r), NEW p \in Projects \ Slow
  PROVE  InLine(p)'
<1>1. PICK k \in DOMAIN stream[r] : Unread(r, k) /\ Deliver(r, k)
  BY DEF Dequeue
<1>2. [Next]_vars /\ InLine(p) /\ chain'[p] = chain[p]
  BY <1>1 DEF Next, Consume, Deliver, FirstInLine
<1>3. CASE p = r
  <2>1. read[p] < read'[p]
    BY <1>1, <1>3, UnreadTyped DEF Deliver, TInv, TypeOK
  <2>2. QED
    BY <1>2, <2>1, LineStays
<1>4. CASE p # r
  <2>1. read'[p] = read[p] /\ phase'[p] = phase[p]
    BY <1>1, <1>4 DEF Deliver, task, TInv, TypeOK
  <2>2. QED
    BY <1>2, <2>1, LineStays
<1>5. QED
  BY <1>3, <1>4

(* A post of a project whose posts are awaited is the task's message.      *)
LEMMA LineRecord ==
  ASSUME TInv, PostsAwaited, FirstInLine, NEW m \in inflight, Record(m),
         NEW p \in Projects \ Slow
  PROVE  InLine(p)'
<1>0. [Next]_vars /\ InLine(p) /\ ProjectOf[m.event] \in Projects
  BY EventsAssumption DEF Next, Attend, FirstInLine, TInv, TypeOK, Message
<1>1. PICK code : Answer(m, code)
  BY DEF Record
<1>2. UNCHANGED <<stream, read>>
  BY <1>1 DEF Answer, log, group
<1>3. CASE p = ProjectOf[m.event]
  <2>1. phase[p] = "forwarding" /\ Held(p) = m
    BY <1>3 DEF PostsAwaited
  <2>2. /\ msg[p] = read[p] /\ read[p] \in DOMAIN stream[p] /\ stream[p][read[p]] = m
        /\ read[p] \in Nat
    BY <2>1, HeldTyped DEF Held, TInv, TypeOK
  <2>3. phase'[p] = "answered"
    BY <1>1, <1>3, <2>1 DEF Answer, TInv, TypeOK
  <2>4. chain[p] \in Seq(Message) /\ m \in Message /\ chain'[p] = Append(chain[p], m)
    BY <1>3 DEF Record, TInv, TypeOK
  <2>5. PICK c, n : c = chain'[p] /\ n = Len(chain[p])
    OBVIOUS
  <2>6. /\ n \in Nat /\ DOMAIN c = 1 .. n + 1 /\ DOMAIN chain[p] = 1 .. n /\ c[n + 1] = m
        /\ \A i \in DOMAIN chain[p] : c[i] = chain[p][i]
    BY <2>4, <2>5, AppendTyped
  <2>7. ASSUME NEW i \in DOMAIN chain[p], NEW x, x = chain[p][i]
        PROVE  Along(p, x, m) /\ Passed(p, x)'
    <3>1. PICK k \in DOMAIN stream[p] : stream[p][k] = x /\ k < read[p]
      BY <1>0, <2>1, <2>7 DEF InLine, Passed
    <3>2. k \in Nat
      BY <3>1, LenProperties DEF TInv, TypeOK
    <3>3. QED
      BY <1>2, <2>2, <2>3, <3>1, <3>2 DEF Along, Passed
  <2>8. Passed(p, m)'
    BY <1>2, <2>2, <2>3 DEF Passed
  <2>9. \A i, j \in DOMAIN c : i < j => Along(p, c[i], c[j])
    BY <1>0, <2>6, <2>7 DEF InLine
  <2>10. \A i \in DOMAIN c : Passed(p, c[i])'
    BY <2>6, <2>7, <2>8
  <2>11. QED
    BY <1>2, <2>5, <2>9, <2>10 DEF InLine, Along
<1>4. CASE p # ProjectOf[m.event]
  <2>1. chain'[p] = chain[p] /\ phase'[p] = phase[p]
    BY <1>0, <1>1, <1>4 DEF Record, Answer, task, TInv, TypeOK
  <2>2. QED
    BY <1>0, <1>2, <2>1, LineStays
<1>5. QED
  BY <1>3, <1>4

LEMMA InLineStep ==
  ASSUME "crash" \notin Faults, TInv, PostsAwaited, FirstInLine, [Next]_vars
  PROVE  FirstInLine'
<1> SUFFICES ASSUME NEW p \in Projects \ Slow PROVE InLine(p)'
  BY DEF FirstInLine
<1>0. InLine(p) /\ phase \in [Projects -> Phases]
  BY DEF FirstInLine, TInv, TypeOK
<1>1. ASSUME UNCHANGED <<chain, read>>,
             phase'[p] \in {"delivered", "forwarding"} => phase[p] \in {"delivered", "forwarding"}
      PROVE  InLine(p)'
  BY <1>0, <1>1, LineStays
<1>2. ASSUME NEW r \in Projects,
             Post(r) \/ Succeed(r) \/ Ack(r) \/ RedisFails(r) \/ Requeue(r) \/ DeadLetter(r)
               \/ Timeout(r)
      PROVE  InLine(p)'
  BY <1>0, <1>1, <1>2 DEF Post, Succeed, Ack, RedisFails, Idle, Requeue, DeadLetter, Timeout, group
<1>3. ASSUME NEW m \in inflight, Refuse(m) PROVE InLine(p)'
  <2>1. PICK code : Answer(m, code)
    BY <1>3 DEF Refuse
  <2>2. phase'[p] \in {"delivered", "forwarding"} => phase[p] \in {"delivered", "forwarding"}
    BY <1>0, <2>1 DEF Answer, task
  <2>3. QED
    BY <1>1, <1>3, <2>1, <2>2 DEF Refuse, Answer, group
<1>4. CASE UNCHANGED vars \/ \E e \in Events : Enqueue(e)
  BY <1>1, <1>4 DEF vars, Enqueue, task, group
<1>5. QED
  BY <1>2, <1>3, <1>4, LineDequeue, LineRecord DEF Next, Consume, Attend, Crash

(* While nobody dies, first attempts of a project whose posts do not time   *)
(* out are recorded in the order in which they were sent, whatever the      *)
(* recorder refuses, fails or is sent again, and whatever XADD trims.       *)
THEOREM FirstAttemptsInOrderHolds == ASSUME "crash" \notin Faults
                                     PROVE  Spec => []FirstAttemptsInOrder
<1> DEFINE FInv == TInv /\ OwnEvents /\ PostsAwaited /\ FirstInLine
<1>1. Init => FInv
  BY TypeInit DEF Init, OwnEvents, PostsAwaited, FirstInLine, InLine
<1>2. FInv /\ [Next]_vars => FInv'
  BY TInvStep, OwnStep, AwaitedStep, InLineStep
<1>3. FInv => FirstAttemptsInOrder
  <2> SUFFICES ASSUME FInv, NEW p \in Projects \ Slow,
                      NEW i \in DOMAIN chain[p], NEW j \in DOMAIN chain[p], i < j,
                      chain[p][i].tries = 0, chain[p][j].tries = 0
               PROVE  SentBefore(p, chain[p][i].event, chain[p][j].event)
    BY DEF FirstAttemptsInOrder
  <2>1. Along(p, chain[p][i], chain[p][j])
    BY DEF FirstInLine, InLine
  <2>2. chain[p][i] \in Message /\ chain[p][j] \in Message
    <3>1. chain[p] \in Seq(Message)
      BY DEF TInv, TypeOK
    <3>2. QED
      BY <3>1, ElementOfSeq, LenProperties
  <2>3. /\ chain[p][i] = [event |-> chain[p][i].event, tries |-> 0]
        /\ chain[p][j] = [event |-> chain[p][j].event, tries |-> 0]
    BY <2>2 DEF Message
  <2>4. QED
    BY <2>1, <2>3 DEF Along, SentBefore
<1>4. QED
  BY <1>1, <1>2, <1>3, PTL DEF Spec

=============================================================================
