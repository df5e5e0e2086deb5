--------------------------- MODULE IngestionQueue ---------------------------
(***************************************************************************)
(* The asynchronous path of a decision: the gateway appends an event to    *)
(* the Redis stream of its project, the queue worker's task for that       *)
(* project reads it through a consumer group, posts it to the recorder and *)
(* acknowledges it, re-enqueues it or puts it in the dead-letter hash.     *)
(*                                                                         *)
(* One worker process, one task per project (worker.py).  The recorder is  *)
(* seen from outside: it accepts a decision id once and may go on with a   *)
(* request whose sender stopped waiting.  Module RecorderChain opens it.   *)
(*                                                                         *)
(* A message is an event with its retry_count; each event is submitted     *)
(* once.  A client's own retry is another event with the same request id.  *)
(*                                                                         *)
(* stream[p] is everything ever added to the stream of project p, and an   *)
(* entry's id is its place there.  Nobody deletes an entry, so what Redis  *)
(* still holds of it are the entries that XADD's maxlen has not trimmed:   *)
(* read and unread, pending and acknowledged alike.                        *)
(***************************************************************************)
EXTENDS Naturals, Sequences, SequencesExt

CONSTANTS
  Projects, Events,
  ProjectOf,    (* ProjectOf[e]: the project of event e                  *)
  Ids, IdOf,    (* IdOf[e]: its request id, which is its decision id     *)
  Malformed,    (* events whose request id is not a UUID                 *)
  Refused,      (* events the recorder refuses on every attempt          *)
  Numbered,     (* events with a sequence number, which the recorder     *)
                (* refuses unless they follow the last record it reads   *)
  MaxRetries,   (* settings.max_retries                                  *)
  StreamCap,    (* the maxlen of XADD                                    *)
  Faults,       (* the faults that occur: "crash", "redis", "error"      *)
  Slow,         (* projects whose posts may take longer than the timeout *)
  Served,       (* projects whose tasks are scheduled fairly             *)
  NoEntry

Message == [event : Events, tries : 0 .. MaxRetries]
Statuses == {"2xx", "4xx", "409", "5xx", "exception"}

ASSUME EventsAssumption ==
  /\ ProjectOf \in [Events -> Projects]
  /\ IdOf \in [Events -> Ids]
  /\ Malformed \subseteq Events
  /\ Refused \subseteq Events /\ Numbered \subseteq Events
ASSUME BoundsAssumption == MaxRetries \in Nat /\ StreamCap \in Nat \ {0}
ASSUME FaultsAssumption == Faults \subseteq {"crash", "redis", "error"} /\ Slow \subseteq Projects
ASSUME ServedAssumption == Served \subseteq Projects
ASSUME NullAssumption == NoEntry \notin [event : Events, code : Statuses]

VARIABLES
  stream,    (* stream[p]: the messages added to p's stream, oldest first *)
  trimmed,   (* trimmed[p]: how many of the oldest XADD has removed      *)
  read,      (* read[p]: the id the consumer group was last given        *)
  pending,   (* pending[p]: ids given and not acknowledged (the PEL)     *)
  phase,     (* phase[p]: where the task of project p is                 *)
  msg,       (* msg[p]: the id of the message it holds, 0 for none       *)
  status,    (* status[p]: how the recorder answered it                  *)
  inflight,  (* posts the recorder has received and not finished         *)
  chain,     (* chain[p]: messages of project p, in the order recorded   *)
  dlq        (* dlq[i]: the dead-letter entry of request id i            *)

log == <<stream, trimmed>>
group == <<read, pending>>
task == <<phase, msg, status>>
vars == <<log, group, task, inflight, chain, dlq>>

Phases == {"idle", "delivered", "forwarding", "answered", "acking"}

-----------------------------------------------------------------------------
(* As in the other modules, operators ending in _Fault are mutations of    *)
(* the definition below them, which no definition uses.                    *)

Recorded(i) == \E p \in Projects : \E k \in DOMAIN chain[p] :
  IdOf[chain[p][k].event] = i

(* The events that a 202 was answered for. *)
Sent(e) == \E k \in DOMAIN stream[ProjectOf[e]] : stream[ProjectOf[e]][k].event = e

(* The message a busy task has in memory, whatever became of the entry. *)
Held(p) == stream[p][msg[p]]

(* XADD with an approximate maxlen may remove any number of the oldest     *)
(* entries that leaves the newest StreamCap, or none.                      *)
Add(p, m) ==
  LET n == Len(stream[p]) + 1 IN
  /\ stream' = [stream EXCEPT ![p] = Append(@, m)]
  /\ \E k \in trimmed[p] .. n :
       /\ k = trimmed[p] \/ k + StreamCap <= n
       /\ trimmed' = [trimmed EXCEPT ![p] = k]

(* The limit comes first: at the limit even a 2xx is dead-lettered. *)
ShouldRetry(code, tries) ==
  CASE tries >= MaxRetries -> "dead_letter"
    [] code \in {"exception", "5xx"} /\ tries < MaxRetries -> "retry"
    [] code \in {"409", "4xx"} /\ tries < MaxRetries -> "dead_letter"
    [] code = "2xx" /\ tries < MaxRetries -> "success"

Idle(p) ==
  /\ phase' = [phase EXCEPT ![p] = "idle"]
  /\ msg' = [msg EXCEPT ![p] = 0]
  /\ status' = [status EXCEPT ![p] = "none"]

Acknowledge(p) == pending' = [pending EXCEPT ![p] = @ \ {msg[p]}]

-----------------------------------------------------------------------------
Init ==
  /\ stream = [p \in Projects |-> <<>>]
  /\ trimmed = [p \in Projects |-> 0]
  /\ read = [p \in Projects |-> 0]
  /\ pending = [p \in Projects |-> {}]
  /\ phase = [p \in Projects |-> "idle"]
  /\ msg = [p \in Projects |-> 0]
  /\ status = [p \in Projects |-> "none"]
  /\ inflight = {}
  /\ chain = [p \in Projects |-> <<>>]
  /\ dlq = [i \in Ids |-> NoEntry]

(* The gateway: XADD, then 202 "accepted" to the client. *)
Enqueue(e) ==
  /\ ~Sent(e)
  /\ Add(ProjectOf[e], [event |-> e, tries |-> 0])
  /\ UNCHANGED <<group, task, inflight, chain, dlq>>

(* The oldest entry that is still there and was not read. *)
Unread(p, k) ==
  /\ k \in DOMAIN stream[p]
  /\ k = 1 + IF read[p] > trimmed[p] THEN read[p] ELSE trimmed[p]

Deliver(p, k) ==
  /\ phase[p] = "idle"
  /\ read' = [read EXCEPT ![p] = k]
  /\ pending' = [pending EXCEPT ![p] = @ \cup {k}]
  /\ \/ stream[p][k].event \in Malformed /\ UNCHANGED task
     \/ /\ stream[p][k].event \notin Malformed
        /\ phase' = [phase EXCEPT ![p] = "delivered"]
        /\ msg' = [msg EXCEPT ![p] = k]
        /\ UNCHANGED status
  /\ UNCHANGED <<log, inflight, chain, dlq>>

(* One lock for all projects. *)
Dequeue_OneTaskFault(p) ==
  /\ \A q \in Projects : phase[q] = "idle"
  /\ \E k \in DOMAIN stream[p] : Unread(p, k) /\ Deliver(p, k)

(* XREADGROUP ">" delivers the oldest entry that the group was never       *)
(* given, and passes over what was trimmed.  A request id that is no UUID  *)
(* raises in from_dict, after the delivery: the loop goes on and the entry *)
(* stays pending.                                                          *)
Dequeue(p) == \E k \in DOMAIN stream[p] : Unread(p, k) /\ Deliver(p, k)

(* The task may take the next message while it waits for this answer. *)
Post_NoLockFault(p) ==
  /\ phase[p] = "delivered"
  /\ phase' = [phase EXCEPT ![p] = "idle"]
  /\ inflight' = inflight \cup {Held(p)}
  /\ msg' = [msg EXCEPT ![p] = 0]
  /\ UNCHANGED <<log, group, status, chain, dlq>>

(* Under the project lock, POST /v1/decisions reaches the recorder. *)
Post(p) ==
  /\ phase[p] = "delivered"
  /\ phase' = [phase EXCEPT ![p] = "forwarding"]
  /\ inflight' = inflight \cup {Held(p)}
  /\ UNCHANGED <<log, group, msg, status, chain, dlq>>

(* The recorder answers m; the task hears it if it still waits for m. *)
Answer(m, code) ==
  LET p == ProjectOf[m.event] IN
  /\ inflight' = inflight \ {m}
  /\ IF phase[p] = "forwarding" /\ Held(p) = m
     THEN /\ phase' = [phase EXCEPT ![p] = "answered"]
          /\ status' = [status EXCEPT ![p] = code]
          /\ UNCHANGED msg
     ELSE UNCHANGED task
  /\ UNCHANGED <<log, group, dlq>>

(* It records a new decision once and says 201 (202 for one that a policy  *)
(* holds for review), or 500 when it fails after the commit.               *)
Record(m) ==
  LET e == m.event IN
  /\ m \in inflight
  /\ e \notin Refused
  /\ ~Recorded(IdOf[e])
  /\ chain' = [chain EXCEPT ![ProjectOf[e]] = Append(@, m)]
  /\ \/ Answer(m, "2xx")
     \/ "error" \in Faults /\ Answer(m, "5xx")

(* It refuses what is invalid and what it has: 409, or 500 when a rival    *)
(* post of the same decision took the key after the check.  Whether a      *)
(* numbered event follows depends on the last record at the time of the    *)
(* read, which may be old by now: left open.                               *)
Refuse(m) ==
  LET e == m.event IN
  /\ m \in inflight
  /\ \/ e \in Refused /\ \E code \in {"4xx", "409"} : Answer(m, code)
     \/ e \in Numbered /\ Answer(m, "409")
     \/ /\ e \notin Refused
        /\ Recorded(IdOf[e])
        /\ \E code \in {"409", "5xx"} : Answer(m, code)
     \/ "error" \in Faults /\ Answer(m, "5xx")
  /\ UNCHANGED chain

(* forward_timeout_seconds pass; the recorder does not notice. *)
Timeout(p) ==
  /\ p \in Slow
  /\ phase[p] = "forwarding"
  /\ phase' = [phase EXCEPT ![p] = "answered"]
  /\ status' = [status EXCEPT ![p] = "exception"]
  /\ UNCHANGED <<log, group, msg, inflight, chain, dlq>>

Decision(p) == ShouldRetry(status[p], Held(p).tries)

Succeed(p) ==
  /\ phase[p] = "answered"
  /\ Decision(p) = "success"
  /\ Acknowledge(p)
  /\ Idle(p)
  /\ UNCHANGED <<log, read, inflight, chain, dlq>>

Requeue_AckFirstFault(p) ==
  /\ phase[p] = "answered"
  /\ Decision(p) = "retry"
  /\ Acknowledge(p)
  /\ phase' = [phase EXCEPT ![p] = "acking"]
  /\ UNCHANGED <<log, read, msg, status, inflight, chain, dlq>>

(* The re-enqueued copy taken for the whole work: the delivered one stays. *)
Requeue_NoAckFault(p) ==
  /\ phase[p] = "answered"
  /\ Decision(p) = "retry"
  /\ Add(p, [Held(p) EXCEPT !.tries = @ + 1])
  /\ Idle(p)
  /\ UNCHANGED <<group, inflight, chain, dlq>>

(* After the backoff the event goes to the END of the stream, out of the   *)
(* task's memory: the entry it came from may be trimmed by now.            *)
Requeue(p) ==
  /\ phase[p] = "answered"
  /\ Decision(p) = "retry"
  /\ Add(p, [Held(p) EXCEPT !.tries = @ + 1])
  /\ phase' = [phase EXCEPT ![p] = "acking"]
  /\ UNCHANGED <<group, msg, status, inflight, chain, dlq>>

(* HSET under the request id: an earlier entry of that id is overwritten. *)
DeadLetter(p) ==
  /\ phase[p] = "answered"
  /\ Decision(p) = "dead_letter"
  /\ dlq' = [dlq EXCEPT ![IdOf[Held(p).event]] =
               [event |-> Held(p).event, code |-> status[p]]]
  /\ phase' = [phase EXCEPT ![p] = "acking"]
  /\ UNCHANGED <<log, group, msg, status, inflight, chain>>

Ack(p) ==
  /\ phase[p] = "acking"
  /\ Acknowledge(p)
  /\ Idle(p)
  /\ UNCHANGED <<log, read, inflight, chain, dlq>>

(* A Redis call of the task raises: the loop logs it and reads on.  A call *)
(* that took effect and raised is its action followed by this one.         *)
RedisFails(p) ==
  /\ "redis" \in Faults
  /\ phase[p] \in {"answered", "acking"}
  /\ Idle(p)
  /\ UNCHANGED <<log, group, inflight, chain, dlq>>

(* The worker dies and is restarted: every task starts over.  The group    *)
(* keeps the pending lists and nobody reads them again.                    *)
Crash ==
  /\ "crash" \in Faults
  /\ \E p \in Projects : phase[p] # "idle"
  /\ phase' = [p \in Projects |-> "idle"]
  /\ msg' = [p \in Projects |-> 0]
  /\ status' = [p \in Projects |-> "none"]
  /\ UNCHANGED <<log, group, inflight, chain, dlq>>

-----------------------------------------------------------------------------
Consume(p) ==
  Dequeue(p) \/ Post(p) \/ Succeed(p) \/ Requeue(p) \/ DeadLetter(p) \/ Ack(p)

(* A post is answered, or its sender's clock runs out. *)
Attend(p) ==
  \/ \E m \in inflight : ProjectOf[m.event] = p /\ (Record(m) \/ Refuse(m))
  \/ Timeout(p)

Next ==
  \/ \E e \in Events : Enqueue(e)
  \/ \E p \in Projects : Consume(p) \/ Attend(p) \/ RedisFails(p)
  \/ Crash

Spec == Init /\ [][Next]_vars

(* Only the tasks of Served, and the recorder's work for them, are         *)
(* promised to run: what the others do must not matter.                    *)
FairSpec == Spec /\ \A p \in Served : WF_vars(Consume(p)) /\ WF_vars(Attend(p))

-----------------------------------------------------------------------------
(* Type invariant of the streams, the tasks, the recorder and the DLQ. *)
TypeOK ==
  /\ stream \in [Projects -> Seq(Message)]
  /\ trimmed \in [Projects -> Nat]
  /\ read \in [Projects -> Nat]
  /\ pending \in [Projects -> SUBSET Nat]
  /\ phase \in [Projects -> Phases]
  /\ msg \in [Projects -> Nat]
  /\ status \in [Projects -> Statuses \cup {"none"}]
  /\ inflight \subseteq Message
  /\ chain \in [Projects -> Seq(Message)]
  /\ dlq \in [Ids -> [event : Events, code : Statuses] \cup {NoEntry}]
  /\ \A p \in Projects :
       /\ trimmed[p] <= Len(stream[p]) /\ read[p] <= Len(stream[p])
       /\ pending[p] \subseteq 1 .. read[p]
       /\ phase[p] = "idle" <=> msg[p] = 0
       /\ phase[p] # "idle" => msg[p] = read[p]

Buried(e) == dlq[IdOf[e]] # NoEntry /\ dlq[IdOf[e]].event = e

(* The last entry that was added for its event. *)
Youngest(p, k) == \A j \in DOMAIN stream[p] :
  j > k => stream[p][j].event # stream[p][k].event

(* Redis has the entry, and the group was not given it or did not          *)
(* acknowledge it.                                                         *)
Open(p, k) == trimmed[p] < k /\ (read[p] < k \/ k \in pending[p])

(* "Never silently drop data": an event the gateway accepted is in the     *)
(* chain, in the dead-letter queue, or in its stream, unread or            *)
(* unacknowledged -- through crashes, Redis errors, timeouts and retries.  *)
(* It takes distinct request ids; and what its stream takes in goes on     *)
(* without it: StreamCap entries after its last one it may be gone, read   *)
(* or not.                                                                 *)
Accounted == \A e \in Events : Sent(e) =>
  \/ Buried(e)
  \/ Recorded(IdOf[e])
  \/ LET p == ProjectOf[e] IN \E k \in DOMAIN stream[p] :
       /\ stream[p][k].event = e
       /\ Youngest(p, k)
       /\ Open(p, k) \/ k + StreamCap <= Len(stream[p])

(* The condition of Accounted: one request id per event. *)
DistinctIds == \A e, f \in Events : IdOf[e] = IdOf[f] => e = f

SentBefore(p, e, f) == \E k, l \in DOMAIN stream[p] :
  /\ k < l
  /\ stream[p][k] = [event |-> e, tries |-> 0]
  /\ stream[p][l] = [event |-> f, tries |-> 0]

(* "No reordering within a project" (ordering.py) is not true of retries,   *)
(* which go behind their successors.  What is left of it while nobody       *)
(* crashes, for a project whose posts do not time out: events recorded on   *)
(* their first attempts are in the order they were sent; recorder errors    *)
(* and refusals move only what they hit.                                    *)
FirstAttemptsInOrder == \A p \in Projects \ Slow : \A i, j \in DOMAIN chain[p] :
  LET m == chain[p][i]  n == chain[p][j]
  IN  i < j /\ m.tries = 0 /\ n.tries = 0 => SentBefore(p, m.event, n.event)

(* "Only one event per project processes at a time", where no post times   *)
(* out and nobody crashes.                                                 *)
OneAtATime == \A m, n \in inflight :
  ProjectOf[m.event] = ProjectOf[n.event] /\ ProjectOf[m.event] \notin Slow => m = n

(* The pending list of a project is what its task is working on: nothing   *)
(* delivered is forgotten as long as worker and Redis run.                 *)
PendingIsCurrent == \A p \in Projects : pending[p] \subseteq {msg[p]}

(* At-least-once delivery: an accepted event of a served project is        *)
(* recorded or dead-lettered in the end, whatever other projects' tasks do. *)
Settled == \A e \in Events : ProjectOf[e] \in Served =>
  (Sent(e) ~> (Buried(e) \/ Recorded(IdOf[e])))
=============================================================================
