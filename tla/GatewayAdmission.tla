--------------------------- MODULE GatewayAdmission ---------------------------
(***************************************************************************)
(* What a decision passes before the gateway forwards it: the control      *)
(* plane's answer about the key, the token bucket and the monthly counter. *)
(*                                                                         *)
(* Bucket and counters are in Redis and shared by all gateway processes;   *)
(* a request is several awaited calls, between which others run, the       *)
(* organisation's plan changes and time passes.  A process reads its own   *)
(* clock: a reading is up to Behind before and Ahead after the moment at   *)
(* which Redis executes the call, for the clocks differ and the call takes *)
(* its time.  Redis expires keys by its own clock, which is "time".        *)
(*                                                                         *)
(* A token is measured by the time it takes to refill, so that the refill  *)
(* rate is one.  There is one bucket: the gateway asks for one per key,    *)
(* but the control plane's answer has no key_id and every key gets the     *)
(* default.  One organisation with its projects.                           *)
(***************************************************************************)
EXTENDS Integers, FiniteSets

CONSTANTS
  Projects, Requests,
  Free, Pro,     (* the monthly limits without and with a subscription     *)
  Caps, NoCap,   (* the limits a superadmin may set instead                *)
  Capacity,      (* requests_per_minute + burst_limit, as refill time      *)
  Cost,          (* one request, as refill time                            *)
  Idle,          (* the 60 seconds added to the bucket's time to live      *)
  CounterTTL,    (* a counter's time to live, 32 days                      *)
  Months, MonthOf, MonthLength,  (* the calendar; the longest month        *)
  Behind, Ahead, (* bounds of a clock reading's error                      *)
  Horizon,       (* when the model's time ends                             *)
  Never, NoBucket, None

Errors == (-Behind) .. Ahead
Readings == (-Behind) .. (Horizon + Ahead)
Bucket == [tokens : 0 .. Capacity, last : Readings, ends : Nat]
Counters == Projects \X Months

ASSUME LimitsAssumption == Free \in Int /\ Pro \in Int /\ Caps \subseteq Int /\ NoCap \notin Int
ASSUME BucketAssumption == Capacity \in Nat /\ Cost \in Nat \ {0} /\ Idle \in Nat
ASSUME ClockAssumption == Behind \in Nat /\ Ahead \in Nat /\ Horizon \in Nat
(* Two readings in one month are less than a month apart. *)
ASSUME CalendarAssumption ==
  /\ MonthLength \in Nat /\ CounterTTL \in Nat
  /\ MonthOf \in [Readings -> Months]
  /\ \A s, t \in Readings : MonthOf[s] = MonthOf[t] => t - s < MonthLength
(* What 60 seconds and 32 days are for: clocks that differ by less. *)
ASSUME SlackAssumption == Idle >= Behind + Ahead /\ CounterTTL >= MonthLength + Behind + Ahead
ASSUME RequestsAssumption == IsFiniteSet(Requests)
ASSUME NullAssumption == Never \notin Int /\ NoBucket \notin Bucket

VARIABLES
  time,
  open, subscribed, cap,  (* the organisation: may it ingest, does it pay, *)
                          (* custom_decision_cap                           *)
  bucket,                 (* the token bucket in Redis                     *)
  counter, counterEnds,   (* the monthly counters, and when they expire    *)
  pc, project, lim,       (* a request: where it is, what it was validated *)
  month, ticket,          (* for, the counter it took and the value it got *)
  granted                 (* when it was given a token                     *)

vars == <<time, open, subscribed, cap, bucket, counter, counterEnds, pc, project,
          lim, month, ticket, granted>>
org == <<open, subscribed, cap>>
counters == <<counter, counterEnds>>
context == <<project, lim>>
count == <<month, ticket>>

(* "refused" is every end before the counter, "cut" one between INCR and   *)
(* EXPIRE.                                                                 *)
Stages == {"new", "refused", "validated", "granted", "first", "cut", "over_quota",
           "admitted", "forwarded"}

-----------------------------------------------------------------------------
(* Operators ending in _Fault are mutations of the definition below them,  *)
(* which no definition uses.                                               *)

(* The monthly limit of the organisation: custom, paid or free. *)
EffectiveLimit == IF cap # NoCap THEN cap ELSE IF subscribed THEN Pro ELSE Free

Least(a, b) == IF a <= b THEN a ELSE b

(* "Elapsed" without a sign. *)
Refilled_AbsoluteFault(now) ==
  IF bucket = NoBucket THEN Capacity
  ELSE Least(Capacity, bucket.tokens + (IF now < bucket.last THEN bucket.last - now
                                        ELSE now - bucket.last))

(* The tokens at a reading of the clock; a clock that is behind the last   *)
(* one takes tokens away.                                                  *)
Refilled(now) ==
  IF bucket = NoBucket THEN Capacity
  ELSE Least(Capacity, bucket.tokens + (now - bucket.last))

(* The limit itself is over the limit. *)
Verdict_AtLimitFault(r, n) == IF n >= lim[r] THEN "over_quota" ELSE "admitted"

(* "Check AFTER atomic increment". *)
Verdict(r, n) == IF n > lim[r] THEN "over_quota" ELSE "admitted"

Goto(r, stage) == pc' = [pc EXCEPT ![r] = stage]

(* An error to the client; the tenant context is cleared. *)
TurnAway(r) ==
  /\ Goto(r, "refused")
  /\ project' = [project EXCEPT ![r] = None]
  /\ lim' = [lim EXCEPT ![r] = 0]

-----------------------------------------------------------------------------
Init ==
  /\ time = 0
  /\ open = TRUE /\ subscribed = FALSE /\ cap = NoCap
  /\ bucket = NoBucket
  /\ counter = [x \in Counters |-> 0]
  /\ counterEnds = [x \in Counters |-> Never]
  /\ pc = [r \in Requests |-> "new"]
  /\ project = [r \in Requests |-> None]
  /\ lim = [r \in Requests |-> 0]
  /\ month = [r \in Requests |-> None]
  /\ ticket = [r \in Requests |-> 0]
  /\ granted = [r \in Requests |-> Never]

(* The control plane knows the key and says whose it is; the organisation  *)
(* is active or on trial.                                                  *)
Validate(r, p) ==
  /\ pc[r] = "new"
  /\ open
  /\ project' = [project EXCEPT ![r] = p]
  /\ lim' = [lim EXCEPT ![r] = EffectiveLimit]
  /\ Goto(r, "validated")
  /\ UNCHANGED <<time, org, bucket, counters, count, granted>>

(* No key, an unknown or revoked one, a wrong scope, mode or project, no   *)
(* answer from the control plane, an organisation that may not ingest; or  *)
(* a call before the counter raises, or the process ends.                  *)
Refuse(r) ==
  /\ pc[r] \in {"new", "validated", "granted"}
  /\ TurnAway(r)
  /\ UNCHANGED <<time, org, bucket, counters, count, granted>>

(* The Lua script.  A request that gets no token leaves the bucket as it is. *)
TakeToken(r) ==
  /\ pc[r] = "validated"
  /\ \E e \in Errors :
       LET now == time + e IN
       \/ /\ Refilled(now) >= Cost
          /\ bucket' = [tokens |-> Refilled(now) - Cost, last |-> now,
                        ends |-> time + Capacity + Idle]
          /\ granted' = [granted EXCEPT ![r] = time]
          /\ Goto(r, "granted")
          /\ UNCHANGED context
       \/ /\ Refilled(now) < Cost
          /\ TurnAway(r)
          /\ UNCHANGED <<bucket, granted>>
  /\ UNCHANGED <<time, org, counters, count>>

(* The value before INCR is taken for the one after it. *)
Count_OldValueFault(r) ==
  /\ pc[r] = "granted"
  /\ \E e \in Errors :
       LET m == MonthOf[time + e]
           n == counter[<<project[r], m>>] + 1 IN
       /\ counter' = [counter EXCEPT ![<<project[r], m>>] = n]
       /\ month' = [month EXCEPT ![r] = m]
       /\ ticket' = [ticket EXCEPT ![r] = n]
       /\ Goto(r, IF n = 2 THEN "first" ELSE Verdict(r, n))
  /\ UNCHANGED <<time, org, bucket, counterEnds, context, granted>>

(* INCR of the counter of the project and of the month on this clock. *)
Count(r) ==
  /\ pc[r] = "granted"
  /\ \E e \in Errors :
       LET m == MonthOf[time + e]
           n == counter[<<project[r], m>>] + 1 IN
       /\ counter' = [counter EXCEPT ![<<project[r], m>>] = n]
       /\ month' = [month EXCEPT ![r] = m]
       /\ ticket' = [ticket EXCEPT ![r] = n]
       /\ Goto(r, IF n = 1 THEN "first" ELSE Verdict(r, n))
  /\ UNCHANGED <<time, org, bucket, counterEnds, context, granted>>

(* A counter that lives for a day. *)
SetExpiry_ShortFault(r) ==
  /\ pc[r] = "first"
  /\ counterEnds' = [counterEnds EXCEPT ![<<project[r], month[r]>>] = time + 1]
  /\ Goto(r, Verdict(r, ticket[r]))
  /\ UNCHANGED <<time, org, bucket, counter, context, count, granted>>

(* EXPIRE, by the request that created the counter; then it compares too. *)
SetExpiry(r) ==
  /\ pc[r] = "first"
  /\ counterEnds' = [counterEnds EXCEPT ![<<project[r], month[r]>>] = time + CounterTTL]
  /\ Goto(r, Verdict(r, ticket[r]))
  /\ UNCHANGED <<time, org, bucket, counter, context, count, granted>>

(* To the queue or to the recorder, which may take it and not answer.      *)
(* Nothing is given back.                                                  *)
Forward(r) ==
  /\ pc[r] = "admitted"
  /\ Goto(r, "forwarded")
  /\ UNCHANGED <<time, org, bucket, counters, context, count, granted>>

(* The process ends, or EXPIRE raises, after INCR. *)
Cut(r) ==
  /\ pc[r] = "first"
  /\ Goto(r, "cut")
  /\ UNCHANGED <<time, org, bucket, counters, context, count, granted>>

(* Time passes; Redis drops what has expired. *)
Tick ==
  LET gone == {x \in Counters : counterEnds[x] # Never /\ counterEnds[x] <= time + 1} IN
  /\ time < Horizon
  /\ time' = time + 1
  /\ counter' = [x \in Counters |-> IF x \in gone THEN 0 ELSE counter[x]]
  /\ counterEnds' = [x \in Counters |-> IF x \in gone THEN Never ELSE counterEnds[x]]
  /\ bucket' = IF bucket # NoBucket /\ bucket.ends <= time + 1 THEN NoBucket ELSE bucket
  /\ UNCHANGED <<org, pc, context, count, granted>>

-----------------------------------------------------------------------------
(* The organisation: a superadmin sets its limit or its status, and Stripe *)
(* reports a checkout, a failed payment or the end of the subscription.    *)

SetCap(c) ==
  /\ cap' = c
  /\ UNCHANGED <<time, open, subscribed, bucket, counters, pc, context, count, granted>>

SetStatus(b) ==
  /\ open' = b
  /\ UNCHANGED <<time, subscribed, cap, bucket, counters, pc, context, count, granted>>

StripeEvent(paid) ==
  /\ open' = paid
  /\ subscribed' = paid
  /\ UNCHANGED <<time, cap, bucket, counters, pc, context, count, granted>>

-----------------------------------------------------------------------------
Serve(r) ==
  \/ \E p \in Projects : Validate(r, p)
  \/ Refuse(r) \/ TakeToken(r) \/ Count(r) \/ SetExpiry(r) \/ Forward(r) \/ Cut(r)

Next ==
  \/ \E r \in Requests : Serve(r)
  \/ Tick
  \/ \E c \in Caps \cup {NoCap} : SetCap(c)
  \/ \E b \in BOOLEAN : SetStatus(b) \/ StripeEvent(b)

Spec == Init /\ [][Next]_vars

-----------------------------------------------------------------------------
(* Type invariant of the organisation, the Redis keys and the requests. *)
TypeOK ==
  /\ time \in 0 .. Horizon
  /\ open \in BOOLEAN /\ subscribed \in BOOLEAN /\ cap \in Caps \cup {NoCap}
  /\ bucket \in Bucket \cup {NoBucket}
  /\ counter \in [Counters -> Nat]
  /\ counterEnds \in [Counters -> Nat \cup {Never}]
  /\ pc \in [Requests -> Stages]
  /\ project \in [Requests -> Projects \cup {None}]
  /\ lim \in [Requests -> Int]
  /\ month \in [Requests -> Months \cup {None}]
  /\ ticket \in [Requests -> Nat]
  /\ granted \in [Requests -> (0 .. Horizon) \cup {Never}]

(* The requests that took a value of this counter, and those of them that  *)
(* were let through.                                                       *)
Attempts(p, m) == {r \in Requests : ticket[r] # 0 /\ project[r] = p /\ month[r] = m}
Passed(p, m) == {r \in Attempts(p, m) : pc[r] \in {"admitted", "forwarded"}}

(* "Strict enforcement" of the quota: of a project's requests no more pass *)
(* in a month than the highest limit one of them was validated with --     *)
(* through concurrent requests, clocks that disagree about the month,      *)
(* counters that expire and changes of the plan.                           *)
QuotaHolds == \A p \in Projects, m \in Months :
  Passed(p, m) # {} => \E r \in Passed(p, m) : Cardinality(Passed(p, m)) <= lim[r]

(* Nobody is refused for the requests of another project or month: a       *)
(* request over its limit is one of more than that many of its own.  (They *)
(* include those refused before and those that failed afterwards.)         *)
RefusedOnlyFull == \A r \in Requests : pc[r] = "over_quota" =>
  Cardinality(Attempts(project[r], month[r])) > lim[r]

(* The requests given a token in a stretch of time. *)
Granted(s, t) == {r \in Requests : granted[r] # Never /\ granted[r] \in s .. t}

(* The token bucket: in no stretch of time do more requests get a token    *)
(* than the bucket holds and the stretch refills, give or take the         *)
(* difference of the clocks.  Whatever the clocks do, and though the       *)
(* bucket is forgotten when idle.                                          *)
BurstBounded == \A s, t \in 0 .. Horizon : s <= t =>
  Cost * Cardinality(Granted(s, t)) <= Capacity + (t - s) + Behind + Ahead

(* No counter stays in Redis for ever, unless the request that created it  *)
(* died between INCR and EXPIRE (which is not atomic).                     *)
CountersExpire == \A p \in Projects, m \in Months :
  counter[<<p, m>>] # 0 /\ counterEnds[<<p, m>>] = Never =>
    \E r \in Attempts(p, m) : ticket[r] = 1 /\ pc[r] \in {"first", "cut"}
=============================================================================
