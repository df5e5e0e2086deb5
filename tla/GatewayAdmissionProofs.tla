------------------------ MODULE GatewayAdmissionProofs ------------------------
(***************************************************************************)
(* Theorems about GatewayAdmission, for any number of requests, projects   *)
(* and months, any limits and any clocks within their bounds.              *)
(***************************************************************************)
EXTENDS GatewayAdmission, FiniteSetTheorems, TLAPS

(* A request has a ticket from INCR on; what its stage says of it.         *)
Uncounted == {"new", "refused", "validated", "granted"}
StageOK == \A r \in Requests :
  /\ pc[r] \in Uncounted <=> ticket[r] = 0
  /\ pc[r] \notin {"new", "refused"} => project[r] \in Projects
  /\ ticket[r] # 0 => month[r] \in Months
  /\ pc[r] \in {"admitted", "forwarded"} => ticket[r] <= lim[r]
  /\ pc[r] = "over_quota" => ticket[r] > lim[r]

TInv == TypeOK /\ StageOK

-----------------------------------------------------------------------------
LEMMA RefilledTyped == ASSUME TypeOK, NEW now \in Readings
  PROVE Refilled(now) \in Int /\ Refilled(now) <= Capacity
<1> USE BucketAssumption, ClockAssumption, NullAssumption
<1>1. CASE bucket = NoBucket
  BY <1>1 DEF Refilled
<1>2. CASE bucket # NoBucket
  <2>1. bucket \in Bucket
    BY <1>2 DEF TypeOK
  <2>2. bucket.tokens \in Int /\ bucket.last \in Int /\ now \in Int
    BY <2>1 DEF Bucket, Readings
  <2>3. QED
    BY <1>2, <2>2 DEF Refilled, Least
<1>3. QED
  BY <1>1, <1>2

LEMMA ReadingTyped == ASSUME TypeOK, NEW e \in Errors
  PROVE /\ time + e \in Readings
        /\ MonthOf[time + e] \in Months
<1>1. time + e \in Readings
  BY ClockAssumption DEF TypeOK, Errors, Readings
<1>2. QED
  BY <1>1, CalendarAssumption

LEMMA EffectiveLimitTyped == TypeOK => EffectiveLimit \in Int
  BY LimitsAssumption DEF TypeOK, EffectiveLimit

LEMMA TInvInit == Init => TInv
<1> SUFFICES ASSUME Init PROVE TypeOK /\ StageOK
  BY DEF TInv
<1>1. time \in 0 .. Horizon
  BY ClockAssumption DEF Init
<1>2. counter \in [Counters -> Nat] /\ counterEnds \in [Counters -> Nat \cup {Never}]
  BY DEF Init
<1>3. TypeOK
  <2>1. open \in BOOLEAN /\ subscribed \in BOOLEAN /\ cap \in Caps \cup {NoCap}
    BY DEF Init
  <2>2. /\ pc \in [Requests -> Stages]
        /\ project \in [Requests -> Projects \cup {None}]
        /\ month \in [Requests -> Months \cup {None}]
        /\ granted \in [Requests -> (0 .. Horizon) \cup {Never}]
    BY DEF Init, Stages
  <2>3. lim \in [Requests -> Int] /\ ticket \in [Requests -> Nat]
    BY DEF Init
  <2>4. bucket \in Bucket \cup {NoBucket}
    BY DEF Init
  <2>5. QED
    BY <1>1, <1>2, <2>1, <2>2, <2>3, <2>4 DEF TypeOK
<1>4. StageOK
  BY DEF Init, StageOK, Uncounted
<1>5. QED
  BY <1>3, <1>4

LEMMA TInvStep == ASSUME TInv, [Next]_vars PROVE TInv'
<1> USE DEF TInv
<1>1. ASSUME NEW r \in Requests, NEW p \in Projects, Validate(r, p) PROVE TInv'
  BY <1>1, EffectiveLimitTyped
  DEF Validate, TypeOK, StageOK, Stages, Uncounted, Goto, org, counters, count
<1>2. ASSUME NEW r \in Requests, Refuse(r) PROVE TInv'
  BY <1>2 DEF Refuse, TurnAway, TypeOK, StageOK, Stages, Uncounted, Goto, org, counters, count
<1>3. ASSUME NEW r \in Requests, TakeToken(r) PROVE TInv'
  <2>1. PICK e \in Errors :
          \/ /\ Refilled(time + e) >= Cost
             /\ bucket' = [tokens |-> Refilled(time + e) - Cost, last |-> time + e,
                           ends |-> time + Capacity + Idle]
             /\ granted' = [granted EXCEPT ![r] = time]
             /\ Goto(r, "granted")
             /\ UNCHANGED context
          \/ TurnAway(r) /\ UNCHANGED <<bucket, granted>>
    BY <1>3 DEF TakeToken
  <2>2. bucket' \in Bucket \cup {NoBucket}
    <3>1. time + e \in Readings /\ Refilled(time + e) \in Int /\ Refilled(time + e) <= Capacity
      BY ReadingTyped, RefilledTyped
    <3>2. time + Capacity + Idle \in Nat
      BY BucketAssumption, ClockAssumption DEF TypeOK
    <3>3. CASE UNCHANGED bucket
      BY <3>3 DEF TypeOK
    <3>4. CASE /\ Refilled(time + e) >= Cost
               /\ bucket' = [tokens |-> Refilled(time + e) - Cost, last |-> time + e,
                             ends |-> time + Capacity + Idle]
      <4>1. Refilled(time + e) - Cost \in 0 .. Capacity
        BY <3>1, <3>4, BucketAssumption
      <4>2. QED
        BY <3>1, <3>2, <3>4, <4>1 DEF Bucket
    <3>5. QED
      BY <2>1, <3>3, <3>4
  <2>3. granted' \in [Requests -> (0 .. Horizon) \cup {Never}]
    BY <2>1 DEF TypeOK
  <2>4. pc[r] = "validated"
    BY <1>3 DEF TakeToken
  <2>5. UNCHANGED <<time, org, counters, count>>
    BY <1>3 DEF TakeToken
  <2>6. QED
    BY <2>1, <2>2, <2>3, <2>4, <2>5
    DEF TurnAway, TypeOK, StageOK, Stages, Uncounted, Goto, org, counters, count, context
<1>4. ASSUME NEW r \in Requests, Count(r) PROVE TInv'
  <2>1. PICK e \in Errors :
          LET m == MonthOf[time + e]
              n == counter[<<project[r], m>>] + 1 IN
          /\ counter' = [counter EXCEPT ![<<project[r], m>>] = n]
          /\ month' = [month EXCEPT ![r] = m]
          /\ ticket' = [ticket EXCEPT ![r] = n]
          /\ Goto(r, IF n = 1 THEN "first" ELSE Verdict(r, n))
    BY <1>4 DEF Count
  <2> DEFINE m == MonthOf[time + e]
             n == counter[<<project[r], m>>] + 1
  <2>2. pc[r] = "granted" /\ project[r] \in Projects /\ m \in Months
    BY <1>4, ReadingTyped DEF Count, StageOK
  <2>3. counter[<<project[r], m>>] \in Nat
    BY <2>2 DEF TypeOK, Counters
  <2>4. n \in Nat \ {0} /\ lim[r] \in Int
    BY <2>3 DEF TypeOK
  <2>5. UNCHANGED <<time, org, bucket, counterEnds, context, granted>>
    BY <1>4 DEF Count
  <2> HIDE DEF m, n
  <2>6. /\ counter' = [counter EXCEPT ![<<project[r], m>>] = n]
        /\ month' = [month EXCEPT ![r] = m]
        /\ ticket' = [ticket EXCEPT ![r] = n]
        /\ pc' = [pc EXCEPT ![r] = IF n = 1 THEN "first" ELSE Verdict(r, n)]
    BY <2>1 DEF m, n, Goto
  <2>7. TypeOK'
    BY <2>2, <2>4, <2>5, <2>6 DEF TypeOK, Counters, Stages, Verdict, org, context
  <2>8. StageOK'
    BY <2>2, <2>4, <2>5, <2>6 DEF StageOK, TypeOK, Stages, Uncounted, Verdict, context
  <2>9. QED
    BY <2>7, <2>8
<1>5. ASSUME NEW r \in Requests, SetExpiry(r) PROVE TInv'
  <2>1. time + CounterTTL \in Nat
    BY CalendarAssumption, ClockAssumption DEF TypeOK
  <2>2. TypeOK'
    <3>1. counterEnds' \in [Counters -> Nat \cup {Never}]
      BY <1>5, <2>1 DEF SetExpiry, TypeOK
    <3>2. pc' \in [Requests -> Stages]
      BY <1>5 DEF SetExpiry, TypeOK, Goto, Verdict, Stages
    <3>3. QED
      BY <1>5, <3>1, <3>2 DEF SetExpiry, TypeOK, org, context, count
  <2>3. pc[r] = "first" /\ pc' = [pc EXCEPT ![r] = Verdict(r, ticket[r])]
        /\ UNCHANGED <<context, count>>
    BY <1>5 DEF SetExpiry, Goto
  <2>4. ticket[r] \in Nat /\ lim[r] \in Int
    BY DEF TypeOK
  <2>5. StageOK'
    BY <2>3, <2>4 DEF StageOK, TypeOK, Uncounted, Verdict, context, count
  <2>6. QED
    BY <2>2, <2>5
<1>6. ASSUME NEW r \in Requests, Forward(r) \/ Cut(r) PROVE TInv'
  BY <1>6 DEF Forward, Cut, TypeOK, StageOK, Stages, Uncounted, Goto, org, counters, context,
     count
<1>7. CASE Tick
  <2>1. time' \in 0 .. Horizon
    BY <1>7, ClockAssumption DEF Tick, TypeOK
  <2>2. counter' \in [Counters -> Nat] /\ counterEnds' \in [Counters -> Nat \cup {Never}]
    BY <1>7 DEF Tick, TypeOK
  <2>3. bucket' \in Bucket \cup {NoBucket}
    BY <1>7 DEF Tick, TypeOK
  <2>4. UNCHANGED <<org, pc, context, count, granted>>
    BY <1>7 DEF Tick
  <2>5. QED
    BY <2>1, <2>2, <2>3, <2>4 DEF TypeOK, StageOK, org, context, count
<1>8. ASSUME NEW c \in Caps \cup {NoCap}, SetCap(c) PROVE TInv'
  BY <1>8 DEF SetCap, TypeOK, StageOK, counters, context, count
<1>9. ASSUME NEW b \in BOOLEAN, SetStatus(b) \/ StripeEvent(b) PROVE TInv'
  BY <1>9 DEF SetStatus, StripeEvent, TypeOK, StageOK, counters, context, count
<1>10. CASE UNCHANGED vars
  BY <1>10 DEF vars, TypeOK, StageOK
<1>11. QED
  BY <1>1, <1>2, <1>3, <1>4, <1>5, <1>6, <1>7, <1>8, <1>9, <1>10 DEF Next, Serve

LEMMA TInvHolds == Spec => []TInv
<1>1. QED
  BY TInvInit, TInvStep, PTL DEF Spec

(* The types of the organisation, the Redis keys and the requests: a token *)
(* count never goes below zero, whatever the clocks say.                   *)
THEOREM TypeCorrect == Spec => []TypeOK
<1>1. TInv => TypeOK
  BY DEF TInv
<1>2. QED
  BY <1>1, TInvHolds, PTL

-----------------------------------------------------------------------------
(* The monthly counters.                                                   *)

(* What a step does to the requests that have a ticket: nothing, or it     *)
(* gives one to a request that has none.                                   *)
CountsAs(r, p, m, n) ==
  /\ pc[r] = "granted" /\ ticket[r] = 0
  /\ project[r] = p
  /\ n = counter[<<p, m>>] + 1
  /\ \E e \in Errors : m = MonthOf[time + e]
  /\ counter' = [counter EXCEPT ![<<p, m>>] = n]
  /\ month' = [month EXCEPT ![r] = m]
  /\ ticket' = [ticket EXCEPT ![r] = n]
  /\ pc' = [pc EXCEPT ![r] = IF n = 1 THEN "first" ELSE Verdict(r, n)]
  /\ UNCHANGED <<time, counterEnds, project, lim>>

LEMMA CountCounts == ASSUME TInv, NEW r \in Requests, Count(r)
  PROVE \E p \in Projects, m \in Months, n \in Nat \ {0} : CountsAs(r, p, m, n)
<1>1. PICK e \in Errors :
        LET m == MonthOf[time + e]
            n == counter[<<project[r], m>>] + 1 IN
        /\ counter' = [counter EXCEPT ![<<project[r], m>>] = n]
        /\ month' = [month EXCEPT ![r] = m]
        /\ ticket' = [ticket EXCEPT ![r] = n]
        /\ Goto(r, IF n = 1 THEN "first" ELSE Verdict(r, n))
  BY DEF Count
<1> DEFINE m == MonthOf[time + e]
           n == counter[<<project[r], m>>] + 1
<1>2. pc[r] = "granted" /\ project[r] \in Projects /\ m \in Months /\ ticket[r] = 0
  BY ReadingTyped DEF Count, TInv, StageOK, Uncounted
<1>3. n \in Nat \ {0}
  BY <1>2 DEF TInv, TypeOK, Counters
<1>4. UNCHANGED <<time, counterEnds, project, lim>>
  BY DEF Count, context
<1>5. CountsAs(r, project[r], m, n)
  BY <1>1, <1>2, <1>4 DEF CountsAs, Goto
<1> HIDE DEF m, n
<1>6. QED
  BY <1>2, <1>3, <1>5

(* Only a request without a ticket changes its project.                    *)
KeepsTickets ==
  /\ UNCHANGED count
  /\ \A r \in Requests : ticket[r] # 0 => project'[r] = project[r] /\ lim'[r] = lim[r]
  /\ \A r \in Requests : ticket[r] # 0 /\ pc[r] # "first" =>
       \/ pc'[r] = pc[r]
       \/ pc[r] = "admitted" /\ pc'[r] = "forwarded"

LEMMA OthersKeepTickets == ASSUME TInv, [Next]_vars
  PROVE KeepsTickets \/ \E r \in Requests : Count(r)
<1> USE DEF TInv
<1>1. ASSUME NEW r \in Requests, NEW p \in Projects, Validate(r, p) PROVE KeepsTickets
  BY <1>1 DEF Validate, KeepsTickets, TypeOK, StageOK, Uncounted, Goto, count
<1>2. ASSUME NEW r \in Requests, Refuse(r) PROVE KeepsTickets
  BY <1>2 DEF Refuse, TurnAway, KeepsTickets, TypeOK, StageOK, Uncounted, Goto, count
<1>3. ASSUME NEW r \in Requests, TakeToken(r) PROVE KeepsTickets
  BY <1>3 DEF TakeToken, TurnAway, KeepsTickets, TypeOK, StageOK, Uncounted, Goto, context,
     count
<1>4. ASSUME NEW r \in Requests, SetExpiry(r) \/ Cut(r) PROVE KeepsTickets
  BY <1>4 DEF SetExpiry, Cut, KeepsTickets, TypeOK, Goto, context, count
<1>5. ASSUME NEW r \in Requests, Forward(r) PROVE KeepsTickets
  BY <1>5 DEF Forward, KeepsTickets, TypeOK, Goto, context, count
<1>6. ASSUME \/ Tick
             \/ \E c \in Caps \cup {NoCap} : SetCap(c)
             \/ \E b \in BOOLEAN : SetStatus(b) \/ StripeEvent(b)
             \/ UNCHANGED vars
      PROVE KeepsTickets
  BY <1>6 DEF Tick, SetCap, SetStatus, StripeEvent, vars, KeepsTickets, context, count
<1>7. QED
  BY <1>1, <1>2, <1>3, <1>4, <1>5, <1>6 DEF Next, Serve

LEMMA AttemptsKept == ASSUME KeepsTickets, NEW p, NEW m
  PROVE Attempts(p, m)' = Attempts(p, m)
  BY DEF KeepsTickets, Attempts, count

LEMMA AttemptsGrow ==
  ASSUME TInv, NEW r \in Requests, NEW m \in Months, NEW n \in Nat \ {0},
         NEW p \in Projects, CountsAs(r, p, m, n), NEW q, NEW k
  PROVE  Attempts(q, k)' = IF q = p /\ k = m THEN Attempts(q, k) \cup {r}
                           ELSE Attempts(q, k)
  BY DEF CountsAs, Attempts, TInv, TypeOK

LEMMA AttemptsFinite == ASSUME NEW p, NEW m
  PROVE IsFiniteSet(Attempts(p, m)) /\ Cardinality(Attempts(p, m)) \in Nat
  BY RequestsAssumption, FS_Subset, FS_CardinalityType DEF Attempts

(* Month m has ended for every clock at time t.                            *)
Over(m, t) == \A u \in t .. Horizon : \A e \in Errors : MonthOf[u + e] # m

(* A counter expires after its month, so that a new one never repeats the  *)
(* tickets of an old one.                                                  *)
EndsAfterMonth == \A p \in Projects, m \in Months :
  counterEnds[<<p, m>>] # Never => Over(m, counterEnds[<<p, m>>])
OpenedInMonth == \A r \in Requests : pc[r] = "first" =>
  \E u \in 0 .. time : \E e \in Errors : month[r] = MonthOf[u + e]
BelowCounter == \A r \in Requests : ticket[r] # 0 =>
  ticket[r] <= counter[<<project[r], month[r]>>] \/ Over(month[r], time)
TicketsDistinct == \A r, q \in Requests :
  ticket[r] # 0 /\ ticket[r] = ticket[q] /\ project[r] = project[q] /\ month[r] = month[q]
    => r = q
(* Each value of a counter was some request's.                             *)
Counted ==
  /\ \A p \in Projects, m \in Months : counter[<<p, m>>] <= Cardinality(Attempts(p, m))
  /\ \A p \in Projects, m \in Months : \A r \in Attempts(p, m) :
       ticket[r] <= Cardinality(Attempts(p, m))

QInv == TInv /\ EndsAfterMonth /\ OpenedInMonth /\ BelowCounter /\ TicketsDistinct
        /\ Counted /\ CountersExpire

LEMMA OverLater == ASSUME NEW m, NEW s \in Int, NEW t \in Int, s <= t, Over(m, s)
  PROVE Over(m, t)
  BY ClockAssumption DEF Over

(* 32 days after a reading in month m the month is over.                   *)
LEMMA OverAfterTTL ==
  ASSUME NEW m, NEW t \in 0 .. Horizon, NEW u \in 0 .. t, NEW e \in Errors, m = MonthOf[u + e]
  PROVE  Over(m, t + CounterTTL)
<1> SUFFICES ASSUME NEW v \in (t + CounterTTL) .. Horizon, NEW f \in Errors,
                    MonthOf[v + f] = MonthOf[u + e]
             PROVE FALSE
  BY DEF Over
<1>1. /\ u \in Int /\ e \in Int /\ v \in Int /\ f \in Int /\ t \in Int /\ u <= t /\ 0 <= u
      /\ t <= Horizon /\ v <= Horizon /\ t + CounterTTL <= v
      /\ -Behind <= e /\ e <= Ahead /\ -Behind <= f /\ f <= Ahead
  BY ClockAssumption, CalendarAssumption DEF Errors
<1>2. u + e \in Readings /\ v + f \in Readings
  BY <1>1, ClockAssumption, CalendarAssumption DEF Readings
<1>3. (v + f) - (u + e) < MonthLength
  BY <1>2, CalendarAssumption
<1>4. QED
  BY <1>1, <1>3, ClockAssumption, CalendarAssumption, SlackAssumption

LEMMA QInvInit == Init => QInv
<1> SUFFICES ASSUME Init PROVE QInv
  OBVIOUS
<1>1. TInv
  BY TInvInit
<1>2. \A x \in Counters : counter[x] = 0 /\ counterEnds[x] = Never
  BY DEF Init
<1>3. \A r \in Requests : ticket[r] = 0 /\ pc[r] = "new"
  BY DEF Init
<1>4. \A p, m : Cardinality(Attempts(p, m)) \in Nat /\ Attempts(p, m) = {}
  BY <1>3, AttemptsFinite DEF Attempts
<1>5. EndsAfterMonth /\ CountersExpire
  BY <1>2 DEF EndsAfterMonth, CountersExpire, Counters
<1>6. OpenedInMonth /\ BelowCounter /\ TicketsDistinct
  BY <1>3 DEF OpenedInMonth, BelowCounter, TicketsDistinct
<1>7. Counted
  BY <1>2, <1>3, <1>4 DEF Counted, Counters
<1>8. QED
  BY <1>1, <1>5, <1>6, <1>7 DEF QInv

LEMMA QInvCount ==
  ASSUME QInv, TInv', NEW r \in Requests, NEW m \in Months, NEW n \in Nat \ {0},
         NEW p \in Projects, CountsAs(r, p, m, n)
  PROVE  QInv'
<1>1. /\ TypeOK /\ project[r] = p /\ <<p, m>> \in Counters
      /\ counter[<<p, m>>] \in Nat /\ n = counter[<<p, m>>] + 1
  BY DEF QInv, TInv, TypeOK, CountsAs, Counters
<1>2. /\ project' = project /\ time' = time /\ counterEnds' = counterEnds
      /\ month' = [month EXCEPT ![r] = m] /\ ticket' = [ticket EXCEPT ![r] = n]
      /\ counter' = [counter EXCEPT ![<<p, m>>] = n]
      /\ pc' = [pc EXCEPT ![r] = IF n = 1 THEN "first" ELSE Verdict(r, n)]
  BY DEF CountsAs
<1>3. /\ time \in 0 .. Horizon /\ pc \in [Requests -> Stages]
      /\ ticket \in [Requests -> Nat] /\ month \in [Requests -> Months \cup {None}]
      /\ counter \in [Counters -> Nat]
  BY <1>1 DEF TypeOK
<1>4. PICK e \in Errors : m = MonthOf[time + e]
  BY DEF CountsAs
<1>5. ~Over(m, time)
  BY <1>3, <1>4, ClockAssumption DEF Over
<1>6. ticket[r] = 0
  BY DEF CountsAs
<1>7. EndsAfterMonth'
  BY <1>2 DEF QInv, EndsAfterMonth, Over
<1>8. OpenedInMonth'
  <2> SUFFICES ASSUME NEW q \in Requests, pc'[q] = "first"
               PROVE \E u \in 0 .. time : \E f \in Errors : month'[q] = MonthOf[u + f]
    BY <1>2 DEF OpenedInMonth
  <2>1. CASE q = r
    BY <2>1, <1>2, <1>3, <1>4, ClockAssumption
  <2>2. CASE q # r
    BY <2>2, <1>2, <1>3 DEF QInv, OpenedInMonth
  <2>3. QED
    BY <2>1, <2>2
<1>9. BelowCounter'
  <2> SUFFICES ASSUME NEW q \in Requests, ticket'[q] # 0
               PROVE \/ ticket'[q] <= counter'[<<project[q], month'[q]>>]
                     \/ Over(month'[q], time)
    BY <1>2 DEF BelowCounter, Over
  <2>1. CASE q = r
    BY <2>1, <1>1, <1>2, <1>3
  <2>2. CASE q # r
    <3>1. ticket'[q] = ticket[q] /\ month'[q] = month[q] /\ ticket[q] # 0
      BY <2>2, <1>2, <1>3
    <3>2. <<project[q], month[q]>> \in Counters
      BY <3>1 DEF QInv, TInv, StageOK, TypeOK, Uncounted, Counters
    <3>3. counter[<<project[q], month[q]>>] <= counter'[<<project[q], month[q]>>]
      BY <3>2, <1>1, <1>2, <1>3
    <3>4. CASE ticket[q] <= counter[<<project[q], month[q]>>]
      BY <3>1, <3>2, <3>3, <3>4, <1>1, <1>2, <1>3
    <3>5. QED
      BY <3>1, <3>4 DEF QInv, BelowCounter
  <2>3. QED
    BY <2>1, <2>2
<1>10. TicketsDistinct'
  <2>1. \A q \in Requests : q # r /\ ticket[q] # 0 /\ project[q] = p /\ month[q] = m =>
          ticket[q] # n
    <3> SUFFICES ASSUME NEW q \in Requests, q # r, ticket[q] # 0, project[q] = p, month[q] = m
                 PROVE ticket[q] # n
      OBVIOUS
    <3>1. ticket[q] <= counter[<<p, m>>]
      BY <1>5 DEF QInv, BelowCounter
    <3>2. QED
      BY <3>1, <1>1, <1>3
  <2> SUFFICES ASSUME NEW q \in Requests, NEW s \in Requests, ticket'[q] # 0,
                      ticket'[q] = ticket'[s], project[q] = project[s], month'[q] = month'[s]
               PROVE q = s
    BY <1>2 DEF TicketsDistinct
  <2>2. CASE q # r /\ s # r
    BY <2>2, <1>2, <1>3 DEF QInv, TicketsDistinct
  <2>3. CASE q = r /\ s # r
    BY <2>1, <2>3, <1>1, <1>2, <1>3
  <2>4. CASE q # r /\ s = r
    BY <2>1, <2>4, <1>1, <1>2, <1>3
  <2>5. QED
    BY <2>2, <2>3, <2>4
<1>11. Counted'
  <2>1. r \notin Attempts(p, m)
    BY <1>6 DEF Attempts
  <2>2. Attempts(p, m)' = Attempts(p, m) \cup {r}
    BY AttemptsGrow DEF QInv
  <2>3. \A q, k : q # p \/ k # m => Attempts(q, k)' = Attempts(q, k)
    BY AttemptsGrow DEF QInv
  <2>4. Cardinality(Attempts(p, m)') = Cardinality(Attempts(p, m)) + 1
    BY <2>1, <2>2, AttemptsFinite, FS_AddElement
  <2>5. \A q, k : Cardinality(Attempts(q, k)) \in Nat
    BY AttemptsFinite
  <2>6. \A q, k : Cardinality(Attempts(q, k)) <= Cardinality(Attempts(q, k)')
    BY <2>3, <2>4, <2>5
  <2>7. n <= Cardinality(Attempts(p, m)')
    BY <2>4, <2>5, <1>1 DEF QInv, Counted
  <2>8. ASSUME NEW q \in Projects, NEW k \in Months
        PROVE counter'[<<q, k>>] <= Cardinality(Attempts(q, k)')
    <3>1. CASE q = p /\ k = m
      BY <3>1, <2>7, <1>1, <1>2, <1>3
    <3>2. CASE ~(q = p /\ k = m)
      <4>1. counter'[<<q, k>>] = counter[<<q, k>>]
        BY <3>2, <1>2, <1>3 DEF Counters
      <4>2. QED
        BY <4>1, <3>2, <2>3 DEF QInv, Counted
    <3>3. QED
      BY <3>1, <3>2
  <2>9. ASSUME NEW q \in Projects, NEW k \in Months, NEW s \in Attempts(q, k)'
        PROVE ticket'[s] <= Cardinality(Attempts(q, k)')
    <3>1. CASE s = r
      <4>1. q = p /\ k = m
        BY <3>1, <1>2, <1>3, <1>6, <2>3 DEF Attempts
      <4>2. QED
        BY <3>1, <4>1, <2>7, <1>2, <1>3
    <3>2. CASE s # r
      <4>1. s \in Attempts(q, k) /\ s \in Requests
        BY <3>2, <2>2, <2>3 DEF Attempts
      <4>2. ticket'[s] = ticket[s] /\ ticket[s] \in Nat
        BY <3>2, <4>1, <1>2, <1>3
      <4>3. ticket[s] <= Cardinality(Attempts(q, k))
        BY <4>1 DEF QInv, Counted
      <4>4. Cardinality(Attempts(q, k)) <= Cardinality(Attempts(q, k)')
        BY <2>6
      <4>5. Cardinality(Attempts(q, k)) \in Nat /\ Cardinality(Attempts(q, k)') \in Nat
        BY <2>3, <2>4, <2>5
      <4>6. QED
        BY <4>2, <4>3, <4>4, <4>5
    <3>3. QED
      BY <3>1, <3>2
  <2>10. QED
    BY <2>8, <2>9 DEF Counted
<1>12. CountersExpire'
  <2> SUFFICES ASSUME NEW q \in Projects, NEW k \in Months, counter'[<<q, k>>] # 0,
                      counterEnds[<<q, k>>] = Never
               PROVE \E s \in Attempts(q, k)' : ticket'[s] = 1 /\ pc'[s] \in {"first", "cut"}
    BY <1>2 DEF CountersExpire, Attempts
  <2>1. CASE q = p /\ k = m /\ n = 1
    <3>1. r \in Attempts(q, k)'
      BY <2>1, AttemptsGrow DEF QInv
    <3>2. QED
      BY <2>1, <3>1, <1>2, <1>3
  <2>2. CASE ~(q = p /\ k = m /\ n = 1)
    <3>1. counter[<<q, k>>] # 0
      BY <2>2, <1>1, <1>2, <1>3 DEF Counters
    <3>2. PICK s \in Attempts(q, k) : ticket[s] = 1 /\ pc[s] \in {"first", "cut"}
      BY <3>1 DEF QInv, CountersExpire
    <3>3. s # r /\ s \in Requests
      BY <1>6, <3>2 DEF Attempts
    <3>4. s \in Attempts(q, k)'
      BY AttemptsGrow DEF QInv
    <3>5. QED
      BY <3>2, <3>3, <3>4, <1>2, <1>3
  <2>3. QED
    BY <2>1, <2>2
<1>13. QED
  BY <1>7, <1>8, <1>9, <1>10, <1>11, <1>12 DEF QInv

LEMMA CountedKept == ASSUME TInv, Counted, KeepsTickets,
    \A x \in Counters : counter'[x] = counter[x] \/ counter'[x] = 0
  PROVE Counted'
<1>1. ASSUME NEW p \in Projects, NEW m \in Months
      PROVE /\ counter'[<<p, m>>] <= Cardinality(Attempts(p, m)')
            /\ \A r \in Attempts(p, m)' : ticket'[r] <= Cardinality(Attempts(p, m)')
  <2>1. Attempts(p, m)' = Attempts(p, m) /\ Cardinality(Attempts(p, m)) \in Nat
    BY AttemptsKept, AttemptsFinite
  <2>2. counter'[<<p, m>>] = counter[<<p, m>>] \/ counter'[<<p, m>>] = 0
    BY DEF Counters
  <2>3. ticket' = ticket
    BY DEF KeepsTickets, count
  <2>4. QED
    BY <2>1, <2>2, <2>3 DEF Counted
<1>2. QED
  BY <1>1 DEF Counted

LEMMA DistinctKept == ASSUME TicketsDistinct, KeepsTickets PROVE TicketsDistinct'
  BY DEF TicketsDistinct, KeepsTickets, count

LEMMA TicketPlace == ASSUME TInv, NEW r \in Requests, ticket[r] # 0
  PROVE project[r] \in Projects /\ month[r] \in Months /\ <<project[r], month[r]>> \in Counters
  BY DEF TInv, StageOK, Uncounted, Counters

LEMMA QInvExpiry == ASSUME QInv, TInv', KeepsTickets, NEW r \in Requests, SetExpiry(r)
  PROVE QInv'
<1>1. /\ pc[r] = "first" /\ ticket[r] # 0 /\ ticket[r] \in Nat
      /\ time' = time /\ counter' = counter /\ project' = project
      /\ month' = month /\ ticket' = ticket
      /\ counterEnds' = [counterEnds EXCEPT ![<<project[r], month[r]>>] = time + CounterTTL]
      /\ pc' = [pc EXCEPT ![r] = Verdict(r, ticket[r])]
  BY DEF SetExpiry, Goto, context, count, QInv, TInv, TypeOK, StageOK, Uncounted
<1>2. /\ time \in 0 .. Horizon /\ pc \in [Requests -> Stages]
      /\ counterEnds \in [Counters -> Nat \cup {Never}]
      /\ <<project[r], month[r]>> \in Counters
  BY <1>1, TicketPlace DEF QInv, TInv, TypeOK
<1>3. EndsAfterMonth'
  <2>1. Over(month[r], time + CounterTTL)
    <3>1. PICK u \in 0 .. time, e \in Errors : month[r] = MonthOf[u + e]
      BY <1>1 DEF QInv, OpenedInMonth
    <3>2. QED
      BY <3>1, <1>2, OverAfterTTL
  <2> SUFFICES ASSUME NEW p \in Projects, NEW m \in Months, counterEnds'[<<p, m>>] # Never
               PROVE Over(m, counterEnds'[<<p, m>>])
    BY DEF EndsAfterMonth, Over
  <2>2. CASE <<p, m>> = <<project[r], month[r]>>
    <3>1. m = month[r] /\ counterEnds'[<<p, m>>] = time + CounterTTL
      BY <2>2, <1>1, <1>2
    <3>2. QED
      BY <3>1, <2>1
  <2>3. CASE <<p, m>> # <<project[r], month[r]>>
    <3>1. counterEnds'[<<p, m>>] = counterEnds[<<p, m>>]
      BY <2>3, <1>1, <1>2 DEF Counters
    <3>2. QED
      BY <3>1 DEF QInv, EndsAfterMonth
  <2>4. QED
    BY <2>2, <2>3
<1>4. OpenedInMonth'
  BY <1>1, <1>2 DEF QInv, OpenedInMonth, Verdict
<1>5. BelowCounter'
  BY <1>1 DEF QInv, BelowCounter, Over
<1>6. CountersExpire'
  <2> SUFFICES ASSUME NEW p \in Projects, NEW m \in Months, counter[<<p, m>>] # 0,
                      counterEnds'[<<p, m>>] = Never
               PROVE \E s \in Attempts(p, m)' : ticket'[s] = 1 /\ pc'[s] \in {"first", "cut"}
    BY <1>1 DEF CountersExpire
  <2>1. <<p, m>> # <<project[r], month[r]>> /\ counterEnds[<<p, m>>] = Never
    <3>1. time + CounterTTL # Never
      BY <1>2, NullAssumption, CalendarAssumption, ClockAssumption
    <3>2. QED
      BY <3>1, <1>1, <1>2 DEF Counters
  <2>2. PICK s \in Attempts(p, m) : ticket[s] = 1 /\ pc[s] \in {"first", "cut"}
    BY <2>1 DEF QInv, CountersExpire
  <2>3. s # r /\ s \in Requests
    BY <2>1, <2>2 DEF Attempts
  <2>4. s \in Attempts(p, m)'
    BY <2>2, AttemptsKept
  <2>5. QED
    BY <2>2, <2>3, <2>4, <1>1, <1>2
<1>7. QED
  BY <1>1, <1>3, <1>4, <1>5, <1>6, CountedKept, DistinctKept DEF QInv

LEMMA QInvTick == ASSUME QInv, TInv', KeepsTickets, Tick PROVE QInv'
<1> DEFINE gone == {x \in Counters : counterEnds[x] # Never /\ counterEnds[x] <= time + 1}
<1>1. /\ time' = time + 1 /\ time < Horizon /\ time \in 0 .. Horizon
      /\ counter' = [x \in Counters |-> IF x \in gone THEN 0 ELSE counter[x]]
      /\ counterEnds' = [x \in Counters |-> IF x \in gone THEN Never ELSE counterEnds[x]]
      /\ pc' = pc /\ project' = project /\ month' = month /\ ticket' = ticket
      /\ counterEnds \in [Counters -> Nat \cup {Never}]
  BY DEF Tick, QInv, TInv, TypeOK, context, count
<1>2. EndsAfterMonth'
  <2> SUFFICES ASSUME NEW p \in Projects, NEW m \in Months, counterEnds'[<<p, m>>] # Never
               PROVE Over(m, counterEnds'[<<p, m>>])
    BY DEF EndsAfterMonth, Over
  <2>1. counterEnds'[<<p, m>>] = counterEnds[<<p, m>>]
    BY <1>1 DEF Counters
  <2>2. QED
    BY <2>1 DEF QInv, EndsAfterMonth
<1>3. OpenedInMonth'
  <2> SUFFICES ASSUME NEW r \in Requests, pc[r] = "first"
               PROVE \E u \in 0 .. time' : \E e \in Errors : month[r] = MonthOf[u + e]
    BY <1>1 DEF OpenedInMonth
  <2>1. PICK u \in 0 .. time, e \in Errors : month[r] = MonthOf[u + e]
    BY DEF QInv, OpenedInMonth
  <2>2. u \in 0 .. time'
    BY <1>1
  <2>3. QED
    BY <2>1, <2>2
<1>4. BelowCounter'
  <2> SUFFICES ASSUME NEW r \in Requests, ticket[r] # 0
               PROVE \/ ticket[r] <= counter'[<<project[r], month[r]>>]
                     \/ Over(month[r], time + 1)
    BY <1>1 DEF BelowCounter, Over
  <2>1. /\ project[r] \in Projects /\ month[r] \in Months
        /\ <<project[r], month[r]>> \in Counters
    BY TicketPlace DEF QInv
  <2>2. CASE Over(month[r], time)
    BY <2>2, <1>1, OverLater
  <2>3. CASE <<project[r], month[r]>> \in gone
    <3>1. /\ counterEnds[<<project[r], month[r]>>] \in Int
          /\ counterEnds[<<project[r], month[r]>>] <= time + 1
      BY <2>1, <2>3, <1>1
    <3>2. Over(month[r], counterEnds[<<project[r], month[r]>>])
      BY <2>1, <2>3 DEF QInv, EndsAfterMonth
    <3>3. QED
      BY <3>1, <3>2, <1>1, OverLater
  <2>4. CASE ~Over(month[r], time) /\ <<project[r], month[r]>> \notin gone
    BY <2>1, <2>4, <1>1 DEF QInv, BelowCounter
  <2>5. QED
    BY <2>2, <2>3, <2>4
<1>5. CountersExpire'
  <2> SUFFICES ASSUME NEW p \in Projects, NEW m \in Months, counter'[<<p, m>>] # 0,
                      counterEnds'[<<p, m>>] = Never
               PROVE \E s \in Attempts(p, m)' : ticket'[s] = 1 /\ pc'[s] \in {"first", "cut"}
    BY DEF CountersExpire
  <2>1. counter[<<p, m>>] # 0 /\ counterEnds[<<p, m>>] = Never
    BY <1>1 DEF Counters
  <2>2. PICK s \in Attempts(p, m) : ticket[s] = 1 /\ pc[s] \in {"first", "cut"}
    BY <2>1 DEF QInv, CountersExpire
  <2>3. s \in Attempts(p, m)'
    BY <2>2, AttemptsKept
  <2>4. QED
    BY <2>2, <2>3, <1>1
<1>6. \A x \in Counters : counter'[x] = counter[x] \/ counter'[x] = 0
  BY <1>1
<1>7. QED
  BY <1>2, <1>3, <1>4, <1>5, <1>6, CountedKept, DistinctKept DEF QInv

(* The steps that touch no counter.                                        *)
Beside ==
  /\ KeepsTickets
  /\ UNCHANGED <<time, counter, counterEnds>>
  /\ \A r \in Requests : pc'[r] = "first" => pc[r] = "first"
  /\ \A r \in Requests : ticket[r] # 0 /\ pc[r] \in {"first", "cut"} => pc'[r] \in {"first", "cut"}

LEMMA QInvBeside == ASSUME QInv, TInv', Beside PROVE QInv'
<1>1. /\ UNCHANGED <<time, counter, counterEnds, month, ticket>>
      /\ \A r \in Requests : ticket[r] # 0 => project'[r] = project[r]
  BY DEF Beside, KeepsTickets, count
<1>2. EndsAfterMonth'
  BY <1>1 DEF QInv, EndsAfterMonth, Over
<1>3. OpenedInMonth'
  BY <1>1 DEF QInv, OpenedInMonth, Beside
<1>4. BelowCounter'
  BY <1>1 DEF QInv, BelowCounter, Over
<1>5. CountersExpire'
  <2> SUFFICES ASSUME NEW p \in Projects, NEW m \in Months, counter[<<p, m>>] # 0,
                      counterEnds[<<p, m>>] = Never
               PROVE \E s \in Attempts(p, m)' : ticket'[s] = 1 /\ pc'[s] \in {"first", "cut"}
    BY <1>1 DEF CountersExpire
  <2>1. PICK s \in Attempts(p, m) : ticket[s] = 1 /\ pc[s] \in {"first", "cut"}
    BY DEF QInv, CountersExpire
  <2>2. s \in Requests /\ s \in Attempts(p, m)'
    BY <2>1, AttemptsKept DEF Attempts, Beside
  <2>3. QED
    BY <2>1, <2>2, <1>1 DEF Beside
<1>6. QED
  BY <1>1, <1>2, <1>3, <1>4, <1>5, CountedKept, DistinctKept DEF QInv, Beside

LEMMA QInvStep == ASSUME QInv, [Next]_vars PROVE QInv'
<1>1. TInv /\ TInv'
  BY TInvStep DEF QInv
<1>2. ASSUME NEW r \in Requests, Count(r) PROVE QInv'
  <2>1. PICK p \in Projects, m \in Months, n \in Nat \ {0} : CountsAs(r, p, m, n)
    BY <1>1, <1>2, CountCounts
  <2>2. QED
    BY <1>1, <2>1, QInvCount
<1>3. CASE KeepsTickets
  <2>1. ASSUME NEW r \in Requests, SetExpiry(r) PROVE QInv'
    BY <1>1, <1>3, <2>1, QInvExpiry
  <2>2. CASE Tick
    BY <1>1, <1>3, <2>2, QInvTick
  <2>3. ASSUME \/ \E r \in Requests :
                    \/ \E p \in Projects : Validate(r, p)
                    \/ Refuse(r) \/ TakeToken(r) \/ Forward(r) \/ Cut(r)
               \/ \E c \in Caps \cup {NoCap} : SetCap(c)
               \/ \E b \in BOOLEAN : SetStatus(b) \/ StripeEvent(b)
               \/ UNCHANGED vars
        PROVE Beside
    <3>1. UNCHANGED <<time, counter, counterEnds>>
      BY <2>3 DEF Validate, Refuse, TakeToken, Forward, Cut, SetCap, SetStatus, StripeEvent,
         vars, counters
    <3>2. /\ \A r \in Requests : pc'[r] = "first" => pc[r] = "first"
          /\ \A r \in Requests : pc[r] \in {"first", "cut"} => pc'[r] \in {"first", "cut"}
      <4>1. pc \in [Requests -> Stages]
        BY <1>1 DEF TInv, TypeOK
      <4>2. QED
        BY <2>3, <4>1 DEF Validate, Refuse, TurnAway, TakeToken, Forward, Cut, Goto, SetCap,
           SetStatus, StripeEvent, vars
    <3>3. QED
      BY <1>3, <3>1, <3>2 DEF Beside
  <2>4. QED
    BY <1>1, <2>1, <2>2, <2>3, QInvBeside, <1>2 DEF Next, Serve
<1>4. QED
  BY <1>1, <1>2, <1>3, OthersKeepTickets

(* Tickets are distinct values of the counter and no passed one is above   *)
(* the limit it was compared with, so that they cannot all be below the    *)
(* number of the requests that passed.                                     *)
LEMMA QuotaFollows == QInv => QuotaHolds
<1> SUFFICES ASSUME QInv, NEW p \in Projects, NEW m \in Months, Passed(p, m) # {},
                    \A r \in Passed(p, m) : ~(Cardinality(Passed(p, m)) <= lim[r])
             PROVE FALSE
  BY DEF QuotaHolds
<1> DEFINE P == Passed(p, m)
           N == Cardinality(P)
           f == [r \in P |-> ticket[r]]
<1>1. P \subseteq Requests /\ IsFiniteSet(P) /\ N \in Nat
  BY RequestsAssumption, FS_Subset, FS_CardinalityType DEF Passed, Attempts
<1>2. N # 0
  BY <1>1, FS_EmptySet
<1>3. \A r \in P : ticket[r] \in Nat \ {0} /\ ticket[r] <= lim[r] /\ lim[r] \in Int
  BY <1>1 DEF Passed, Attempts, QInv, TInv, StageOK, TypeOK
<1>4. \A r \in P : ticket[r] \in 1 .. (N - 1)
  BY <1>1, <1>3
<1>5. \A r, q \in P : ticket[r] = ticket[q] => r = q
  BY <1>1, <1>3 DEF Passed, Attempts, QInv, TicketsDistinct
<1>6. f \in Injection(P, 1 .. (N - 1))
  BY <1>4, <1>5 DEF Injection, IsInjective
<1>7. \A n \in Nat \ {0} : IsFiniteSet(1 .. (n - 1)) /\ Cardinality(1 .. (n - 1)) = n - 1
  <2> TAKE n \in Nat \ {0}
  <2>1. n - 1 \in Int /\ 1 \in Int
    OBVIOUS
  <2>2. /\ IsFiniteSet(1 .. (n - 1))
        /\ Cardinality(1 .. (n - 1)) = IF 1 > n - 1 THEN 0 ELSE (n - 1) - 1 + 1
    BY <2>1, FS_Interval
  <2>3. QED
    BY <2>2
<1>8. IsFiniteSet(1 .. (N - 1)) /\ Cardinality(1 .. (N - 1)) = N - 1
  BY <1>1, <1>2, <1>7
<1>9. N <= N - 1
  BY <1>6, <1>8, FS_Injection
<1>10. QED
  BY <1>1, <1>9

LEMMA RefusalFollows == QInv => RefusedOnlyFull
<1> SUFFICES ASSUME QInv, NEW r \in Requests, pc[r] = "over_quota",
                    NEW p, NEW m, p = project[r], m = month[r]
             PROVE Cardinality(Attempts(p, m)) > lim[r]
  BY DEF RefusedOnlyFull
<1>1. ticket[r] # 0 /\ ticket[r] > lim[r] /\ ticket[r] \in Nat /\ lim[r] \in Int
  BY DEF QInv, TInv, StageOK, TypeOK, Uncounted
<1>2. p \in Projects /\ m \in Months /\ r \in Attempts(p, m)
  BY <1>1, TicketPlace DEF QInv, Attempts
<1>3. ticket[r] <= Cardinality(Attempts(p, m))
  BY <1>2 DEF QInv, Counted
<1>4. QED
  BY <1>1, <1>3, AttemptsFinite

LEMMA QInvHolds == Spec => []QInv
  BY QInvInit, QInvStep, PTL DEF Spec

(* In a month no more requests of a project pass than the highest limit    *)
(* one of them was validated with.                                         *)
THEOREM QuotaHoldsAlways == Spec => []QuotaHolds
  BY QInvHolds, QuotaFollows, PTL

(* A request over its limit is one of more than that many of its project   *)
(* and month.                                                              *)
THEOREM RefusedOnlyFullHolds == Spec => []RefusedOnlyFull
  BY QInvHolds, RefusalFollows, PTL

(* A counter that never expires was created by a request that died before  *)
(* EXPIRE.                                                                 *)
THEOREM CountersExpireHolds == Spec => []CountersExpire
<1>1. QInv => CountersExpire
  BY DEF QInv
<1>2. QED
  BY QInvHolds, <1>1, PTL

-----------------------------------------------------------------------------
(* The token bucket.                                                       *)

(* The requests given a token at s or later.                               *)
Since(s) == {r \in Requests : granted[r] # Never /\ granted[r] \in s .. Horizon}

GrantedBefore == \A r \in Requests :
  /\ granted[r] # Never => granted[r] <= time
  /\ pc[r] \in {"new", "validated"} => granted[r] = Never

(* Tokens spent since s are missing from the bucket, or were refilled by   *)
(* the clock readings since; a bucket that expires has been refilled.      *)
Spent(s) == Cost * Cardinality(Since(s))
BucketPays == \A s \in 0 .. Horizon : Since(s) # {} =>
  IF bucket = NoBucket THEN Spent(s) <= time - s
  ELSE /\ Spent(s) <= (Capacity - bucket.tokens) + (bucket.last - s) + Behind
       /\ Spent(s) <= bucket.ends - s

BInv == TInv /\ GrantedBefore /\ BucketPays /\ BurstBounded

(* A step that gives request r a token.                                    *)
Grants(r, e) ==
  /\ granted[r] = Never
  /\ Refilled(time + e) >= Cost
  /\ bucket' = [tokens |-> Refilled(time + e) - Cost, last |-> time + e,
                ends |-> time + Capacity + Idle]
  /\ granted' = [granted EXCEPT ![r] = time]
  /\ UNCHANGED time

LEMMA SinceFinite == ASSUME NEW s
  PROVE IsFiniteSet(Since(s)) /\ Cardinality(Since(s)) \in Nat
  BY RequestsAssumption, FS_Subset, FS_CardinalityType DEF Since

LEMMA CostOfOneMore == ASSUME NEW n \in Nat
  PROVE Cost * (n + 1) = Cost * n + Cost /\ Cost * n \in Int
  BY BucketAssumption

LEMMA SpentTyped == ASSUME NEW s PROVE Spent(s) \in Int
  BY SinceFinite, CostOfOneMore DEF Spent

(* A token given now is a further one of every stretch that is not over.   *)
LEMMA GrantSpends ==
  ASSUME TypeOK, GrantedBefore, NEW r \in Requests, NEW e \in Errors, Grants(r, e),
         NEW s \in 0 .. Horizon
  PROVE  IF s <= time THEN Since(s)' = Since(s) \cup {r} /\ Spent(s)' = Spent(s) + Cost
         ELSE Since(s)' = {}
<1>1. /\ time \in 0 .. Horizon /\ Horizon \in Nat /\ Never \notin Int
      /\ granted \in [Requests -> (0 .. Horizon) \cup {Never}]
      /\ granted' = [granted EXCEPT ![r] = time] /\ granted[r] = Never
  BY ClockAssumption, NullAssumption DEF TypeOK, Grants
<1>2. CASE s <= time
  <2>1. Since(s)' = Since(s) \cup {r} /\ r \notin Since(s)
    BY <1>1, <1>2 DEF Since
  <2>2. Cardinality(Since(s)') = Cardinality(Since(s)) + 1
    BY <2>1, SinceFinite, FS_AddElement
  <2>3. Spent(s)' = Spent(s) + Cost
    BY <2>2, SinceFinite, CostOfOneMore DEF Spent
  <2>4. QED
    BY <1>2, <2>1, <2>3
<1>3. CASE ~(s <= time)
  <2>1. \A q \in Requests : granted'[q] # Never => granted'[q] <= time
    BY <1>1 DEF GrantedBefore
  <2>2. Since(s)' = {}
    BY <1>1, <1>3, <2>1 DEF Since
  <2>3. QED
    BY <1>3, <2>2
<1>4. QED
  BY <1>2, <1>3

LEMMA GrantPays ==
  ASSUME BInv, TInv', NEW r \in Requests, NEW e \in Errors, Grants(r, e)
  PROVE  BucketPays'
<1> SUFFICES ASSUME NEW s \in 0 .. Horizon, Since(s)' # {}
             PROVE /\ Spent(s)' <= (Capacity - bucket'.tokens) + (bucket'.last - s) + Behind
                   /\ Spent(s)' <= bucket'.ends - s
                   /\ bucket' # NoBucket
  BY SpentTyped DEF BucketPays, Spent, Since
<1>1. s <= time /\ Spent(s)' = Spent(s) + Cost
  BY GrantSpends DEF BInv, TInv
<1>2. /\ time \in Int /\ s \in Int /\ e \in Int /\ -Behind <= e /\ e <= Ahead
      /\ Capacity \in Int /\ Cost \in Int /\ Idle \in Int /\ Behind \in Int /\ Ahead \in Int
      /\ Idle >= Behind + Ahead /\ Spent(s) \in Int
  BY ClockAssumption, BucketAssumption, SlackAssumption, SpentTyped
  DEF BInv, TInv, TypeOK, Errors
<1>3. /\ bucket'.tokens = Refilled(time + e) - Cost /\ bucket'.last = time + e
      /\ bucket'.ends = time + Capacity + Idle
      /\ Refilled(time + e) \in Int /\ Refilled(time + e) <= Capacity
      /\ Refilled(time + e) >= Cost
  BY ReadingTyped, RefilledTyped DEF Grants, BInv, TInv
<1>4. bucket' # NoBucket
  <2>1. bucket' \in Bucket
    <3>1. Refilled(time + e) - Cost \in 0 .. Capacity
      BY <1>2, <1>3, BucketAssumption
    <3>2. time + Capacity + Idle \in Nat
      BY BucketAssumption DEF BInv, TInv, TypeOK
    <3>3. QED
      BY <3>1, <3>2, ReadingTyped DEF Grants, Bucket, BInv, TInv
  <2>2. QED
    BY <2>1, NullAssumption
<1>5. Spent(s) <= (Capacity - Refilled(time + e)) + (time + e - s) + Behind
  <2>1. CASE Since(s) = {}
    <3>1. Spent(s) = 0
      BY <2>1, FS_EmptySet, BucketAssumption DEF Spent
    <3>2. QED
      BY <3>1, <1>1, <1>2, <1>3
  <2>2. CASE Since(s) # {} /\ bucket = NoBucket
    <3>1. Spent(s) <= time - s /\ Refilled(time + e) = Capacity
      BY <2>2 DEF BInv, BucketPays, Refilled
    <3>2. QED
      BY <3>1, <1>2
  <2>3. CASE Since(s) # {} /\ bucket # NoBucket
    <3>1. Spent(s) <= (Capacity - bucket.tokens) + (bucket.last - s) + Behind
      BY <2>3 DEF BInv, BucketPays
    <3>2. bucket.tokens \in Int /\ bucket.last \in Int
      BY <2>3, ClockAssumption DEF BInv, TInv, TypeOK, Bucket, Readings
    <3>3. Refilled(time + e) <= bucket.tokens + (time + e - bucket.last)
      BY <2>3, <3>2, <1>2 DEF Refilled, Least
    <3>4. QED
      BY <3>1, <3>2, <3>3, <1>2, <1>3
  <2>4. QED
    BY <2>1, <2>2, <2>3
<1>6. QED
  BY <1>1, <1>2, <1>3, <1>4, <1>5

(* The stretch that ends now holds what was granted since its start.       *)
LEMMA GrantBounded ==
  ASSUME BInv, TInv', BucketPays', NEW r \in Requests, NEW e \in Errors, Grants(r, e)
  PROVE  BurstBounded'
<1> SUFFICES ASSUME NEW s \in 0 .. Horizon, NEW t \in 0 .. Horizon, s <= t
             PROVE Cost * Cardinality(Granted(s, t)') <= Capacity + (t - s) + Behind + Ahead
  BY DEF BurstBounded
<1>1. /\ time \in 0 .. Horizon /\ Horizon \in Nat /\ Never \notin Int
      /\ granted \in [Requests -> (0 .. Horizon) \cup {Never}]
      /\ granted' = [granted EXCEPT ![r] = time] /\ granted[r] = Never
  BY ClockAssumption, NullAssumption DEF BInv, TInv, TypeOK, Grants
<1>2. CASE ~(time \in s .. t)
  <2>1. Granted(s, t)' = Granted(s, t)
    BY <1>1, <1>2 DEF Granted
  <2>2. QED
    BY <2>1 DEF BInv, BurstBounded
<1>3. CASE time \in s .. t
  <2>1. \A q \in Requests : granted'[q] # Never => granted'[q] <= time
    BY <1>1 DEF BInv, GrantedBefore
  <2>2. Granted(s, t)' = Since(s)'
    BY <1>1, <1>3, <2>1 DEF Granted, Since
  <2>3. Since(s)' # {}
    BY <1>1, <1>3 DEF Since
  <2>4. bucket' # NoBucket => Spent(s)' <= (Capacity - bucket'.tokens) + (bucket'.last - s) + Behind
    BY <2>3 DEF BucketPays, Spent, Since
  <2>5. bucket' \in Bucket /\ bucket' # NoBucket
    <3>1. bucket' \in Bucket \cup {NoBucket}
      BY DEF TInv, TypeOK
    <3>2. bucket'.last = time + e /\ bucket' = [tokens |-> Refilled(time + e) - Cost,
            last |-> time + e, ends |-> time + Capacity + Idle]
      BY DEF Grants
    <3>3. bucket' \in Bucket
      <4>1. Refilled(time + e) \in Int /\ Refilled(time + e) <= Capacity
            /\ Refilled(time + e) >= Cost
        BY ReadingTyped, RefilledTyped DEF BInv, TInv, Grants
      <4>2. Refilled(time + e) - Cost \in 0 .. Capacity
        BY <4>1, BucketAssumption
      <4>3. time + Capacity + Idle \in Nat
        BY <1>1, BucketAssumption
      <4>4. QED
        BY <3>2, <4>2, <4>3, ReadingTyped DEF Bucket, BInv, TInv
    <3>4. QED
      BY <3>3, NullAssumption
  <2>6. /\ bucket'.last = time + e /\ e <= Ahead /\ time <= t /\ bucket'.tokens >= 0
        /\ bucket'.tokens \in Int /\ e \in Int /\ t \in Int /\ s \in Int
    BY <1>3, <2>5, BucketAssumption, ClockAssumption DEF Grants, Errors, Bucket
  <2>7. Spent(s)' = Cost * Cardinality(Granted(s, t)') /\ Spent(s)' \in Int
    <3>1. Since(s)' \subseteq Requests
      BY DEF Since
    <3>2. Cardinality(Since(s)') \in Nat
      BY <3>1, RequestsAssumption, FS_Subset, FS_CardinalityType
    <3>3. Spent(s)' = Cost * Cardinality(Since(s)')
      BY DEF Spent
    <3>4. QED
      BY <2>2, <3>2, <3>3, CostOfOneMore
  <2>8. QED
    BY <1>1, <2>4, <2>5, <2>6, <2>7, ClockAssumption, BucketAssumption
<1>4. QED
  BY <1>2, <1>3

LEMMA BInvInit == Init => BInv
<1> SUFFICES ASSUME Init PROVE BInv
  OBVIOUS
<1>1. \A r \in Requests : granted[r] = Never
  BY DEF Init
<1>2. GrantedBefore
  BY <1>1 DEF GrantedBefore
<1>3. BucketPays
  BY <1>1 DEF BucketPays, Since
<1>4. BurstBounded
  <2> SUFFICES ASSUME NEW s \in 0 .. Horizon, NEW t \in 0 .. Horizon, s <= t
               PROVE Cost * Cardinality(Granted(s, t)) <= Capacity + (t - s) + Behind + Ahead
    BY DEF BurstBounded
  <2>1. Granted(s, t) = {}
    BY <1>1 DEF Granted
  <2>2. Cost * Cardinality(Granted(s, t)) = 0
    BY <2>1, FS_EmptySet, BucketAssumption
  <2>3. QED
    BY <2>2, BucketAssumption, ClockAssumption
<1>5. QED
  BY <1>2, <1>3, <1>4, TInvInit DEF BInv

LEMMA BInvStep == ASSUME BInv, [Next]_vars PROVE BInv'
<1>1. TInv /\ TInv'
  BY TInvStep DEF BInv
<1>2. /\ time \in 0 .. Horizon /\ pc \in [Requests -> Stages]
      /\ granted \in [Requests -> (0 .. Horizon) \cup {Never}]
      /\ Horizon \in Nat /\ Never \notin Int
  BY <1>1, ClockAssumption, NullAssumption DEF TInv, TypeOK
<1>3. ASSUME NEW r \in Requests, NEW e \in Errors, Grants(r, e), Goto(r, "granted") PROVE BInv'
  <2>1. BucketPays'
    BY <1>1, <1>3, GrantPays
  <2>2. BurstBounded'
    BY <1>1, <1>3, <2>1, GrantBounded
  <2>3. GrantedBefore'
    BY <1>2, <1>3 DEF Grants, Goto, BInv, GrantedBefore
  <2>4. QED
    BY <1>1, <2>1, <2>2, <2>3 DEF BInv
<1>4. ASSUME UNCHANGED granted,
             \A r \in Requests : pc'[r] \in {"new", "validated"} => pc[r] \in {"new", "validated"},
             UNCHANGED <<time, bucket>> \/ Tick
      PROVE BInv'
  <2>1. BurstBounded'
    BY <1>4 DEF BInv, BurstBounded, Granted
  <2>2. GrantedBefore'
    <3>1. time' \in Int /\ time <= time'
      BY <1>2, <1>4 DEF Tick
    <3>2. QED
      BY <1>2, <1>4, <3>1 DEF BInv, GrantedBefore
  <2>3. BucketPays'
    <3>1. \A s \in 0 .. Horizon : Spent(s)' = Spent(s) /\ Since(s)' = Since(s) /\ Spent(s) \in Int
      BY <1>4, SpentTyped DEF Spent, Since
    <3>2. CASE UNCHANGED <<time, bucket>>
      BY <3>1, <3>2 DEF BInv, BucketPays
    <3>3. CASE Tick
      <4> SUFFICES ASSUME NEW s \in 0 .. Horizon, Since(s) # {}
                   PROVE IF bucket' = NoBucket THEN Spent(s) <= time' - s
                         ELSE /\ Spent(s) <= (Capacity - bucket'.tokens) + (bucket'.last - s) + Behind
                              /\ Spent(s) <= bucket'.ends - s
        BY <3>1 DEF BucketPays
      <4>1. time' = time + 1 /\ s \in Int /\ Spent(s) \in Int
        BY <3>1, <3>3 DEF Tick
      <4>2. CASE bucket = NoBucket
        BY <1>2, <3>3, <4>1, <4>2 DEF Tick, BInv, BucketPays
      <4>3. CASE bucket # NoBucket /\ bucket.ends <= time + 1
        <5>1. bucket' = NoBucket /\ bucket.ends \in Int /\ Spent(s) <= bucket.ends - s
          BY <1>1, <3>3, <4>3 DEF Tick, BInv, BucketPays, TInv, TypeOK, Bucket
        <5>2. QED
          BY <1>2, <4>1, <4>3, <5>1
      <4>4. CASE bucket # NoBucket /\ ~(bucket.ends <= time + 1)
        BY <3>3, <4>4 DEF Tick, BInv, BucketPays
      <4>5. QED
        BY <4>2, <4>3, <4>4
    <3>4. QED
      BY <1>4, <3>2, <3>3
  <2>4. QED
    BY <1>1, <2>1, <2>2, <2>3 DEF BInv
<1>5. ASSUME NEW r \in Requests, TakeToken(r) PROVE BInv'
  <2>1. pc[r] = "validated" /\ granted[r] = Never /\ UNCHANGED time
    BY <1>5 DEF TakeToken, BInv, GrantedBefore
  <2>2. PICK e \in Errors :
          \/ /\ Refilled(time + e) >= Cost
             /\ bucket' = [tokens |-> Refilled(time + e) - Cost, last |-> time + e,
                           ends |-> time + Capacity + Idle]
             /\ granted' = [granted EXCEPT ![r] = time]
             /\ Goto(r, "granted")
          \/ TurnAway(r) /\ UNCHANGED <<bucket, granted>>
    BY <1>5 DEF TakeToken
  <2>3. CASE TurnAway(r) /\ UNCHANGED <<bucket, granted>>
    BY <1>2, <1>4, <2>1, <2>3 DEF TurnAway, Goto
  <2>4. QED
    BY <1>3, <2>1, <2>2, <2>3 DEF Grants
<1>6. ASSUME NEW r \in Requests,
             \/ \E p \in Projects : Validate(r, p)
             \/ Refuse(r) \/ Count(r) \/ SetExpiry(r) \/ Forward(r) \/ Cut(r)
      PROVE BInv'
  <2>1. UNCHANGED <<granted, time, bucket>>
    BY <1>6 DEF Validate, Refuse, Count, SetExpiry, Forward, Cut
  <2>2. \A q \in Requests : pc'[q] \in {"new", "validated"} => pc[q] \in {"new", "validated"}
    BY <1>2, <1>6 DEF Validate, Refuse, TurnAway, Count, SetExpiry, Forward, Cut, Goto, Verdict
  <2>3. QED
    BY <1>4, <2>1, <2>2
<1>7. ASSUME \/ Tick
             \/ \E c \in Caps \cup {NoCap} : SetCap(c)
             \/ \E b \in BOOLEAN : SetStatus(b) \/ StripeEvent(b)
             \/ UNCHANGED vars
      PROVE BInv'
  <2>1. pc' = pc /\ granted' = granted /\ (Tick \/ UNCHANGED <<time, bucket>>)
    BY <1>7 DEF Tick, SetCap, SetStatus, StripeEvent, vars
  <2>2. QED
    BY <1>4, <2>1
<1>8. QED
  BY <1>5, <1>6, <1>7 DEF Next, Serve

(* However requests interleave and clocks differ, a stretch of time is     *)
(* given no more tokens than the bucket holds and the stretch refills, up  *)
(* to the difference of the clocks.                                        *)
THEOREM BurstBoundedHolds == Spec => []BurstBounded
<1>1. BInv => BurstBounded
  BY DEF BInv
<1>2. QED
  BY BInvInit, BInvStep, <1>1, PTL DEF Spec

=============================================================================
