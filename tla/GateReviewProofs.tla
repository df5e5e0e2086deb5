--------------------------- MODULE GateReviewProofs ---------------------------
(***************************************************************************)
(* Theorems about GateReview, for any number of reviewers, any policies    *)
(* and any time the SDK is ready to wait.                                  *)
(***************************************************************************)
EXTENDS GateReview, TLAPS

(* The SDK has polls left for as long as it polls.                         *)
PollsLeft ==
  /\ stage \in {"policy", "recording"} => polls = 0 /\ sdk # "polling"
  /\ sdk = "polling" => polls < MaxPolls

(* A history that is not empty has a latest entry.                         *)
HasLatest == history = {} \/ Latest # {}

TInv == TypeOK /\ PollsLeft /\ HasLatest

-----------------------------------------------------------------------------
LEMMA CurrentStateTyped == ASSUME TypeOK, HasLatest
  PROVE /\ CurrentState \in ReviewStates
        /\ history # {} => \E e \in history : CurrentState = e.state
<1>1. CASE history = {}
  BY <1>1 DEF CurrentState, ReviewStates
<1>2. CASE history # {}
  <2>1. (CHOOSE e \in Latest : TRUE) \in Latest
    BY <1>2 DEF HasLatest
  <2>2. Latest \subseteq history /\ history \subseteq Entry
    BY DEF Latest, TypeOK
  <2>3. QED
    BY <1>2, <2>1, <2>2 DEF CurrentState, Entry
<1>3. QED
  BY <1>1, <1>2

LEMMA AllowedTyped == ASSUME NEW from \in ReviewStates
  PROVE Allowed(from) \subseteq ReviewStates \ {"unreviewed"}
  BY DEF Allowed, ReviewStates, Terminal

(* An entry that is added leaves the history with a latest one.            *)
LEMMA RecordKeepsLatest ==
  ASSUME HasLatest, history \subseteq Entry, NEW e \in Entry, history' = history \cup {e}
  PROVE  HasLatest'
<1>1. e.stamp \in Nat /\ \A f \in history : f.stamp \in Nat
  BY DEF Entry
<1>2. CASE \A f \in history : f.stamp <= e.stamp
  BY <1>1, <1>2 DEF HasLatest, Latest
<1>3. CASE \E f \in history : ~(f.stamp <= e.stamp)
  <2>1. PICK g \in history : \A f \in history : f.stamp <= g.stamp
    BY <1>3 DEF HasLatest, Latest
  <2>2. e.stamp <= g.stamp
    BY <1>1, <1>3, <2>1
  <2>3. QED
    BY <2>1, <2>2 DEF HasLatest, Latest
<1>4. QED
  BY <1>2, <1>3

(* Only a commit adds to the history, and it adds one entry of its own.    *)
Adds(c, by, state) ==
  /\ call[c] = "open"
  /\ state \in ReviewStates
  /\ by \in {c, ByAI}
  /\ history' = history \cup {[state |-> state, stamp |-> stamp[c], by |-> by]}

LEMMA AskTyped == ASSUME TypeOK, NEW r \in Reviewers, ask[r][1] = "resolve"
  PROVE ask[r][2] \in Verdicts
  BY AsksAssumption DEF TypeOK, Ask

LEMMA CommitAdds == ASSUME TypeOK, NEW c \in Calls, Commit(c)
  PROVE UNCHANGED history \/ \E by : \E state : Adds(c, by, state)
<1>1. ASSUME CommitAction(c) PROVE \E by : \E state : Adds(c, by, state)
  BY <1>1 DEF CommitAction, Record, RecordAs, Adds, ReviewStates, Terminal
<1>2. ASSUME c = Intake, CommitIntake PROVE \E by : \E state : Adds(c, by, state)
  BY <1>2 DEF CommitIntake, Record, RecordAs, Adds, ReviewStates, Terminal, TypeOK
<1>3. ASSUME NEW r \in Reviewers, c = <<"reviewer", r>>, CommitReview(r)
      PROVE UNCHANGED history \/ \E by : \E state : Adds(c, by, state)
  BY <1>3, AllowedTyped DEF CommitReview, Record, RecordAs, Adds, TypeOK
<1>4. ASSUME NEW r \in Reviewers, c = <<"reviewer", r>>, CommitResolve(r)
      PROVE UNCHANGED history \/ \E by : \E state : Adds(c, by, state)
  BY <1>4 DEF CommitResolve, Record, RecordAs, Adds, governance, StateOf, ReviewStates,
     Terminal
<1>5. QED
  BY <1>1, <1>2, <1>3, <1>4 DEF Commit

LEMMA OnlyCommitsAdd == ASSUME TypeOK, [Next]_vars
  PROVE UNCHANGED history \/ \E c \in Calls : \E by : \E state : Adds(c, by, state)
<1>1. ASSUME NEW c \in Calls, Commit(c)
      PROVE UNCHANGED history \/ \E by : \E state : Adds(c, by, state)
  BY <1>1, CommitAdds
<1>2. QED
  BY <1>1 DEF Next, System, vars, governance, Evaluate, EvaluateFails, Answer,
     AnswerFails, Emit, EmitGivesUp, EmitEnds, SendIntake, Begin, Lose, Submit, Poll

LEMMA CommitTyped == ASSUME TypeOK, NEW c \in Calls, Commit(c)
  PROVE /\ queued' \in BOOLEAN /\ resolution' \in Verdicts \cup {"none"}
        /\ Close(c) /\ UNCHANGED <<recorder, client>>
<1>1. ASSUME CommitAction(c) PROVE queued' \in BOOLEAN
  BY <1>1 DEF CommitAction, TypeOK
<1>2. ASSUME NEW r \in Reviewers, CommitReview(r) PROVE queued' \in BOOLEAN
  BY <1>2 DEF CommitReview, TypeOK
<1>3. ASSUME NEW r \in Reviewers, CommitResolve(r)
      PROVE queued' \in BOOLEAN /\ resolution' \in Verdicts \cup {"none"}
  BY <1>3, AskTyped DEF CommitResolve, TypeOK, governance
<1>4. QED
  BY <1>1, <1>2, <1>3 DEF Commit, CommitAction, CommitIntake, CommitReview,
     CommitResolve, TypeOK

LEMMA EndTyped == ASSUME TypeOK, NEW c \in Calls, NEW how \in CallStages, End(c, how)
  PROVE /\ call' \in [Calls -> CallStages] /\ read' \in [Calls -> ReviewStates]
        /\ found' \in [Calls -> BOOLEAN]
        /\ stamp' \in [Calls -> Nat] /\ UNCHANGED <<ask, clock>>
  BY DEF End, TypeOK, ReviewStates

LEMMA SendTyped == ASSUME TypeOK, NEW C, Send(C)
  PROVE call' \in [Calls -> CallStages] /\ UNCHANGED <<read, found, stamp, ask, clock>>
  BY DEF Send, TypeOK, CallStages

LEMMA TypeStep == ASSUME TInv, [Next]_vars PROVE TypeOK'
<1> USE DEF TInv
<1>1. CASE Evaluate
  BY <1>1, SendTyped DEF Evaluate, TypeOK, governance, client, Stages
<1>2. CASE EvaluateFails
  BY <1>2, SendTyped DEF EvaluateFails, TypeOK, governance, client, Stages
<1>3. CASE Answer
  BY <1>3 DEF Answer, TypeOK, calls, governance, Stages, Background
<1>4. CASE AnswerFails
  BY <1>4 DEF AnswerFails, TypeOK, calls, governance, Stages, Background
<1>5. ASSUME NEW a \in Blocking, Emit(a) PROVE TypeOK'
  BY <1>5, SendTyped DEF Emit, TypeOK, governance, client
<1>6. CASE EmitGivesUp
  BY <1>6 DEF EmitGivesUp, TypeOK, calls, governance, client, Stages
<1>7. CASE EmitEnds
  BY <1>7 DEF EmitEnds, TypeOK, calls, governance, client, Stages
<1>8. CASE SendIntake
  BY <1>8, SendTyped DEF SendIntake, TypeOK, governance, client, Stages
<1>9. ASSUME NEW c \in Calls, Begin(c) PROVE TypeOK'
  BY <1>9, CurrentStateTyped
     DEF Begin, TypeOK, recorder, governance, client, CallStages
<1>10. ASSUME NEW c \in Calls, Commit(c) PROVE TypeOK'
  <2>1. history' \subseteq Entry
    BY <1>10, CommitAdds DEF Adds, Entry, TypeOK
  <2>2. QED
    BY <1>10, <2>1, CommitTyped, EndTyped
       DEF TypeOK, Close, recorder, client, CallStages
<1>11. ASSUME NEW c \in Calls, Lose(c) PROVE TypeOK'
  BY <1>11, EndTyped DEF Lose, TypeOK, governance, client, CallStages
<1>12. ASSUME NEW r \in Reviewers, NEW a \in Asks, Submit(r, a) PROVE TypeOK'
  BY <1>12 DEF Submit, TypeOK, recorder, governance, client, CallStages
<1>13. CASE Poll
  <2>1. polls' \in 0 .. MaxPolls
    BY <1>13, PollsAssumption DEF Poll, TypeOK, PollsLeft
  <2>2. QED
    BY <1>13, <2>1 DEF Poll, TypeOK, recorder, calls, governance, Verdicts
<1>14. CASE UNCHANGED vars
  BY <1>14 DEF vars, TypeOK, recorder, calls, governance, client
<1>15. QED
  BY <1>1, <1>2, <1>3, <1>4, <1>5, <1>6, <1>7, <1>8, <1>9, <1>10, <1>11, <1>12,
     <1>13, <1>14 DEF Next, System

LEMMA PollsStep == ASSUME TInv, [Next]_vars PROVE PollsLeft'
<1> USE DEF TInv, PollsLeft, TypeOK
<1>1. CASE Poll
  BY <1>1, PollsAssumption DEF Poll, recorder
<1>2. CASE Answer \/ AnswerFails
  BY <1>2, PollsAssumption DEF Answer, AnswerFails, Background
<1>3. ASSUME NEW c \in Calls, Commit(c) PROVE PollsLeft'
  BY <1>3, CommitTyped DEF recorder, client
<1>4. ASSUME UNCHANGED client, stage' \notin {"policy", "recording"} \/ stage = "policy"
      PROVE PollsLeft'
  BY <1>4 DEF client
<1>5. QED
  BY <1>1, <1>2, <1>3, <1>4 DEF Next, System, Evaluate, EvaluateFails, Emit,
     EmitGivesUp, EmitEnds, SendIntake, Begin, Lose, Submit, vars, recorder, client

LEMMA TInvStep == ASSUME TInv, [Next]_vars PROVE TInv'
<1>1. TypeOK' /\ PollsLeft'
  BY TypeStep, PollsStep
<1>2. HasLatest'
  <2>1. CASE UNCHANGED history
    BY <2>1 DEF TInv, HasLatest, Latest
  <2>2. ASSUME NEW c \in Calls, NEW by, NEW state, Adds(c, by, state) PROVE HasLatest'
    <3>1. [state |-> state, stamp |-> stamp[c], by |-> by] \in Entry
      BY <2>2 DEF Adds, Entry, TInv, TypeOK
    <3>2. QED
      BY <2>2, <3>1, RecordKeepsLatest DEF Adds, TInv, TypeOK
  <2>3. QED
    BY <2>1, <2>2, OnlyCommitsAdd DEF TInv
<1>3. QED
  BY <1>1, <1>2 DEF TInv

LEMMA TypeInit == ASSUME Init PROVE TInv
<1>1. PollsLeft /\ HasLatest
  BY PollsAssumption DEF Init, PollsLeft, HasLatest
<1>2. polls \in 0 .. MaxPolls /\ clock \in Nat \ {0}
  BY PollsAssumption DEF Init
<1>3. /\ call \in [Calls -> CallStages] /\ read \in [Calls -> ReviewStates]
      /\ found \in [Calls -> BOOLEAN]
      /\ stamp \in [Calls -> Nat]
      /\ ask \in [Reviewers -> Asks \cup {<<"none", "none">>}]
  BY DEF Init, CallStages, ReviewStates
<1>4. QED
  BY <1>1, <1>2, <1>3 DEF Init, TInv, TypeOK, Stages

(* The state of a decision's review always has its type; in particular the *)
(* SDK never polls more often than its timeout allows.                     *)
THEOREM TypeCorrect == Spec => []TypeOK
<1>1. TInv => TypeOK
  BY DEF TInv
<1>2. TInv /\ [Next]_vars => TInv'
  BY TInvStep
<1>3. QED
  BY <1>1, <1>2, TypeInit, PTL DEF Spec

-----------------------------------------------------------------------------
(* A reviewer's entry is written by the end of that reviewer's only call.  *)
WrittenOnce == \A e \in history : \A r \in Reviewers :
  e.by = <<"reviewer", r>> => call[<<"reviewer", r>>] = "done"

VInv == TInv /\ WrittenOnce /\ VerdictStands /\ LoserLeavesNoTrace

(* Steps that add nothing to the history, resolve nothing and are no poll. *)
LEMMA QuietKeepsVerdict ==
  ASSUME VInv, UNCHANGED <<governance, heard>>,
         \A r \in Reviewers : call[<<"reviewer", r>>] = "done" =>
           call'[<<"reviewer", r>>] = "done" /\ ask'[r] = ask[r]
  PROVE  WrittenOnce' /\ VerdictStands' /\ LoserLeavesNoTrace'
  BY DEF VInv, WrittenOnce, VerdictStands, LoserLeavesNoTrace, governance

LEMMA CallsApart == ASSUME NEW r \in Reviewers
  PROVE /\ <<"reviewer", r>> \in Calls
        /\ \A c \in PolicyCalls \cup EmitCalls \cup {Intake, ByAI} : c # <<"reviewer", r>>
        /\ \A s \in Reviewers : <<"reviewer", r>> = <<"reviewer", s>> => r = s
  BY DEF Calls, PolicyCalls, EmitCalls, ReviewCalls, Intake, ByAI

LEMMA DoneStays == ASSUME TypeOK, NEW c \in Calls, call[c] # "done", NEW how \in CallStages,
                          call' = [call EXCEPT ![c] = how], UNCHANGED ask
  PROVE \A r \in Reviewers : call[<<"reviewer", r>>] = "done" =>
          call'[<<"reviewer", r>>] = "done" /\ ask'[r] = ask[r]
  BY DEF TypeOK

LEMMA SystemCallKeepsVerdict ==
  ASSUME VInv, NEW c \in Calls, CommitAction(c) \/ (c = Intake /\ CommitIntake)
  PROVE  WrittenOnce' /\ VerdictStands' /\ LoserLeavesNoTrace'
<1>1. UNCHANGED <<resolution, heard, ask>> /\ call[c] = "open"
      /\ call' = [call EXCEPT ![c] = "done"]
  BY DEF CommitAction, CommitIntake, client, Close, End
<1>2. PICK by \in {c, ByAI} : \E state :
        history' = history \cup {[state |-> state, stamp |-> stamp[c], by |-> by]}
  BY DEF CommitAction, CommitIntake, Record, RecordAs
<1>3. c \in PolicyCalls \cup EmitCalls \cup {Intake}
  BY DEF CommitAction
<1>4. \A r \in Reviewers : by # <<"reviewer", r>>
  BY <1>2, <1>3, CallsApart
<1>5. \A r \in Reviewers : call[<<"reviewer", r>>] = "done" =>
        call'[<<"reviewer", r>>] = "done"
  BY <1>1, <1>3, CallsApart DEF VInv, TInv, TypeOK
<1>6. WrittenOnce'
  BY <1>2, <1>4, <1>5 DEF VInv, WrittenOnce
<1>7. LoserLeavesNoTrace'
  <2>1. ASSUME NEW e \in history', NEW r \in Reviewers, e.by = <<"reviewer", r>>
        PROVE e \in history
    BY <1>2, <1>4, <2>1
  <2>2. QED
    BY <1>1, <2>1 DEF VInv, LoserLeavesNoTrace
<1>8. QED
  BY <1>1, <1>6, <1>7 DEF VInv, VerdictStands

LEMMA ReviewKeepsVerdict == ASSUME VInv, NEW r \in Reviewers, CommitReview(r)
  PROVE  WrittenOnce' /\ VerdictStands' /\ LoserLeavesNoTrace'
<1> DEFINE c == <<"reviewer", r>>
<1>1. UNCHANGED <<resolution, heard, ask>> /\ call[c] = "open" /\ ask[r][1] = "review"
      /\ call' = [call EXCEPT ![c] = "done"]
  BY DEF CommitReview, client, Close, End
<1>2. UNCHANGED history \/ \E state :
        history' = history \cup {[state |-> state, stamp |-> stamp[c], by |-> c]}
  BY DEF CommitReview, Record, RecordAs
<1>3. \A s \in Reviewers : call'[<<"reviewer", s>>] =
        IF s = r THEN "done" ELSE call[<<"reviewer", s>>]
  BY <1>1, CallsApart DEF VInv, TInv, TypeOK
<1>4. \A s \in Reviewers : s # r => c # <<"reviewer", s>>
  BY CallsApart
<1>5. WrittenOnce'
  BY <1>2, <1>3, <1>4 DEF VInv, WrittenOnce
<1>6. LoserLeavesNoTrace'
  BY <1>1, <1>2, <1>4 DEF VInv, LoserLeavesNoTrace
<1>7. QED
  BY <1>1, <1>5, <1>6 DEF VInv, VerdictStands

LEMMA ResolveKeepsVerdict == ASSUME VInv, NEW r \in Reviewers, CommitResolve(r)
  PROVE  WrittenOnce' /\ VerdictStands' /\ LoserLeavesNoTrace'
<1> DEFINE c == <<"reviewer", r>>
<1>1. UNCHANGED <<heard, ask>> /\ call[c] = "open" /\ ask[r][1] = "resolve"
      /\ call' = [call EXCEPT ![c] = "done"]
  BY DEF CommitResolve, client, Close, End
<1>2. ask[r][2] \in Verdicts
  BY <1>1, AskTyped DEF VInv, TInv
<1>3. \A s \in Reviewers : call'[<<"reviewer", s>>] =
        IF s = r THEN "done" ELSE call[<<"reviewer", s>>]
  BY <1>1, CallsApart DEF VInv, TInv, TypeOK
<1>4. \A s \in Reviewers : s # r => c # <<"reviewer", s>>
  BY CallsApart
<1>5. CASE UNCHANGED governance
  BY <1>1, <1>3, <1>5 DEF governance, VInv, WrittenOnce, VerdictStands, LoserLeavesNoTrace
<1>6. CASE resolution = "none"
  <2>1. /\ resolution' = ask[r][2] /\ resolution' # "none"
        /\ history' = history \cup
             {[state |-> StateOf(ask[r][2]), stamp |-> stamp[c], by |-> c]}
    BY <1>2, <1>6 DEF CommitResolve, Record, RecordAs, Verdicts
  <2>2. VerdictStands'
    BY <1>1, <1>6 DEF VInv, VerdictStands, Verdicts
  <2>3. WrittenOnce'
    BY <2>1, <1>3, <1>4 DEF VInv, WrittenOnce
  <2>4. ASSUME NEW e \in history, NEW s \in Reviewers, e.by = <<"reviewer", s>>
        PROVE ask[s][1] # "resolve"
    BY <1>6, <2>4 DEF VInv, LoserLeavesNoTrace
  <2>5. LoserLeavesNoTrace'
    BY <1>1, <1>4, <2>1, <2>4 DEF LoserLeavesNoTrace
  <2>6. QED
    BY <2>2, <2>3, <2>5
<1>7. QED
  BY <1>5, <1>6 DEF CommitResolve

LEMMA VInvStep == ASSUME VInv, [Next]_vars PROVE VInv'
<1>1. TInv'
  BY TInvStep DEF VInv
<1>2. TypeOK
  BY DEF VInv, TInv
<1>3. ASSUME UNCHANGED <<governance, heard, ask>>, NEW C,
             C \subseteq PolicyCalls \cup EmitCalls \cup {Intake}, Send(C)
      PROVE VInv'
  <2>1. \A r \in Reviewers : call[<<"reviewer", r>>] = "done" =>
          call'[<<"reviewer", r>>] = "done" /\ ask'[r] = ask[r]
    BY <1>3, CallsApart DEF Send
  <2>2. QED
    BY <1>1, <1>3, <2>1, QuietKeepsVerdict DEF VInv
<1>4. ASSUME UNCHANGED <<governance, heard, call, ask>> PROVE VInv'
  BY <1>1, <1>4, QuietKeepsVerdict DEF VInv
<1>5. ASSUME NEW c \in Calls, call[c] # "done", NEW how \in CallStages,
             call' = [call EXCEPT ![c] = how], UNCHANGED <<governance, heard, ask>>
      PROVE VInv'
  BY <1>1, <1>2, <1>5, DoneStays, QuietKeepsVerdict DEF VInv
<1>6. CASE Evaluate \/ EvaluateFails
  <2>1. {"policy"} \X matched \subseteq PolicyCalls
    BY <1>2, PoliciesAssumption DEF TypeOK, PolicyCalls
  <2>2. UNCHANGED <<governance, heard, ask>> /\ (Send({}) \/ Send({"policy"} \X matched))
    BY <1>6 DEF Evaluate, EvaluateFails, Send, client
  <2>3. QED
    BY <1>3, <2>1, <2>2
<1>7. ASSUME NEW a \in Blocking, Emit(a) PROVE VInv'
  <2>1. {<<"emit", a>>} \subseteq EmitCalls
    BY DEF EmitCalls
  <2>2. QED
    BY <1>3, <1>7, <2>1 DEF Emit, Send, client
<1>8. CASE SendIntake
  BY <1>3, <1>8 DEF SendIntake, Send, client
<1>9. CASE Answer \/ AnswerFails \/ EmitGivesUp \/ EmitEnds
  BY <1>4, <1>9 DEF Answer, AnswerFails, EmitGivesUp, EmitEnds, calls, client
<1>10. ASSUME NEW c \in Calls, Begin(c) PROVE VInv'
  BY <1>5, <1>10 DEF Begin, client, CallStages
<1>11. ASSUME NEW c \in Calls, Lose(c) PROVE VInv'
  BY <1>5, <1>11 DEF Lose, InFlight, End, client, CallStages
<1>12. ASSUME NEW c \in Calls, Commit(c) PROVE VInv'
  BY <1>1, <1>12, SystemCallKeepsVerdict, ReviewKeepsVerdict, ResolveKeepsVerdict
     DEF Commit, VInv
<1>13. ASSUME NEW r \in Reviewers, NEW a \in Asks, Submit(r, a) PROVE VInv'
  <2>1. \A s \in Reviewers : call[<<"reviewer", s>>] = "done" =>
          call'[<<"reviewer", s>>] = "done" /\ ask'[s] = ask[s]
    BY <1>2, <1>13, CallsApart DEF Submit, TypeOK
  <2>2. QED
    BY <1>1, <1>13, <2>1, QuietKeepsVerdict DEF Submit, client, VInv
<1>14. CASE Poll
  <2>1. UNCHANGED <<calls, governance>> /\ (heard' = heard \/ heard' = resolution
                                            \/ heard' = "timeout")
    BY <1>14 DEF Poll
  <2>2. QED
    BY <1>1, <2>1 DEF VInv, WrittenOnce, VerdictStands, LoserLeavesNoTrace, governance,
       calls, Verdicts
<1>15. CASE UNCHANGED vars
  BY <1>4, <1>15 DEF vars, calls, client
<1>16. QED
  BY <1>6, <1>7, <1>8, <1>9, <1>10, <1>11, <1>12, <1>13, <1>14, <1>15
     DEF Next, System

LEMMA VerdictInductive == Spec => []VInv
<1>1. Init => VInv
  BY TypeInit DEF Init, VInv, WrittenOnce, VerdictStands, LoserLeavesNoTrace, Verdicts
<1>2. VInv /\ [Next]_vars => VInv'
  BY VInvStep
<1>3. QED
  BY <1>1, <1>2, PTL DEF Spec

(* The verdict the SDK acted on stays the decision's resolution.           *)
THEOREM VerdictStandsHolds == Spec => []VerdictStands
  BY VerdictInductive, PTL DEF VInv

(* A reviewer who resolved second is not in the history.                   *)
THEOREM LoserLeavesNoTraceHolds == Spec => []LoserLeavesNoTrace
  BY VerdictInductive, PTL DEF VInv

-----------------------------------------------------------------------------
Wanted == matched \cap Blocking
Through == held /\ ~missed

(* Nobody acts on a decision before the policies were asked.               *)
Untouched == stage = "policy" =>
  history = {} /\ ~queued /\ ~held /\ \A c \in Calls : call[c] = "unsent"

(* The blocking actions of a held decision are posted one by one.          *)
Posting == held =>
  /\ Wanted # {}
  /\ stage = "recording" => toEmit = Wanted
  /\ stage = "emitting" /\ ~missed => \A a \in Wanted \ toEmit :
       call[<<"emit", a>>] \in {"sent", "open", "done"}

Noted == \A a \in Blocking : call[<<"emit", a>>] = "done" => history # {}

(* Intake finds a decision that has been escalated or rejected.            *)
Escalated == Through =>
  /\ stage = "intake" \/ call[Intake] # "unsent" => history # {}
  /\ call[Intake] = "open" => read[Intake] # "unreviewed"
  /\ \A e \in history : e.state # "unreviewed" /\ e.by # ByAI

EInv == TInv /\ Untouched /\ Posting /\ Noted /\ Escalated

(* What each step does to the parts of EInv that do not type.              *)
Escalation == Untouched /\ Posting /\ Noted /\ Escalated

LEMMA EmitFacts ==
  /\ Intake \in Calls /\ Intake \notin EmitCalls \cup PolicyCalls
  /\ \A a \in Blocking : <<"emit", a>> \in Calls /\ <<"emit", a>> # Intake
  /\ \A a, b \in Blocking : <<"emit", a>> = <<"emit", b>> => a = b
  /\ \A r \in Reviewers : <<"reviewer", r>> \notin EmitCalls \cup {Intake}
  /\ \A c \in PolicyCalls : c \notin EmitCalls \cup {Intake}
  BY DEF Calls, PolicyCalls, EmitCalls, Intake, Blocking, PolicyActions

LEMMA EvaluateEscalates == ASSUME EInv, Evaluate \/ EvaluateFails PROVE Escalation'
<1> USE DEF EInv, TInv, TypeOK
<1>1. /\ stage = "policy" /\ history' = {} /\ ~held /\ stage' \in {"recording", "intake"}
      /\ matched' = matched
      /\ held' => Wanted # {} /\ stage' = "recording" /\ toEmit' = Wanted
  BY DEF Evaluate, EvaluateFails, Untouched, governance, Wanted
<1>2. \A c \in EmitCalls \cup {Intake} : call'[c] = "unsent"
  <2>1. \A c \in EmitCalls \cup {Intake} : c \in Calls /\ c \notin {"policy"} \X matched
    BY DEF Calls, EmitCalls, Intake
  <2>2. Send({}) \/ Send({"policy"} \X matched)
    BY DEF Evaluate, EvaluateFails
  <2>3. QED
    BY <1>1, <2>1, <2>2 DEF Send, Untouched
<1>3. \A a \in Blocking : <<"emit", a>> \in EmitCalls
  BY DEF EmitCalls
<1>4. QED
  BY <1>1, <1>2, <1>3 DEF Escalation, Untouched, Posting, Noted, Escalated, Through, Wanted

LEMMA RecorderEscalates ==
  ASSUME EInv, Answer \/ AnswerFails \/ EmitGivesUp \/ EmitEnds \/ SendIntake
  PROVE  Escalation'
<1> USE DEF EInv, TInv, TypeOK
<1>1. \A a \in Blocking : <<"emit", a>> \in EmitCalls
  BY DEF EmitCalls
<1>2. CASE Answer \/ AnswerFails
  BY <1>2 DEF Answer, AnswerFails, Background, calls, governance, Escalation, Untouched,
     Posting, Noted, Escalated, Through, Wanted
<1>3. CASE EmitGivesUp
  BY <1>3 DEF EmitGivesUp, calls, governance, Escalation, Untouched, Posting, Noted,
     Escalated, Through, Wanted
<1>4. CASE EmitEnds
  <2>1. Through => history # {}
    BY <1>1, <1>4 DEF EmitEnds, InFlight, Posting, Noted, Through, Wanted
  <2>2. QED
    BY <1>4, <2>1 DEF EmitEnds, calls, governance, Escalation, Untouched, Posting, Noted,
       Escalated, Through, Wanted
<1>5. CASE SendIntake
  <2>1. call'[Intake] = "sent" /\ \A a \in Blocking : call'[<<"emit", a>>] = call[<<"emit", a>>]
    BY <1>5, EmitFacts DEF SendIntake, Send
  <2>2. QED
    BY <1>5, <2>1 DEF SendIntake, Send, governance, Escalation, Untouched, Posting, Noted,
       Escalated, Through, Wanted
<1>6. QED
  BY <1>2, <1>3, <1>4, <1>5

LEMMA EmitEscalates == ASSUME EInv, NEW a \in Blocking, Emit(a) PROVE Escalation'
<1> USE DEF EInv, TInv, TypeOK
<1>1. /\ call'[<<"emit", a>>] = "sent" /\ call'[Intake] = call[Intake]
      /\ \A b \in Blocking \ {a} : call'[<<"emit", b>>] = call[<<"emit", b>>]
  BY EmitFacts DEF Emit, Send
<1>2. /\ stage = "emitting" /\ toEmit' = toEmit \ {a}
      /\ UNCHANGED <<matched, stage, held, missed, history, read>>
  BY DEF Emit, Send, governance
<1>3. QED
  BY <1>1, <1>2 DEF Escalation, Untouched, Posting, Noted, Escalated, Through, Wanted

LEMMA BeginEscalates == ASSUME EInv, NEW c \in Calls, Begin(c) PROVE Escalation'
<1> USE DEF EInv, TInv, TypeOK
<1>1. \A d \in Calls : /\ call'[d] = IF d = c THEN "open" ELSE call[d]
                       /\ read'[d] = IF d = c THEN CurrentState ELSE read[d]
  BY DEF Begin
<1>2. call[c] = "sent" /\ UNCHANGED <<recorder, history, queued>>
  BY DEF Begin, governance
<1>3. Through /\ c = Intake => CurrentState # "unreviewed"
  BY <1>2, CurrentStateTyped DEF Escalated
<1>4. QED
  BY <1>1, <1>2, <1>3, EmitFacts
     DEF recorder, Escalation, Untouched, Posting, Noted, Escalated, Through, Wanted

LEMMA LoseEscalates == ASSUME EInv, NEW c \in Calls, Lose(c) PROVE Escalation'
<1> USE DEF EInv, TInv, TypeOK
<1>1. \A d \in Calls : call'[d] = IF d = c THEN "lost" ELSE call[d]
  BY DEF Lose, End
<1>2. \A d \in Calls \ {c} : read'[d] = read[d]
  BY DEF Lose, End
<1>3. /\ call[c] # "unsent" /\ UNCHANGED <<matched, stage, held, history, queued>>
      /\ missed' => missed' = missed \/ stage = "emitting"
      /\ IF c \in EmitCalls /\ stage = "emitting" THEN missed' ELSE UNCHANGED <<toEmit, missed>>
  BY DEF Lose, InFlight, governance
<1>4. \A a \in Blocking : <<"emit", a>> \in EmitCalls
  BY DEF EmitCalls
<1>5. QED
  BY <1>1, <1>2, <1>3, <1>4, EmitFacts
     DEF Escalation, Untouched, Posting, Noted, Escalated, Through, Wanted

(* A commit of held decisions adds neither an "unreviewed" entry nor one   *)
(* of the AI.                                                              *)
LEMMA CommitNoted == ASSUME EInv, Through, NEW c \in Calls, Commit(c)
  PROVE \A e \in history' : e.state # "unreviewed" /\ e.by # ByAI
<1> USE DEF EInv, TInv, TypeOK
<1>1. ASSUME CommitAction(c) PROVE \A e \in history' : e.state # "unreviewed" /\ e.by # ByAI
  <2>1. c # ByAI
    BY <1>1 DEF CommitAction, PolicyCalls, EmitCalls, ByAI
  <2>2. QED
    BY <1>1, <2>1 DEF CommitAction, Record, RecordAs, Escalated
<1>2. ASSUME CommitIntake PROVE \A e \in history' : e.state # "unreviewed" /\ e.by # ByAI
  <2>1. Intake # ByAI
    BY DEF Intake, ByAI
  <2>2. QED
    BY <1>2, <2>1 DEF CommitIntake, Record, RecordAs, Escalated
<1>3. ASSUME NEW r \in Reviewers, CommitReview(r)
      PROVE \A e \in history' : e.state # "unreviewed" /\ e.by # ByAI
  <2>1. <<"reviewer", r>> # ByAI
    BY CallsApart
  <2>2. Allowed(read[<<"reviewer", r>>]) \subseteq ReviewStates \ {"unreviewed"}
    BY AllowedTyped, CallsApart
  <2>3. QED
    BY <1>3, <2>1, <2>2 DEF CommitReview, Record, RecordAs, Escalated
<1>4. ASSUME NEW r \in Reviewers, CommitResolve(r)
      PROVE \A e \in history' : e.state # "unreviewed" /\ e.by # ByAI
  <2>1. <<"reviewer", r>> # ByAI
    BY CallsApart
  <2>2. QED
    BY <1>4, <2>1 DEF CommitResolve, Record, RecordAs, Escalated, StateOf, governance
<1>5. QED
  BY <1>1, <1>2, <1>3, <1>4 DEF Commit

LEMMA CommitEscalates == ASSUME EInv, NEW c \in Calls, Commit(c) PROVE Escalation'
<1> USE DEF EInv, TInv, TypeOK
<1>1. call[c] = "open" /\ Close(c) /\ UNCHANGED <<recorder, client>>
  BY CommitTyped DEF Commit, CommitAction, CommitIntake, CommitReview, CommitResolve
<1>2. \A d \in Calls : call'[d] = IF d = c THEN "done" ELSE call[d]
  BY <1>1 DEF Close, End
<1>3. \A d \in Calls \ {c} : read'[d] = read[d]
  BY <1>1 DEF Close, End
<1>4. c \in EmitCalls => history' # {}
  BY EmitFacts DEF Commit, CommitAction, Record, RecordAs
<1>5. history # {} => history' # {}
  BY CommitAdds DEF Adds
<1>6. Through => \A e \in history' : e.state # "unreviewed" /\ e.by # ByAI
  BY CommitNoted
<1>7. \A a \in Blocking : <<"emit", a>> \in EmitCalls
  BY DEF EmitCalls
<1>8. Untouched'
  BY <1>1 DEF Untouched, recorder
<1>9. Posting' /\ Noted'
  BY <1>1, <1>2, <1>4, <1>5, <1>7, EmitFacts DEF recorder, Posting, Noted, Wanted
<1>10. Escalated'
  BY <1>1, <1>2, <1>3, <1>5, <1>6, EmitFacts DEF recorder, Escalated, Through
<1>11. QED
  BY <1>8, <1>9, <1>10 DEF Escalation

LEMMA ClientEscalates ==
  ASSUME EInv, Poll \/ (\E r \in Reviewers, a \in Asks : Submit(r, a)) \/ UNCHANGED vars
  PROVE  Escalation'
<1>1. CASE Poll \/ UNCHANGED vars
  BY <1>1 DEF Poll, vars, recorder, calls, governance, EInv, Escalation, Untouched, Posting,
     Noted, Escalated, Through, Wanted
<1>2. ASSUME NEW r \in Reviewers, NEW a \in Asks, Submit(r, a) PROVE Escalation'
  <2>1. \A c \in EmitCalls \cup {Intake} : c # <<"reviewer", r>>
    BY EmitFacts
  <2>2. stage # "policy" /\ UNCHANGED <<recorder, governance, read>>
    BY <1>2 DEF Submit, Listed, EInv, Untouched
  <2>3. /\ call'[Intake] = call[Intake]
        /\ \A b \in Blocking : call'[<<"emit", b>>] = call[<<"emit", b>>]
    BY <1>2, <2>1, EmitFacts DEF Submit, EmitCalls, EInv, TInv, TypeOK
  <2>4. QED
    BY <2>2, <2>3 DEF recorder, governance, EInv, Escalation, Untouched, Posting, Noted,
       Escalated, Through, Wanted
<1>3. QED
  BY <1>1, <1>2

LEMMA EInvStep == ASSUME EInv, [Next]_vars PROVE EInv'
<1>1. TInv'
  BY TInvStep DEF EInv
<1>2. Escalation'
  BY EvaluateEscalates, RecorderEscalates, EmitEscalates, BeginEscalates, LoseEscalates,
     CommitEscalates, ClientEscalates DEF Next, System
<1>3. QED
  BY <1>1, <1>2 DEF EInv, Escalation

LEMMA EscalationInductive == Spec => []EInv
<1>1. Init => EInv
  BY TypeInit DEF Init, EInv, Untouched, Posting, Noted, Escalated, Through, EmitCalls,
     Calls, Intake
<1>2. EInv /\ [Next]_vars => EInv'
  BY EInvStep
<1>3. QED
  BY <1>1, <1>2, PTL DEF Spec

(* A decision held in gate mode whose actions got through is never         *)
(* approved by the AI.                                                     *)
THEOREM EscalationStandsHolds == Spec => []EscalationStands
<1>1. EInv => EscalationStands
  BY DEF EInv, Escalated, Through, EscalationStands
<1>2. QED
  BY <1>1, EscalationInductive, PTL

-----------------------------------------------------------------------------
(* Governance is only told of actions that policies asked for.             *)
Asked ==
  /\ toEmit \subseteq matched
  /\ \A c \in PolicyCalls \cup EmitCalls : call[c] # "unsent" => c[2] \in matched

NobodyReviewed == \A r \in Reviewers : call[<<"reviewer", r>>] = "unsent"
Waiting == matched = {"require_approval"} /\ Through /\ NobodyReviewed

(* Until a person acts, a decision that requires approval is escalated.    *)
Listing == Waiting =>
  /\ history # {} => queued
  /\ \A e \in history : e.state = "escalated"
  /\ call[Intake] = "open" => read[Intake] = "escalated"
  /\ stage = "done" /\ sdk # "failed" => history # {}

AInv == EInv /\ Asked /\ Listing

LEMMA AskedStep == ASSUME AInv, [Next]_vars PROVE Asked'
<1> USE DEF AInv, EInv, TInv, TypeOK
<1>1. CASE Evaluate \/ EvaluateFails
  BY <1>1 DEF Evaluate, EvaluateFails, Send, Asked, Untouched, PolicyCalls, EmitCalls, Calls
<1>2. ASSUME NEW a \in Blocking, Emit(a) PROVE Asked'
  BY <1>2 DEF Emit, Send, Asked, Calls
<1>3. CASE SendIntake
  <2>1. \A c \in PolicyCalls \cup EmitCalls : call'[c] = call[c]
    BY <1>3, EmitFacts DEF SendIntake, Send, Calls
  <2>2. QED
    BY <1>3, <2>1 DEF SendIntake, Asked
<1>4. ASSUME NEW c \in Calls, call[c] # "unsent", NEW how, call' = [call EXCEPT ![c] = how],
             matched' = matched, toEmit' \subseteq toEmit
      PROVE Asked'
  BY <1>4 DEF Asked
<1>5. ASSUME NEW c \in Calls, Begin(c) \/ Lose(c) \/ Commit(c) PROVE Asked'
  BY <1>4, <1>5, CommitTyped DEF Begin, Lose, InFlight, End, Close, Commit, CommitAction,
     CommitIntake, CommitReview, CommitResolve, recorder
<1>6. ASSUME NEW r \in Reviewers, NEW a \in Asks, Submit(r, a) PROVE Asked'
  <2>1. \A c \in PolicyCalls \cup EmitCalls : call'[c] = call[c]
    BY <1>6, CallsApart DEF Submit
  <2>2. QED
    BY <1>6, <2>1 DEF Submit, recorder, Asked
<1>7. ASSUME UNCHANGED <<matched, call>>, toEmit' \subseteq toEmit PROVE Asked'
  BY <1>7 DEF Asked
<1>8. QED
  BY <1>1, <1>2, <1>3, <1>5, <1>6, <1>7 DEF Next, System, Answer, AnswerFails,
     EmitGivesUp, EmitEnds, Poll, vars, recorder, calls

(* Nobody un-reviews a decision, and it only starts to wait when the       *)
(* policies are asked.                                                     *)
LEMMA WaitingBefore == ASSUME AInv, [Next]_vars, Waiting', stage # "policy" PROVE Waiting
<1> USE DEF AInv, EInv, TInv, TypeOK
<1>1. ASSUME NEW r \in Reviewers, call'[<<"reviewer", r>>] = "unsent"
      PROVE call[<<"reviewer", r>>] = "unsent"
  <2>1. <<"reviewer", r>> \in Calls
    BY CallsApart
  <2>2. ASSUME NEW c \in Calls, NEW how, how # "unsent", call' = [call EXCEPT ![c] = how]
        PROVE call[<<"reviewer", r>>] = "unsent"
    BY <1>1, <2>1, <2>2
  <2>3. ASSUME NEW C, Send(C) PROVE call[<<"reviewer", r>>] = "unsent"
    BY <1>1, <2>1, <2>3 DEF Send
  <2>4. ASSUME NEW c \in Calls, Begin(c) \/ Lose(c) \/ Commit(c)
        PROVE call[<<"reviewer", r>>] = "unsent"
    BY <2>2, <2>4, CommitTyped DEF Begin, Lose, End, Close
  <2>5. ASSUME NEW s \in Reviewers, NEW a \in Asks, Submit(s, a)
        PROVE call[<<"reviewer", r>>] = "unsent"
    BY <2>2, <2>5, CallsApart DEF Submit
  <2>6. QED
    BY <1>1, <2>3, <2>4, <2>5 DEF Next, System, Evaluate, EvaluateFails, Answer, AnswerFails,
       Emit, EmitGivesUp, EmitEnds, SendIntake, Poll, vars, calls
<1>2. matched' = matched /\ (Through' => Through)
  <2>1. ASSUME NEW c \in Calls, Commit(c) PROVE matched' = matched /\ (Through' => Through)
    BY <2>1, CommitTyped DEF recorder, Through
  <2>2. ASSUME NEW c \in Calls, Lose(c) PROVE matched' = matched /\ (Through' => Through)
    BY <2>2 DEF Lose, Through
  <2>3. ASSUME NEW c \in Calls, Begin(c) PROVE matched' = matched /\ (Through' => Through)
    BY <2>3 DEF Begin, recorder, Through
  <2>4. ASSUME NEW a \in Blocking, Emit(a) PROVE matched' = matched /\ (Through' => Through)
    BY <2>4 DEF Emit, Through
  <2>5. CASE Answer \/ AnswerFails \/ EmitGivesUp \/ EmitEnds \/ SendIntake
    BY <2>5 DEF Answer, AnswerFails, EmitGivesUp, EmitEnds, SendIntake, Through
  <2>6. CASE Poll \/ UNCHANGED vars \/ \E r \in Reviewers, a \in Asks : Submit(r, a)
    <3>1. UNCHANGED <<matched, held, missed>>
      BY <2>6 DEF Poll, Submit, vars, recorder
    <3>2. QED
      BY <3>1 DEF Through
  <2>7. QED
    BY <2>1, <2>2, <2>3, <2>4, <2>5, <2>6 DEF Next, System, Evaluate, EvaluateFails
<1>3. QED
  BY <1>1, <1>2 DEF Waiting, NobodyReviewed

LEMMA ListingStep == ASSUME AInv, [Next]_vars PROVE Listing'
<1> USE DEF AInv, EInv, TInv, TypeOK
<1> SUFFICES ASSUME Waiting' PROVE Listing'
  BY DEF Listing
<1>1. CASE stage = "policy"
  <2>1. history' = {} /\ stage' # "done"
    BY <1>1, OnlyCommitsAdd DEF Adds, Untouched, Next, System, Evaluate, EvaluateFails,
       Answer, AnswerFails, Emit, EmitGivesUp, EmitEnds, SendIntake, Begin, Lose, InFlight,
       Submit, Listed, Poll, vars, recorder, Commit, CommitAction, CommitIntake,
       CommitReview, CommitResolve
  <2>2. call'[Intake] # "open"
    BY <1>1, EmitFacts DEF Untouched, Next, System, Evaluate, EvaluateFails, Send,
       Answer, AnswerFails, Emit, EmitGivesUp, EmitEnds, SendIntake, Begin, Lose, InFlight,
       Submit, Listed, Poll, vars, calls, Commit, CommitAction, CommitIntake, CommitReview,
       CommitResolve
  <2>3. QED
    BY <2>1, <2>2 DEF Listing
<1>2. CASE stage # "policy"
  <2>0. Waiting /\ Listing
    BY <1>2, WaitingBefore
  <2>1. ASSUME NEW c \in Calls, CommitAction(c) PROVE Listing'
    <3>1. c[2] = "require_approval"
      BY <2>0, <2>1 DEF CommitAction, Asked, Waiting
    <3>2. queued' /\ \A e \in history' : e.state = "escalated"
      BY <2>0, <2>1, <3>1 DEF CommitAction, Record, RecordAs, Listing
    <3>3. call'[Intake] # "open" \/ (call[Intake] = "open" /\ read'[Intake] = read[Intake])
      BY <2>1, EmitFacts DEF CommitAction, Close, End
    <3>4. history' # {}
      BY <2>1 DEF CommitAction, Record, RecordAs
    <3>5. QED
      BY <2>0, <3>2, <3>3, <3>4 DEF Listing
  <2>2. CASE CommitIntake
    <3>1. read[Intake] = "escalated"
      BY <2>0, <2>2 DEF CommitIntake, Listing
    <3>2. queued' = TRUE /\ history' # {} /\ \A e \in history' : e.state = "escalated"
      <4>1. Record(Intake, "escalated") /\ queued' = TRUE
        <5>1. queued
          BY <2>0, <2>2 DEF CommitIntake, Waiting, Listing, Escalated
        <5>2. QED
          BY <2>2, <3>1, <5>1 DEF CommitIntake
      <4>2. \A e \in history' : e.state = "escalated"
        BY <2>0, <4>1 DEF Record, RecordAs, Listing
      <4>3. history' # {}
        BY <4>1 DEF Record, RecordAs
      <4>4. QED
        BY <4>1, <4>2, <4>3
    <3>3. call'[Intake] = "done"
      BY <2>2, EmitFacts DEF CommitIntake, Close, End
    <3>4. QED
      BY <3>2, <3>3 DEF Listing
  <2>3. ASSUME NEW r \in Reviewers, CommitReview(r) \/ CommitResolve(r) PROVE FALSE
    BY <2>0, <2>3, CallsApart DEF CommitReview, CommitResolve, Waiting, NobodyReviewed
  <2>4. ASSUME NEW c \in Calls, Begin(c) PROVE Listing'
    <3>1. c = Intake => CurrentState = "escalated"
      BY <2>0, <2>4, CurrentStateTyped DEF Begin, Listing, Escalated, Waiting
    <3>2. QED
      BY <2>0, <2>4, <3>1, EmitFacts DEF Begin, recorder, governance, client, Listing
  <2>5. ASSUME NEW c \in Calls, Lose(c) PROVE Listing'
    BY <2>0, <2>5, EmitFacts DEF Lose, End, governance, client, Listing
  <2>6. CASE SendIntake
    BY <2>0, <2>6, EmitFacts DEF SendIntake, Send, governance, Listing, Waiting, Escalated
  <2>7. CASE AnswerFails
    BY <2>0, <2>7 DEF AnswerFails, calls, governance, Listing
  <2>8. ASSUME NEW a \in Blocking, Emit(a) PROVE Listing'
    BY <2>0, <2>8, EmitFacts DEF Emit, Send, governance, client, Listing
  <2>9. CASE Answer \/ EmitGivesUp \/ EmitEnds \/ Poll \/ UNCHANGED vars
    BY <2>0, <2>9 DEF Answer, Background, EmitGivesUp, EmitEnds, Poll, vars, recorder, calls,
       governance, client, Listing
  <2>10. ASSUME NEW r \in Reviewers, NEW a \in Asks, Submit(r, a) PROVE FALSE
    BY <2>10, CallsApart DEF Submit, Waiting, NobodyReviewed
  <2>11. QED
    BY <1>2, <2>1, <2>2, <2>3, <2>4, <2>5, <2>6, <2>7, <2>8, <2>9, <2>10
       DEF Next, System, Commit, Evaluate, EvaluateFails
<1>3. QED
  BY <1>1, <1>2

(* While nobody reviews it, a decision that requires approval is listed.   *)
THEOREM ApprovalIsListedHolds == Spec => []ApprovalIsListed
<1>1. Init => AInv
  <2>1. ASSUME Init PROVE EInv
    BY <2>1, TypeInit DEF Init, EInv, Untouched, Posting, Noted, Escalated, Through,
       EmitCalls, Calls, Intake
  <2>2. ASSUME Init PROVE Asked /\ Listing
    BY <2>2 DEF Init, Asked, Listing, Waiting, Through, Calls
  <2>3. QED
    BY <2>1, <2>2 DEF AInv
<1>2. AInv /\ [Next]_vars => AInv'
  BY EInvStep, AskedStep, ListingStep DEF AInv
<1>3. AInv => ApprovalIsListed
  <2>1. ASSUME AInv, matched = {"require_approval"}, held, ~missed, sdk # "failed", Quiet
        PROVE Listed
    <3>1. history # {} /\ queued /\ \A e \in history : e.state = "escalated"
      BY <2>1 DEF AInv, Listing, Waiting, Through, Quiet, NobodyReviewed
    <3>2. CurrentState = "escalated"
      BY <2>1, <3>1, CurrentStateTyped DEF AInv, EInv, TInv
    <3>3. QED
      BY <3>1, <3>2 DEF Listed, Terminal
  <2>2. QED
    BY <2>1 DEF ApprovalIsListed, HeldIsListed
<1>4. QED
  BY <1>1, <1>2, <1>3, PTL DEF Spec
=============================================================================
