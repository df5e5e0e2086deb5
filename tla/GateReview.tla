----------------------------- MODULE GateReview -----------------------------
(***************************************************************************)
(* The life of one decision in governance.  The SDK submits it; the        *)
(* recorder asks the policy engine, records, answers and goes on in the    *)
(* background; the policy engine posts the actions of the policies that    *)
(* matched to the governance service, and so does the recorder; governance *)
(* lets an AI rate the decision; reviewers resolve or review it; the SDK   *)
(* polls for the resolution and gives up after a while.                    *)
(*                                                                         *)
(* In "gate" mode the policies are asked before the decision is recorded   *)
(* and may hold its output; in "observe" mode (behind the queue) the SDK   *)
(* is gone by then.  Every call to governance is a transaction of its own: *)
(* it begins (reads the tables, stamps its history entry) and later        *)
(* commits.  The current review state is that of the LATEST STAMP, not of  *)
(* the latest commit.                                                      *)
(***************************************************************************)
EXTENDS Integers, FiniteSets

CONSTANTS
  Reviewers,   (* people, each of whom submits once                       *)
  Asks,        (* what a reviewer may submit                              *)
  Policies,    (* the sets of actions that matching policies may ask for  *)
  Modes,       (* a subset of {"gate", "observe"}                         *)
  MaxPolls,    (* polls until 300 seconds have passed                     *)
  Faults       (* which of "policy", "answer", "call", "wait", "poll"     *)
               (* may fail                                                *)

PolicyActions == {"require_approval", "block", "auto_approve"}
Blocking == {"require_approval", "block"}
Verdicts == {"approved", "declined"}
Terminal == {"approved", "rejected"}
ReviewStates ==
  {"unreviewed", "in_review", "reviewed", "escalated", "pending"} \cup Terminal

Ask == ({"resolve"} \X Verdicts) \cup ({"review"} \X ReviewStates)

(* Who calls governance, and for what. *)
PolicyCalls == {"policy"} \X PolicyActions
EmitCalls == {"emit"} \X Blocking
Intake == <<"intake", "decision">>
ReviewCalls == {"reviewer"} \X Reviewers
Calls == PolicyCalls \cup EmitCalls \cup {Intake} \cup ReviewCalls

ASSUME AsksAssumption == Asks \subseteq Ask
ASSUME PoliciesAssumption == Policies \subseteq SUBSET PolicyActions
ASSUME ModesAssumption == Modes \subseteq {"gate", "observe"}
ASSUME PollsAssumption == MaxPolls \in Nat \ {0}

VARIABLES
  mode,        (* the project's governance mode                           *)
  matched,     (* the actions of the policies that match this decision    *)
  stage,       (* how far the recorder's handler and background tasks are *)
  held,        (* the recorder saw a blocking action before it answered   *)
  toEmit,      (* blocking actions it has yet to post                     *)
  missed,      (* one of them did not get through                         *)
  call,        (* call[c]: how far call c is                              *)
  read,        (* read[c]: the review state c saw when it began           *)
  found,       (* found[c]: it saw the decision in the assignment queue   *)
  stamp,       (* stamp[c]: the timestamp of its history entry            *)
  ask,         (* ask[r]: what reviewer r submitted                       *)
  clock,       (* the next timestamp                                      *)
  history,     (* governance_review_history of the decision               *)
  queued,      (* it is in governance_assignment_queue                    *)
  resolution,  (* gate_resolutions                                        *)
  sdk,         (* what the SDK does                                       *)
  heard,       (* why it went on                                          *)
  polls

recorder == <<mode, matched, stage, held, toEmit, missed>>
calls == <<call, read, found, stamp, ask, clock>>
governance == <<history, queued, resolution>>
client == <<sdk, heard, polls>>
vars == <<recorder, calls, governance, client>>

Stages == {"policy", "recording", "emitting", "intake", "done"}
CallStages == {"unsent", "sent", "open", "done", "lost"}
InFlight(c) == call[c] \in {"sent", "open"}

(* An entry of the history is known by the call that wrote it, or as the   *)
(* AI's own approval ("Auto-approved by AI").                              *)
ByAI == <<"intake", "auto">>
Entry == [state : ReviewStates, stamp : Nat, by : Calls \cup {ByAI}]

-----------------------------------------------------------------------------
(* Operators ending in _Fault are mutations of the definition below them,  *)
(* which no definition uses.                                               *)

Latest == {e \in history : \A f \in history : f.stamp <= e.stamp}

CurrentState == IF history = {} THEN "unreviewed" ELSE (CHOOSE e \in Latest : TRUE).state

(* The default of its parameter "status" instead of "all". *)
Listed_DefaultFault == queued /\ CurrentState = "unreviewed"

(* get_review_queue: queued, and the latest state is not a terminal one. *)
Listed == queued /\ CurrentState \notin Terminal

(* VALID_REVIEW_TRANSITIONS *)
Allowed(from) ==
  CASE from = "unreviewed" -> {"in_review"} \cup Terminal
    [] from = "in_review" -> {"reviewed", "escalated"} \cup Terminal
    [] from = "reviewed" -> {"escalated", "in_review"} \cup Terminal
    [] from = "escalated" -> {"in_review"} \cup Terminal
    [] from = "pending" -> {"in_review", "escalated"} \cup Terminal
    [] from \in Terminal -> {"in_review"}

StateOf(verdict) == IF verdict = "approved" THEN "approved" ELSE "rejected"

RecordAs(by, c, state) ==
  history' = history \cup {[state |-> state, stamp |-> stamp[c], by |-> by]}
Record(c, state) == RecordAs(c, c, state)

(* The transaction is over; what it read is forgotten. *)
End(c, how) ==
  /\ call' = [call EXCEPT ![c] = how]
  /\ read' = [read EXCEPT ![c] = "unreviewed"]
  /\ found' = [found EXCEPT ![c] = FALSE]
  /\ stamp' = [stamp EXCEPT ![c] = 0]
  /\ UNCHANGED <<ask, clock>>
Close(c) == End(c, "done")

-----------------------------------------------------------------------------
Init ==
  /\ mode \in Modes
  /\ matched \in Policies
  /\ stage = "policy"
  /\ held = FALSE
  /\ toEmit = {}
  /\ missed = FALSE
  /\ call = [c \in Calls |-> "unsent"]
  /\ read = [c \in Calls |-> "unreviewed"]
  /\ found = [c \in Calls |-> FALSE]
  /\ stamp = [c \in Calls |-> 0]
  /\ ask = [r \in Reviewers |-> <<"none", "none">>]
  /\ clock = 1
  /\ history = {}
  /\ queued = FALSE
  /\ resolution = "none"
  /\ sdk = IF mode = "gate" THEN "calling" ELSE "proceeds"
  /\ heard = "none"
  /\ polls = 0

Send(C) ==
  /\ call' = [c \in Calls |-> IF c \in C THEN "sent" ELSE call[c]]
  /\ UNCHANGED <<read, found, stamp, ask, clock>>

(* The policy engine posts the actions itself, each in a task of its own,  *)
(* and returns them; the recorder looks for blocking ones in gate mode.    *)
Evaluate ==
  /\ stage = "policy"
  /\ Send({"policy"} \X matched)
  /\ IF mode = "gate"
     THEN /\ stage' = "recording"
          /\ toEmit' = matched \cap Blocking
          /\ held' = (toEmit' # {})
     ELSE /\ stage' = "intake"
          /\ UNCHANGED <<held, toEmit>>
  /\ UNCHANGED <<mode, matched, missed, governance, client>>

(* The engine is down, or answers too late (it has posted its actions      *)
(* then): the recorder goes on as if no policy had matched.                *)
EvaluateFails ==
  /\ "policy" \in Faults
  /\ stage = "policy"
  /\ Send({}) \/ Send({"policy"} \X matched)
  /\ stage' = IF mode = "gate" THEN "recording" ELSE "intake"
  /\ UNCHANGED <<mode, matched, held, toEmit, missed, governance, client>>

(* The actions left to the policy engine, which posts them anyway. *)
Background_SkipFault == "intake"

Background == IF held THEN "emitting" ELSE "intake"

(* The decision is recorded; 202 "pending_review" when it is held.         *)
Answer ==
  /\ stage = "recording"
  /\ sdk' = IF held THEN "polling" ELSE "proceeds"
  /\ stage' = Background
  /\ UNCHANGED <<mode, matched, held, toEmit, missed, calls, governance, heard, polls>>

(* It is not recorded, or the answer is lost: the SDK raises (its own      *)
(* retry would be a duplicate), and the background tasks run if the        *)
(* handler got that far.                                                   *)
AnswerFails ==
  /\ "answer" \in Faults
  /\ stage = "recording"
  /\ sdk' = "failed"
  /\ stage' \in {Background, "done"}
  /\ UNCHANGED <<mode, matched, held, toEmit, missed, calls, governance, heard, polls>>

(* emit_governance_action: one call after the other. *)
Emit(a) ==
  /\ stage = "emitting"
  /\ a \in toEmit
  /\ \A c \in EmitCalls : ~InFlight(c)
  /\ Send({<<"emit", a>>})
  /\ toEmit' = toEmit \ {a}
  /\ UNCHANGED <<mode, matched, stage, held, missed, governance, client>>

(* The call it waits for takes too long: the loop is left, the call stays. *)
EmitGivesUp ==
  /\ "wait" \in Faults
  /\ stage = "emitting"
  /\ \E c \in EmitCalls : InFlight(c)
  /\ toEmit' = {}
  /\ missed' = TRUE
  /\ stage' = "intake"
  /\ UNCHANGED <<mode, matched, held, calls, governance, client>>

EmitEnds ==
  /\ stage = "emitting"
  /\ toEmit = {}
  /\ \A c \in EmitCalls : ~InFlight(c)
  /\ stage' = "intake"
  /\ UNCHANGED <<mode, matched, held, toEmit, missed, calls, governance, client>>

SendIntake ==
  /\ stage = "intake"
  /\ Send({Intake})
  /\ stage' = "done"
  /\ UNCHANGED <<mode, matched, held, toEmit, missed, governance, client>>

(* It was to update an entry of the assignment queue that is gone by now.  *)
EntryGone(c) ==
  /\ c[2] = "require_approval"
  /\ call[c] = "open"
  /\ found[c]
  /\ ~queued

(* A call does not arrive, or its transaction fails: it has no effect.     *)
(* The recorder gives up on the rest only if it hears no answer at all.    *)
Lose(c) ==
  /\ "call" \in Faults \/ EntryGone(c)
  /\ c \notin ReviewCalls
  /\ InFlight(c)
  /\ End(c, "lost")
  /\ IF c \in EmitCalls /\ stage = "emitting"
     THEN toEmit' \in {{}, toEmit} /\ missed' = TRUE
     ELSE UNCHANGED <<toEmit, missed>>
  /\ UNCHANGED <<mode, matched, stage, held, governance, client>>

(* A reviewer opens a decision of the review queue and submits a verdict.  *)
Submit(r, a) ==
  /\ Listed
  /\ call[<<"reviewer", r>>] = "unsent"
  /\ call' = [call EXCEPT ![<<"reviewer", r>>] = "sent"]
  /\ ask' = [ask EXCEPT ![r] = a]
  /\ UNCHANGED <<read, found, stamp, clock, recorder, governance, client>>

(* Governance reads the review state and the assignment queue, and stamps  *)
(* the entry it will add to the history.                                   *)
Begin(c) ==
  /\ call[c] = "sent"
  /\ call' = [call EXCEPT ![c] = "open"]
  /\ read' = [read EXCEPT ![c] = CurrentState]
  /\ found' = [found EXCEPT ![c] = queued]
  /\ stamp' = [stamp EXCEPT ![c] = clock]
  /\ clock' = clock + 1
  /\ UNCHANGED <<ask, recorder, governance, client>>

(* intake_policy_action *)
CommitAction(c) ==
  /\ c \in PolicyCalls \cup EmitCalls
  /\ call[c] = "open"
  /\ \/ /\ c[2] = "require_approval"
        /\ ~EntryGone(c)
        /\ Record(c, "escalated")
        /\ queued' = TRUE
     \/ /\ c[2] = "block"
        /\ Record(c, "rejected")
        /\ UNCHANGED queued
     \/ /\ c[2] = "auto_approve"
        /\ Record(c, "approved")
        /\ UNCHANGED queued
  /\ Close(c)
  /\ UNCHANGED <<resolution, recorder, client>>

(* The AI's rating, whatever the review state. *)
CommitIntake_IgnoreStateFault ==
  /\ call[Intake] = "open"
  /\ \/ /\ RecordAs(ByAI, Intake, "approved")
        /\ UNCHANGED queued
     \/ /\ Record(Intake, read[Intake])
        /\ queued' = (queued \/ ~found[Intake])
  /\ Close(Intake)
  /\ UNCHANGED <<resolution, recorder, client>>

(* intake_decision: low risk is approved if nothing escalated it before;   *)
(* otherwise the state it read is written again and the decision queued,   *)
(* if it was not there.                                                    *)
CommitIntake ==
  /\ call[Intake] = "open"
  /\ \/ /\ read[Intake] = "unreviewed"
        /\ RecordAs(ByAI, Intake, "approved")
        /\ UNCHANGED queued
     \/ /\ Record(Intake, read[Intake])
        /\ queued' = (queued \/ ~found[Intake])
  /\ Close(Intake)
  /\ UNCHANGED <<resolution, recorder, client>>

(* update_review_state, from the state read before. *)
CommitReview(r) ==
  LET c == <<"reviewer", r>> IN
  /\ call[c] = "open"
  /\ ask[r][1] = "review"
  /\ \/ /\ ask[r][2] \in Allowed(read[c])
        /\ Record(c, ask[r][2])
        /\ queued' = (queued /\ ask[r][2] \notin Terminal)
     \/ /\ ask[r][2] \notin Allowed(read[c])
        /\ UNCHANGED <<history, queued>>
  /\ Close(c)
  /\ UNCHANGED <<resolution, recorder, client>>

(* The row is overwritten. *)
CommitResolve_UpsertFault(r) ==
  LET c == <<"reviewer", r>> IN
  /\ call[c] = "open"
  /\ ask[r][1] = "resolve"
  /\ resolution' = ask[r][2]
  /\ Record(c, StateOf(ask[r][2]))
  /\ queued' = (queued /\ ~found[c])
  /\ Close(c)
  /\ UNCHANGED <<recorder, client>>

(* The history entry is committed before the row. *)
CommitResolve_TraceFault(r) ==
  LET c == <<"reviewer", r>> IN
  /\ call[c] = "open"
  /\ ask[r][1] = "resolve"
  /\ resolution' = IF resolution = "none" THEN ask[r][2] ELSE resolution
  /\ Record(c, StateOf(ask[r][2]))
  /\ queued' = (queued /\ ~found[c])
  /\ Close(c)
  /\ UNCHANGED <<recorder, client>>

(* resolve_gate_decision: the second one breaks the primary key of         *)
(* gate_resolutions and is rolled back whole.                              *)
CommitResolve(r) ==
  LET c == <<"reviewer", r>> IN
  /\ call[c] = "open"
  /\ ask[r][1] = "resolve"
  /\ \/ /\ resolution = "none"
        /\ resolution' = ask[r][2]
        /\ Record(c, StateOf(ask[r][2]))
        /\ queued' = (queued /\ ~found[c])
     \/ /\ resolution # "none"
        /\ UNCHANGED governance
  /\ Close(c)
  /\ UNCHANGED <<recorder, client>>

Commit(c) ==
  \/ CommitAction(c)
  \/ c = Intake /\ CommitIntake
  \/ \E r \in Reviewers : c = <<"reviewer", r>> /\ (CommitReview(r) \/ CommitResolve(r))

(* A poll hears the resolution, if there is one and the way to it is not   *)
(* broken; after the last one the output is used as it is.                 *)
Poll ==
  /\ sdk = "polling"
  /\ polls' = polls + 1
  /\ \/ /\ resolution = "approved"
        /\ sdk' = "proceeds" /\ heard' = "approved"
     \/ /\ resolution = "declined"
        /\ sdk' = "stopped" /\ heard' = "declined"
     \/ /\ resolution = "none" \/ "poll" \in Faults
        /\ IF polls' >= MaxPolls
           THEN sdk' = "proceeds" /\ heard' = "timeout"
           ELSE UNCHANGED <<sdk, heard>>
  /\ UNCHANGED <<recorder, calls, governance>>

-----------------------------------------------------------------------------
System ==
  \/ Evaluate \/ Answer \/ (\E a \in Blocking : Emit(a)) \/ EmitEnds \/ SendIntake
  \/ EvaluateFails \/ AnswerFails \/ EmitGivesUp
  \/ \E c \in Calls : Begin(c) \/ Commit(c) \/ Lose(c)

Next == System \/ Poll \/ \E r \in Reviewers, a \in Asks : Submit(r, a)

Spec == Init /\ [][Next]_vars

-----------------------------------------------------------------------------
(* Type invariant of the recorder's tasks, the calls, the governance       *)
(* tables and the SDK.                                                     *)
TypeOK ==
  /\ mode \in Modes /\ matched \in Policies
  /\ stage \in Stages
  /\ held \in BOOLEAN /\ missed \in BOOLEAN
  /\ toEmit \subseteq Blocking
  /\ call \in [Calls -> CallStages]
  /\ read \in [Calls -> ReviewStates]
  /\ found \in [Calls -> BOOLEAN]
  /\ stamp \in [Calls -> Nat]
  /\ ask \in [Reviewers -> Asks \cup {<<"none", "none">>}]
  /\ clock \in Nat \ {0}
  /\ history \subseteq Entry
  /\ queued \in BOOLEAN
  /\ resolution \in Verdicts \cup {"none"}
  /\ sdk \in {"calling", "polling", "proceeds", "stopped", "failed"}
  /\ heard \in Verdicts \cup {"none", "timeout"}
  /\ polls \in 0 .. MaxPolls

(* The verdict the SDK acted on is, and stays, the decision's resolution:  *)
(* of reviewers who resolve it differently only one is ever heard.         *)
VerdictStands == heard \in Verdicts => heard = resolution

(* The reviewer who came second leaves no trace in the history either: the *)
(* entry and the resolution are one transaction.                           *)
LoserLeavesNoTrace == \A e \in history : \A r \in Reviewers :
  e.by = <<"reviewer", r>> /\ ask[r][1] = "resolve" =>
    resolution # "none" /\ e.state = StateOf(resolution)

(* "Auto-approve low-risk decisions that haven't been escalated by strict  *)
(* policies" (intake_decision): a decision held in gate mode is never      *)
(* approved by the AI, provided the recorder got its actions through.      *)
EscalationStands == held /\ ~missed => \A e \in history : e.by # ByAI

(* Nothing is under way, no person has acted. *)
Quiet ==
  /\ stage = "done"
  /\ \A c \in Calls : ~InFlight(c)
  /\ \A r \in Reviewers : call[<<"reviewer", r>>] = "unsent"

(* "forcing the payload into a human reviewer queue for manual approval"   *)
(* (IntroDoc.tsx): when the dust has settled, a held decision whose        *)
(* actions got through is in the queue that reviewers see.                 *)
HeldIsListed == held /\ ~missed /\ sdk # "failed" /\ Quiet => Listed

(* That is so when the policies only require approval.                     *)
ApprovalIsListed == matched = {"require_approval"} => HeldIsListed
=============================================================================
