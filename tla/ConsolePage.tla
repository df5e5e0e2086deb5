----------------------------- MODULE ConsolePage -----------------------------
(* One page of the web console in one browser tab, the requests it has      *)
(* under way and the part of the control plane it shows.                    *)
(*                                                                          *)
(* regulayer-web is a set of React pages; each is given by its script       *)
(* (ConsoleScript) and this module says how a script runs.  JavaScript runs *)
(* a handler without interruption up to an await, and the code after the    *)
(* await when the answer is there; answers come in any order.  The control  *)
(* plane is a set of resources; a resource is the set of the changes it     *)
(* reflects, and what a page shows is the set it was given.                 *)
EXTENDS Naturals, Sequences, FiniteSets

CONSTANTS
  Script,      \* the script of every page
  MaxRuns,     \* handlers of the page that can be under way at once (bound)
  Chosen,      \* what can be selected: projects, organisations, systems
  MaxChanges,  \* changes after which no control makes another (bound)
  MaxFaults    \* requests that fail in one behaviour (bound)

ASSUME ConsoleAssumption ==
  /\ MaxRuns \in Nat
  /\ MaxChanges \in Nat
  /\ MaxFaults \in Nat

(* Scripts: requests are about data of their page, the handlers that others *)
(* call exist, those a page is mounted with await something and have room.  *)
Requests(p) ==
  [op : {"get", "add", "put"}, on : SUBSET Script[p].data,
   soft : {"", "keep", "empty", "never"}, late : BOOLEAN]

ASSUME ScriptAssumption ==
  \A p \in DOMAIN Script :
    /\ \A h \in DOMAIN Script[p].code :
         /\ Script[p].code[h].calls \in Seq(Requests(p))
         /\ {Script[p].code[h].next, Script[p].code[h].also} \subseteq DOMAIN Script[p].code \cup {""}
    /\ DOMAIN Script[p].shown \cup Script[p].timer \subseteq DOMAIN Script[p].code
    /\ Script[p].mount \in Seq({h \in DOMAIN Script[p].code : Script[p].code[h].calls # <<>>})
    /\ Len(Script[p].mount) <= MaxRuns

(* A request that changes something has no catch of its own, nor has one    *)
(* whose answer is shown with the next one's.  To open a page changes       *)
(* nothing.                                                                 *)
Orderly(p) ==
  /\ \A h \in DOMAIN Script[p].code :
       LET calls == Script[p].code[h].calls
       IN  \A k \in DOMAIN calls :
             /\ calls[k].op # "get" => calls[k].soft = ""
             /\ calls[k].late => calls[k].soft = "" /\ \A j \in DOMAIN calls : calls[j].op = "get"
  /\ \A i \in DOMAIN Script[p].mount :
       LET calls == Script[p].code[Script[p].mount[i]].calls
       IN  \A k \in DOMAIN calls : calls[k].op = "get"

(* What a handler assigns, before its first await and after its last.       *)
Updates(p, h) == {Script[p].code[h].begin} \cup Script[p].code[h].ok \cup Script[p].code[h].err

(* The state fields that are selections, and what they may be.              *)
Selections(p) ==
  ({Script[p].under[r] : r \in Script[p].data} \cup {Script[p].code[h].of : h \in DOMAIN Script[p].code}) \ {""}
Choices == {0} \cup Chosen

ASSUME OrderlyAssumption == \A p \in DOMAIN Script : Orderly(p)
ASSUME SelectionAssumption ==
  \A p \in DOMAIN Script : \A f \in Selections(p) :
    /\ f # "here" /\ f \in DOMAIN Script[p].start /\ Script[p].start[f] \in Choices
    /\ \A h \in DOMAIN Script[p].code : \A u \in Updates(p, h) : f \in DOMAIN u => u[f] \in Choices

(* A page that was left does not come back. *)
ASSUME LeavingAssumption ==
  \A p \in DOMAIN Script :
    /\ "here" \in DOMAIN Script[p].start
    /\ \A h \in DOMAIN Script[p].code :
         /\ Script[p].code[h].pick # "here"
         /\ \A u \in Updates(p, h) : "here" \in DOMAIN u => u["here"] = FALSE

VARIABLES
  page,     \* the page that is mounted
  ui,       \* the state of its component, apart from the data it holds
  view,     \* the data it holds: under which selection they were asked for,
            \* and the changes they reflect
  runs,     \* the handlers under way
  db,       \* the control plane: the changes each resource reflects
  issued,   \* changes numbered so far
  acked,    \* changes of this tab that were answered
  denied,   \* changes the page reported as failed without an answer lost
  crossed,  \* a handler that changes was under way beside another one
  faults    \* requests that failed so far

vars == <<page, ui, view, runs, db, issued, acked, denied, crossed, faults>>

Pages == DOMAIN Script
Slots == 1..MaxRuns
Code(h) == Script[page].code[h]
Data == Script[page].data
IsWrite(call) == call.op # "get"
Writes(h) == {k \in DOMAIN Code(h).calls : IsWrite(Code(h).calls[k])}

-----------------------------------------------------------------------------
(* Handlers. *)

(* A slot nothing runs in. *)
Free == [h |-> ""]

Busy(s) == runs[s] # Free
Idle == {s \in Slots : ~Busy(s)}
Call(s) == Code(runs[s].h).calls[runs[s].at]
Served(s) == Call(s).on \subseteq DOMAIN runs[s].got

(* The numbers of the changes a run has asked for; the last is the one its  *)
(* current request makes, if that writes.                                   *)
Asked(run) == {k \in Writes(run.h) : k <= run.at}
Number(run) == run.base + Cardinality(Asked(run))

(* setState: the fields that an update names get its values. *)
After(state, update) ==
  [f \in DOMAIN state |-> IF f \in DOMAIN update THEN update[f] ELSE state[f]]

(* What a handler closes over: the selection it passes on and, when it      *)
(* writes, the data it shows at that moment.                                *)
Begun(h, state, data, base) ==
  LET arg == IF Code(h).of = "" THEN 0 ELSE state[Code(h).of]
  IN  [h |-> h, at |-> 1, got |-> <<>>, arg |-> arg,
       from |-> IF Code(h).carries = "" THEN arg ELSE data[Code(h).carries].of,
       base |-> IF Writes(h) = {} THEN 0 ELSE base,
       snap |-> [r \in UNION {Code(h).calls[k].on : k \in Writes(h)} |-> data[r].seen]]

(* A handler may return at once; else its assignments before the first      *)
(* await are made.                                                          *)
Goes(h, state) == h # "" /\ \A f \in DOMAIN Code(h).when : state[f] \in Code(h).when[f]
Entered(h, state) == IF Goes(h, state) THEN After(state, Code(h).begin) ELSE state

(* The run that a call of a handler which is not awaited adds. *)
Calls(h, state) == IF Goes(h, state) /\ Code(h).calls # <<>> THEN <<h>> ELSE <<>>

(* The changes that handlers ask for. *)
Cost(handlers) == Cardinality(UNION {Writes(handlers[i]) \X {i} : i \in DOMAIN handlers})

(* The runs that go on when a handler is called. *)
Left_NoCancelFault(h) == runs
Left(h) == [s \in Slots |-> IF Busy(s) /\ runs[s].h = h /\ Code(h).latest THEN Free ELSE runs[s]]

(* The place of a slot among the idle ones. *)
Place(s) == Cardinality({q \in Idle : q <= s})

(* The selection that r is shown under. *)
Under(r, state) == IF Script[page].under[r] = "" THEN 0 ELSE state[Script[page].under[r]]

(* The page's data once a handler has begun: emptied under the new          *)
(* selection, or changed before the control plane was asked.                *)
Prepared_OptimisticFault(h, state) ==
  [r \in DOMAIN view |->
     [of |-> view[r].of, seen |-> view[r].seen \cup {issued + 1 : k \in {w \in Writes(h) : r \in Code(h).calls[w].on}}]]
Prepared_NotShownFault(h, state) ==
  [r \in DOMAIN view |-> IF r \in Code(h).clears THEN [of |-> Under(r, state), seen |-> {}] ELSE view[r]]
Prepared(h, state) ==
  [r \in DOMAIN view |->
     CASE r \in Code(h).clears -> [of |-> Under(r, state), seen |-> {}]
       [] /\ r \notin Code(h).clears /\ "first" \in Code(h).local
          /\ \E k \in Writes(h) : r \in Code(h).calls[k].on
          -> [of |-> view[r].of, seen |-> view[r].seen \cup {issued + 1}]
       [] OTHER -> view[r]]

(* The handlers that a control starts: its own, unless that ends before any *)
(* await, and the one it calls.                                             *)
Started(h, begun) ==
  IF Code(h).calls = <<>> THEN Calls(Code(h).also, begun) ELSE <<h>> \o Calls(Code(h).also, begun)

(* A control is used, or a timer fires: the handler up to its first await.  *)
Start(h, update) ==
  LET begun == After(ui, update)
      state == Entered(Code(h).also, begun)
      started == Started(h, begun)
  IN  /\ ui.here
      /\ Goes(h, ui)
      /\ issued + Cost(started) <= MaxChanges
      /\ Len(started) <= Cardinality(Idle)
      /\ runs' = [s \in Slots |->
           IF s \in Idle /\ Place(s) <= Len(started)
           THEN Begun(started[Place(s)], state, view,
                      issued + Cost(SubSeq(started, 1, Place(s) - 1)))
           ELSE runs[s]]
      /\ ui' = state
      /\ view' = Prepared(h, state)
      /\ issued' = issued + Cost(started)
      /\ crossed' = (crossed \/ \E s \in Slots : Busy(s) /\ Writes(h) \cup Writes(runs[s].h) # {})
      /\ UNCHANGED <<page, db, acked, denied, faults>>

(* A control of the page is there and enabled. *)
Enabled_UnlockedFault(h) == h \in DOMAIN Script[page].shown
Enabled(h) ==
  /\ h \in DOMAIN Script[page].shown
  /\ \A f \in DOMAIN Script[page].shown[h] : ui[f] \in Script[page].shown[h][f]

Use(h) ==
  /\ Enabled(h)
  /\ IF Code(h).pick = "" THEN Start(h, Code(h).begin)
     ELSE \E a \in Chosen : Start(h, [f \in DOMAIN Code(h).begin \cup {Code(h).pick} |->
                                        IF f = Code(h).pick THEN a ELSE Code(h).begin[f]])

Tick(h) == h \in Script[page].timer /\ Start(h, Code(h).begin)

-----------------------------------------------------------------------------
(* Requests. *)

(* A run with one more answer. *)
Got(run, r, changes) ==
  [run EXCEPT !.got = [x \in DOMAIN run.got \cup {r} |-> IF x = r THEN changes ELSE run.got[x]]]

(* The control plane handles a request, or one of several sent at once. *)
Serve(s, r) ==
  /\ Busy(s)
  /\ r \in Call(s).on \ DOMAIN runs[s].got
  /\ LET now == CASE Call(s).op = "get" -> db[r]
                  [] Call(s).op = "add" -> db[r] \cup {Number(runs[s])}
                  [] Call(s).op = "put" -> runs[s].snap[r] \cup {Number(runs[s])}
     IN  /\ db' = [db EXCEPT ![r] = now]
         /\ runs' = [runs EXCEPT ![s] = Got(runs[s], r, now)]
  /\ UNCHANGED <<page, ui, view, issued, acked, denied, crossed, faults>>

(* A request with a catch of its own fails. *)
Lost == {0}

Catch(s, r) ==
  /\ Busy(s)
  /\ Call(s).soft \in {"keep", "empty"}
  /\ r \in Call(s).on \ DOMAIN runs[s].got
  /\ faults < MaxFaults
  /\ faults' = faults + 1
  /\ runs' = [runs EXCEPT ![s] = Got(runs[s], r, Lost)]
  /\ UNCHANGED <<page, ui, view, db, issued, acked, denied, crossed>>

(* What the page holds of r once the current request of a run is answered.  *)
Read_LossShownFault(s, r) ==
  LET run == runs[s]
  IN  IF Code(run.h).keyed /\ ui[Code(run.h).of] # run.arg THEN view[r] ELSE [of |-> run.arg, seen |-> run.got[r]]
Read_NoKeyFault(s, r) ==
  LET run == runs[s]
      lost == run.got[r] = Lost
  IN  IF lost /\ Call(s).soft = "keep" THEN view[r]
      ELSE [of |-> run.arg, seen |-> IF lost /\ Call(s).soft = "empty" THEN {} ELSE run.got[r]]
Read(s, r) ==
  LET run == runs[s]
      lost == run.got[r] = Lost
  IN  IF (Code(run.h).keyed /\ ui[Code(run.h).of] # run.arg) \/ (lost /\ Call(s).soft = "keep")
      THEN view[r]
      ELSE [of |-> run.arg, seen |-> IF lost /\ Call(s).soft = "empty" THEN {} ELSE run.got[r]]

Written(s, r) ==
  LET run == runs[s]
      local == Code(run.h).local
      holding(changes) == [of |-> view[r].of, seen |-> changes]
  IN  CASE "sent" \in local -> holding(run.snap[r] \cup {Number(run)})
        [] "now" \in local -> holding(view[r].seen \cup {Number(run)})
        [] "answer" \in local -> holding(run.got[r])
        [] OTHER -> view[r]

(* A run at its next request. *)
Onward(run, got) == [[run EXCEPT !.at = @ + 1] EXCEPT !.got = got]

(* The handler goes on after the await: to its next request, or to its end  *)
(* and what it calls there.                                                 *)
GoOn(s, data) ==
  LET run == runs[s]
      then == Code(run.h).next
  IN  IF run.at < Len(Code(run.h).calls)
      THEN /\ runs' = [runs EXCEPT ![s] = Onward(run, IF Call(s).late THEN run.got ELSE <<>>)]
           /\ UNCHANGED <<ui, issued>>
      ELSE \E end \in Code(run.h).ok :
             LET state == IF ui.here THEN After(ui, end) ELSE ui
             IN  /\ ui' = IF ui.here THEN Entered(then, state) ELSE ui
                 /\ runs' = [Left(then) EXCEPT ![s] =
                      IF Calls(then, state) = <<>> THEN Free ELSE Begun(then, ui', data, issued)]
                 /\ issued' = issued + Cost(Calls(then, state))

(* What the page holds of r then; nothing is shown on a page that was left. *)
Held(s, r) ==
  IF ~ui.here \/ Call(s).late \/ r \notin DOMAIN runs[s].got THEN view[r]
  ELSE IF IsWrite(Call(s)) /\ r \in Call(s).on THEN Written(s, r) ELSE Read(s, r)

Answer(s) ==
  /\ Busy(s)
  /\ Served(s)
  /\ view' = [r \in DOMAIN view |-> Held(s, r)]
  /\ acked' = IF IsWrite(Call(s)) THEN acked \cup {Number(runs[s])} ELSE acked
  /\ GoOn(s, view')
  /\ UNCHANGED <<page, db, denied, crossed, faults>>

(* A request fails, before or after it took effect, and the catch and the   *)
(* finally of the handler run.                                              *)
Fail_NoFinallyFault(s) ==
  /\ Busy(s)
  /\ Call(s).soft = ""
  /\ faults < MaxFaults
  /\ faults' = faults + 1
  /\ runs' = [runs EXCEPT ![s] = Free]
  /\ UNCHANGED <<page, ui, view, db, issued, acked, denied, crossed>>
Fail_TriesAgainFault(s) ==
  /\ Busy(s)
  /\ Call(s).soft = ""
  /\ faults < MaxFaults
  /\ faults' = faults + 1
  /\ denied' = IF Code(runs[s].h).tells /\ ~(IsWrite(Call(s)) /\ Served(s))
               THEN denied \cup (runs[s].base + 1)..Number(runs[s]) ELSE denied
  /\ UNCHANGED <<page, ui, view, runs, db, issued, acked, crossed>>
Fail(s) ==
  /\ Busy(s)
  /\ Call(s).soft = ""
  /\ faults < MaxFaults
  /\ faults' = faults + 1
  /\ IF ui.here THEN \E end \in Code(runs[s].h).err : ui' = After(ui, end) ELSE UNCHANGED ui
  /\ runs' = [runs EXCEPT ![s] = Free]
  /\ denied' = IF Code(runs[s].h).tells /\ ~(IsWrite(Call(s)) /\ Served(s))
               THEN denied \cup (runs[s].base + 1)..Number(runs[s]) ELSE denied
  /\ UNCHANGED <<page, view, db, issued, acked, crossed>>

(* A request is answered 401: the token is removed and the browser loads    *)
(* the sign-in page, which ends every handler.                              *)
Expel(s) ==
  /\ Script[page].expels
  /\ ui.here
  /\ Busy(s)
  /\ Call(s).soft # "never"
  /\ faults < MaxFaults
  /\ faults' = faults + 1
  /\ ui' = [ui EXCEPT !.here = FALSE]
  /\ runs' = [q \in Slots |-> Free]
  /\ UNCHANGED <<page, view, db, issued, acked, denied, crossed>>

(* Another session changes a resource.  Of what is shown under a selection  *)
(* only what it was asked for is followed, unless the page polls.            *)
Elsewhere(r) ==
  /\ Script[page].under[r] = "" \/ Script[page].timer # {}
  /\ issued < MaxChanges
  /\ issued' = issued + 1
  /\ db' = [db EXCEPT ![r] = @ \cup {issued + 1}]
  /\ UNCHANGED <<page, ui, view, runs, acked, denied, crossed, faults>>

-----------------------------------------------------------------------------
Init ==
  /\ page \in Pages
  /\ ui = Script[page].start
  /\ view = [r \in Data |-> [of |-> 0, seen |-> {}]]
  /\ db = [r \in Data |-> {}]
  /\ issued = 0
  /\ runs = [s \in Slots |-> IF s <= Len(Script[page].mount)
                             THEN Begun(Script[page].mount[s], ui, view, 0) ELSE Free]
  /\ acked = {}
  /\ denied = {}
  /\ crossed = FALSE
  /\ faults = 0

Next ==
  \/ \E h \in DOMAIN Script[page].code : Use(h) \/ Tick(h)
  \/ \E s \in Slots : (\E r \in Data : Serve(s, r) \/ Catch(s, r)) \/ Answer(s) \/ Fail(s) \/ Expel(s)
  \/ \E r \in Data : Elsewhere(r)

Spec == Init /\ [][Next]_vars

(* The intervals of a page go on, and every request is handled and answered *)
(* in the end.  An interval fires when a slot is free for what it starts,    *)
(* which the other handlers may take again and again.                        *)
Intervals == {"fetchData", "fetchReportData", "getAuditLogs", "getDailyUsage", "poll"}

Proceeds(s) == Answer(s) \/ \E r \in Data : Serve(s, r)

Fairness ==
  /\ \A h \in Intervals : SF_vars(Tick(h))
  /\ \A s \in Slots : WF_vars(Proceeds(s))

FairSpec == Spec /\ Fairness

Quiet == \A s \in Slots : ~Busy(s)

(* What is shown was stored. *)
ShowsStored == \A r \in Data : view[r].seen \subseteq db[r]

-----------------------------------------------------------------------------
(* Types: a run is at one of its handler's requests and has numbers of its  *)
(* own, what is shown and stored are changes that were numbered.            *)
Numbers(run) == run.base + 1 .. run.base + Cardinality(Writes(run.h))

TypeOK ==
  /\ page \in Pages
  /\ DOMAIN ui = DOMAIN Script[page].start
  /\ DOMAIN view = Data /\ \A r \in Data : view[r].of \in {0} \cup Chosen /\ view[r].seen \subseteq 1..issued
  /\ db \in [Data -> SUBSET (1..issued)]
  /\ issued \in Nat /\ faults \in 0..MaxFaults
  /\ acked \cup denied \subseteq 1..issued /\ crossed \in BOOLEAN
  /\ DOMAIN runs = Slots
  /\ \A s \in Slots : Busy(s) =>
       /\ runs[s].h \in DOMAIN Script[page].code /\ runs[s].at \in 1..Len(Code(runs[s].h).calls)
       /\ Numbers(runs[s]) \subseteq 1..issued
       /\ DOMAIN runs[s].got \subseteq Data
  /\ \A s, q \in Slots : Busy(s) /\ Busy(q) /\ s # q => Numbers(runs[s]) \cap Numbers(runs[q]) = {}
=============================================================================
