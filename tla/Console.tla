-------------------------------- MODULE Console --------------------------------
(* The pages of the web console, and what each of them owes its user.       *)
EXTENDS ConsolePage, ConsoleOrganization, ConsoleAccount, ConsoleEntry,
        ConsoleGovernance, ConsoleCompliance, VerifierUi

(* All pages.  As a LET they are one value: TLC's statistics of an action   *)
(* would unfold a record of this size wherever Script is mentioned.         *)
AllPages ==
  LET pages ==
      [orgTeam |-> OrgTeam, team |-> Team, projects |-> Projects, apiKeys |-> ApiKeys, superadmin |-> SuperAdmin,
       settings |-> Settings, orgSettings |-> OrgSettings, notifications |-> Notifications, webhooks |-> Webhooks,
       billing |-> Billing, usage |-> Usage,
       login |-> Login, signup |-> Signup, acceptInvite |-> AcceptInvite, resetPassword |-> ResetPassword,
       forgotPassword |-> ForgotPassword, sso |-> Sso, onboarding |-> Onboarding, getStarted |-> GetStarted,
       governance |-> Governance, decisionReview |-> DecisionReview, proposalReview |-> ProposalReview,
       rules |-> Rules, decisions |-> Decisions, decisionDetail |-> DecisionDetail, alerts |-> Alerts,
       audit |-> Audit, auditLog |-> AuditLog, dashboard |-> Dashboard, reports |-> Reports, exports |-> Exports,
       status |-> Status,
       frias |-> Frias, conformity |-> Conformity, techDocs |-> TechDocs, monitoring |-> Monitoring,
       incidentReports |-> IncidentReports, fria |-> Fria, assessment |-> Assessment, techDoc |-> TechDoc,
       incidentReport |-> IncidentReport, aiSystems |-> AiSystems, aiSystem |-> AiSystem,
       compliance |-> Compliance, complianceReport |-> ComplianceReport, aiActAssessment |-> AiActAssessment,
       identity |-> Identity, retention |-> Retention, residency |-> Residency, deployment |-> Deployment,
       chainOverview |-> ChainOverview, decisionList |-> DecisionList, verificationReport |-> VerificationReport]
  IN  pages

-----------------------------------------------------------------------------
(* A page at rest that nobody has left and no request of which has failed.  *)
Settled == Quiet /\ ui.here
Calm == Settled /\ faults = 0 /\ ~crossed

(* A flag is covered by handlers: only they set it, and each of them resets *)
(* it wherever it ends, leaves the page or hands it on to the next of them. *)
Covered(p, flag, by) ==
  LET code == Script[p].code
      Sets(update) == flag \in DOMAIN update /\ update[flag] # FALSE
      Resets(update) ==
        \/ flag \in DOMAIN update /\ update[flag] = FALSE
        \/ "here" \in DOMAIN update
      HandsOn(update, h) ==
        /\ code[h].next \in by
        /\ \A f \in DOMAIN code[code[h].next].when :
             f \in DOMAIN update /\ f \in DOMAIN Script[p].start /\ update[f] \in code[code[h].next].when[f]
  IN  /\ flag \in DOMAIN Script[p].start
      /\ Script[p].start[flag] = FALSE \/ \E i \in DOMAIN Script[p].mount : Script[p].mount[i] \in by
      /\ \A h \in by : h # "" /\ code[h].calls # <<>> /\ ~code[h].latest
      /\ \A h \in DOMAIN code :
           /\ code[h].pick # flag
           /\ Sets(code[h].begin) => h \in by
           /\ \A update \in code[h].ok \cup code[h].err : ~Sets(update)
      /\ \A h \in by :
           /\ \A update \in code[h].ok : Resets(update) \/ HandsOn(update, h)
           /\ \A update \in code[h].err :
                Resets(update) \/ \A k \in DOMAIN code[h].calls : code[h].calls[k].soft # ""

ASSUME PendingAssumption ==
  \A p \in Pages : \A flag \in Script[p].busy : \E by \in SUBSET DOMAIN Script[p].code : Covered(p, flag, by)

(* Whatever fails, the spinner and the locked button go away: once no       *)
(* handler is under way, no flag says that one is.  Not so where the page   *)
(* has no catch around its load (settings/notifications).                   *)
NothingPending == Settled => \A f \in Script[page].busy : ~ui[f]

(* Pages that show a change before it was answered; a failure leaves it     *)
(* there.                                                                   *)
Optimistic == {"notifications", "fria", "assessment", "techDoc", "incidentReport", "aiSystem"}

(* A page that shows a change only when it was answered: it neither changes *)
(* its copy before nor stores a document as a whole.                        *)
Careful(p) ==
  \A h \in DOMAIN Script[p].code :
    LET code == Script[p].code[h]
    IN  "first" \notin code.local /\ \A k \in DOMAIN code.calls : code.calls[k].op # "put"

ASSUME CarefulAssumption == \A p \in Pages \ Optimistic : Careful(p)

(* However requests fail and answers cross, every other page shows only     *)
(* changes the control plane has made: none that it only asked for.         *)
ShownIsStored == page \notin Optimistic => ShowsStored

Documents == {"fria", "assessment", "techDoc", "incidentReport", "aiSystem"}

(* A page that keeps one document: an edit is one request, which stores the *)
(* document as a whole and is shown before it is answered or as it was      *)
(* sent; only a control starts it, and nothing empties what is shown.       *)
KeepsDocument(p) ==
  LET code == Script[p].code
      edits == {h \in DOMAIN code : \E k \in DOMAIN code[h].calls : code[h].calls[k].op # "get"}
  IN  \A h \in DOMAIN code :
        /\ code[h].clears = {} /\ {code[h].next, code[h].also} \cap edits = {}
        /\ h \in edits =>
             /\ DOMAIN code[h].calls = {1}
             /\ code[h].calls[1].op = "put" /\ code[h].calls[1].on = Script[p].data
             /\ code[h].next = "" /\ code[h].also = "" /\ code[h].local \in {{"first"}, {"sent"}}

ASSUME DocumentsAssumption == \A p \in Pages \cap Documents : KeepsDocument(p)

(* A document that is stored as a whole keeps every edit of this tab.       *)
EditsKept == Calm /\ page \in Documents => \A r \in Data : acked \subseteq db[r]

Misleading == {"projects", "getStarted", "settings"}

(* A page whose catches tell the truth: where one tells that what was asked *)
(* failed, nothing can fail any more once one resource was changed, and no  *)
(* document that is stored as a whole carries a change along.               *)
Truthful(p) ==
  LET code == Script[p].code
  IN  \A h \in DOMAIN code : code[h].tells =>
        /\ \A g \in DOMAIN code : \A k \in DOMAIN code[g].calls : code[g].calls[k].op # "put"
        /\ \A k \in DOMAIN code[h].calls : code[h].calls[k].op # "get" =>
             /\ \A r, q \in code[h].calls[k].on : r = q
             /\ \A j \in DOMAIN code[h].calls : j > k => code[h].calls[j].soft # ""

ASSUME TruthfulAssumption == \A p \in Pages \ Misleading : Truthful(p)

(* What the page tells its user has failed did not happen: where a handler  *)
(* has two steps it goes on after the first.                                *)
FailureTruthful ==
  page \notin Misleading => \A r \in Data : denied \cap db[r] = {}

(* Handlers that lock their controls, and those of each other.              *)
Locks ==
  [team |-> {{"handleInvite"}}, settings |-> {{"handleSaveOrg"}, {"handleRequestDeleteOtp", "handleConfirmDelete"}},
   webhooks |-> {{"createMutation", "createForNobody"}, {"deleteMutation"}}, login |-> {{"handleLogin"}},
   acceptInvite |-> {{"onSubmit"}}, resetPassword |-> {{"handleSubmit"}},
   billing |-> {{"handlePortal"}},
   decisionReview |-> {{"handleResolve"}}, proposalReview |-> {{"approve", "reject"}},
   aiActAssessment |-> {{"handleDraft"}, {"handleSeal"}}, verificationReport |-> {{"runFullVerification"}}]

(* A flag locks handlers: each of them sets it first, no control of theirs  *)
(* is enabled while it is set, nothing else calls them or changes it.       *)
Locked(p, lock, flag) ==
  LET script == Script[p]
      Keeps(update) == flag \notin DOMAIN update
  IN  /\ flag \in DOMAIN script.start
      /\ lock \subseteq DOMAIN script.shown
      /\ lock \cap (script.timer \cup {script.mount[i] : i \in DOMAIN script.mount}) = {}
      /\ \A h \in DOMAIN script.code :
           LET code == script.code[h]
           IN  /\ {code.next, code.also} \cap lock = {} /\ code.pick # flag
               /\ IF h \in lock
                  THEN /\ ~Keeps(code.begin) /\ code.begin[flag] = TRUE
                       /\ flag \in DOMAIN script.shown[h] /\ TRUE \notin script.shown[h][flag]
                  ELSE Keeps(code.begin) /\ \A end \in code.ok \cup code.err : Keeps(end)

ASSUME LocksAssumption ==
  \A p \in Pages \cap DOMAIN Locks : \A lock \in Locks[p] : \E flag \in Script[p].busy : Locked(p, lock, flag)

(* Never twice at once: while a decision is being resolved, a member        *)
(* invited or an organisation deleted, no second click does it again,       *)
(* however answers and failures of the page's other requests come in        *)
(* between.  Once answered it can be done again until the page is left.     *)
NoTwin ==
  page \in DOMAIN Locks => \A lock \in Locks[page] : Cardinality({s \in Slots : Busy(s) /\ runs[s].h \in lock}) <= 1

(* Pages that reload or patch what their own handlers change; on some of    *)
(* them an answer that comes late can hide a change that was made beside    *)
(* it, on the others a lock, a cancelled request or an own copy prevents it.*)
(* The older team page is not one of them: it never asks for the            *)
(* invitations it makes.                                                    *)
Reloading == {"orgTeam", "projects", "apiKeys", "superadmin", "notifications", "rules", "aiSystems", "aiSystem"}
Raceless == {"settings", "orgSettings", "webhooks", "alerts", "fria", "assessment", "techDoc", "incidentReport"}

(* What a handler changes, and what it asks for from its k-th request on,   *)
(* itself or by the handler it calls at its end.                            *)
Changes(p, h) ==
  LET calls == Script[p].code[h].calls
  IN  {k \in DOMAIN calls : calls[k].op # "get"}

Fetches(p, h, r, k) ==
  LET calls == Script[p].code[h].calls
  IN  \E j \in DOMAIN calls : j >= k /\ calls[j].op = "get" /\ r \in calls[j].on

Follows(p, h, r) ==
  LET next == Script[p].code[h].next
  IN  next # "" /\ Fetches(p, next, r, 1)

(* No handler empties what is shown, or shows an answer only under the      *)
(* selection it was asked under; what is called at an end always runs, and  *)
(* changes nothing.                                                         *)
Plain(p) ==
  LET code == Script[p].code
  IN  /\ "" \notin DOMAIN code
      /\ \A h \in DOMAIN code :
           /\ code[h].clears = {} /\ code[h].also = "" /\ ~code[h].keyed
           /\ code[h].calls # <<>> => ~code[h].calls[Len(code[h].calls)].late
           /\ code[h].next # "" => DOMAIN code[code[h].next].when = {} /\ Changes(p, code[h].next) = {}

(* A page that reloads or patches: each change is in what the page sent, in *)
(* what it adds to its copy or was answered, or it is asked for afterwards. *)
Reloads(p) ==
  LET code == Script[p].code
  IN  \A h \in DOMAIN code : \A k \in Changes(p, h) :
        LET call == code[h].calls[k]
        IN  /\ call.op = "put" => call.on = Script[p].data /\ "sent" \in code[h].local
            /\ "sent" \in code[h].local => code[h].local = {"sent"} /\ DOMAIN code[h].calls = {1}
            /\ code[h].local \cap {"sent", "now", "answer"} = {} =>
                 \A r \in call.on : Fetches(p, h, r, k + 1) \/ Follows(p, h, r)

ASSUME ReloadingAssumption == \A p \in Pages \cap Reloading : Plain(p) /\ Reloads(p)

(* What only looks, at what is not shown, and ends there.                   *)
Looks(p, h) ==
  LET calls == Script[p].code[h].calls
  IN  \A k \in DOMAIN calls : calls[k].op = "get" /\ calls[k].on = {}
Aside(p, h) == Looks(p, h) /\ Script[p].code[h].next = ""

(* A page that is loaded by one handler, its first or the one its first     *)
(* calls.  Until that has ended a flag has the value it was mounted with,   *)
(* and the controls that are enabled then only look.                        *)
Loads(p, m, flag) ==
  LET script == Script[p]
      first == script.mount[1]
  IN  /\ DOMAIN script.mount = {1} /\ script.timer = {} /\ flag \in DOMAIN script.start
      /\ m = first \/ (m = script.code[first].next /\ Looks(p, first))
      /\ \A h \in DOMAIN script.code :
           LET code == script.code[h]
           IN  /\ code.next # first /\ code.pick # flag /\ flag \notin DOMAIN code.begin
               /\ code.next = m => h = first /\ h # m
               /\ h # m => \A update \in code.ok \cup code.err : flag \notin DOMAIN update
      /\ \A h \in DOMAIN script.shown :
           /\ h \notin {m, first}
           /\ Aside(p, h) \/ (flag \in DOMAIN script.shown[h] /\ script.start[flag] \notin script.shown[h][flag])

(* A control that is enabled only after a request has failed.               *)
AfterFault(p, g, f) ==
  LET script == Script[p]
  IN  /\ g # "" /\ g \in DOMAIN script.shown /\ f \in DOMAIN script.start /\ f \in DOMAIN script.shown[g]
      /\ script.start[f] \notin script.shown[g][f]
      /\ g \notin script.timer \cup {script.mount[i] : i \in DOMAIN script.mount}
      /\ \A h \in DOMAIN script.code :
           /\ script.code[h].next # g /\ script.code[h].pick # f
           /\ \A update \in {script.code[h].begin} \cup script.code[h].ok :
                f \in DOMAIN update => update[f] \notin script.shown[g][f]

Leaves(p, h, k) ==
  /\ k = Len(Script[p].code[h].calls)
  /\ \A end \in Script[p].code[h].ok : "here" \in DOMAIN end

(* After it was loaded, such a page only adds to its copy what it changes,  *)
(* before or after the answer, or is left with the answer;                  *)
Accumulates(p, m, flag) ==
  LET code == Script[p].code
  IN  /\ Loads(p, m, flag)
      /\ \A h \in DOMAIN code \ {m} : \A k \in DOMAIN code[h].calls :
           LET call == code[h].calls[k]
           IN  IF call.op = "get" THEN call.on = {}
               ELSE /\ call.on = Script[p].data
                    /\ \/ code[h].local = {"now"}
                       \/ code[h].local = {"first"} /\ DOMAIN code[h].calls = {1}
                       \/ Leaves(p, h, k)

(* or it asks for all data after each change, and no answer that was asked  *)
(* for before is shown after: the handler is locked, or cancels who asks,   *)
(* or only after a failure does anybody ask.                                *)
Refetches(p, m, flag) ==
  LET code == Script[p].code
  IN  /\ Loads(p, m, flag)
      /\ \A h \in DOMAIN code : \A k \in Changes(p, h) :
           /\ code[h].calls[k].op = "add" /\ code[h].calls[k].on = Script[p].data /\ code[h].local = {}
           /\ \/ Leaves(p, h, k)
              \/ \A r \in Script[p].data :
                   /\ Fetches(p, h, r, k + 1) \/ Follows(p, h, r)
                   /\ \A g \in DOMAIN code \ {m} : Fetches(p, g, r, 1) =>
                        \/ g = h /\ \E lock \in Script[p].busy : Locked(p, {h}, lock)
                        \/ g = code[h].next /\ code[g].latest /\ k = Len(code[h].calls)
                        \/ \E f \in DOMAIN Script[p].start : AfterFault(p, g, f)

ASSUME RacelessAssumption ==
  \A p \in Pages \cap Raceless :
    Plain(p) /\ \E m \in DOMAIN Script[p].code, flag \in DOMAIN Script[p].start : Accumulates(p, m, flag) \/ Refetches(p, m, flag)

(* What this tab did and was told had been done is on the screen when it    *)
(* comes to rest, although reloads and own copies race.                     *)
OwnChangesShown ==
  (page \in Reloading /\ Calm) \/ (page \in Raceless /\ Settled /\ faults = 0) =>
    \A r \in Data : acked \cap db[r] \subseteq view[r].seen

(* A resource is keyed: what asks for it shows the answer only while the    *)
(* selection is the one it asked under, and a change of the selection       *)
(* empties what is shown.                                                   *)
Keyed(p, r) ==
  LET code == Script[p].code
      field == Script[p].under[r]
  IN  \A h \in DOMAIN code :
        /\ \A k \in DOMAIN code[h].calls : r \in code[h].calls[k].on =>
             code[h].calls[k].op = "get" /\ code[h].of = field /\ (field = "" \/ code[h].keyed)
        /\ field # "" =>
             /\ \A update \in Updates(p, h) : field \notin DOMAIN update
             /\ code[h].pick = field => r \in code[h].clears

(* A resource is hidden behind a flag while it is asked for: each change of *)
(* its selection asks at once, no control that makes one is enabled while   *)
(* the flag is set, and if the request fails the page shows an error.       *)
Readers(p, r) == {h \in DOMAIN Script[p].code :
                    \E k \in DOMAIN Script[p].code[h].calls : r \in Script[p].code[h].calls[k].on}
Reader(p, r, flag, h) ==
  LET code == Script[p].code[h]
      field == Script[p].under[r]
  IN  /\ h # "" /\ h \notin DOMAIN Script[p].shown \cup Script[p].timer
      /\ DOMAIN code.when = {} /\ code.of = field /\ flag \in DOMAIN code.begin /\ code.begin[flag] = TRUE
      /\ DOMAIN code.calls = {1} /\ ~code.keyed
      /\ code.calls[1].op = "get" /\ code.calls[1].soft = "" /\ ~code.calls[1].late
      /\ \A update \in code.err : "error" \in DOMAIN update
Hidden(p, r, flag) ==
  LET script == Script[p]
      field == script.under[r]
      readers == Readers(p, r)
  IN  /\ {flag, "error"} \subseteq DOMAIN script.start /\ script.start[flag] = TRUE
      /\ field \notin {"", flag, "error"} /\ flag # "error"
      /\ \A i, j \in DOMAIN script.mount : {script.mount[i], script.mount[j]} \subseteq readers => i = j
      /\ \A h \in readers : Reader(p, r, flag, h)
      /\ \A h \in DOMAIN script.code :
           LET code == script.code[h]
           IN  /\ code.next \notin readers /\ code.pick \notin {flag, "error"}
               /\ \A update \in Updates(p, h) :
                    /\ field \notin DOMAIN update
                    /\ "error" \in DOMAIN update => update["error"] = TRUE
                    /\ flag \in DOMAIN update => h \in readers
               /\ code.pick = field => code.also \in readers
               /\ code.also \in readers =>
                    /\ h \in DOMAIN script.shown /\ h \notin script.timer
                    /\ flag \in DOMAIN script.shown[h] /\ TRUE \notin script.shown[h][flag]

ASSUME SelectedAssumption ==
  \A p \in Pages : \A r \in Script[p].data :
    /\ p = "dashboard" => Keyed(p, r)
    /\ p = "decisionList" => \E flag \in Script[p].busy : Hidden(p, r, flag)

(* What is shown under a selection is that selection's, on the page that    *)
(* keys its queries and on the one that hides its controls meanwhile.       *)
ShownIsSelected ==
  Settled /\ (page = "dashboard" \/ (page = "decisionList" /\ ~ui.error)) =>
    \A r \in Data : view[r].seen # {} => view[r].of = Under(r, ui)

(* The steps of a guide: what its handlers set the step to, at the start or *)
(* at the end.                                                              *)
Targets(p, h) == {u["step"] : u \in {v \in Updates(p, h) : "step" \in DOMAIN v}}
Steppers(p) == {h \in DOMAIN Script[p].code : Targets(p, h) # {}}
Reached(p) == {Script[p].start["step"]} \cup UNION {Targets(p, h) : h \in DOMAIN Script[p].code}
Final(p, h) == \A n \in Targets(p, h), m \in Reached(p) : m <= n
StepsAtEnd(p, h) == \E end \in Script[p].code[h].ok : "step" \in DOMAIN end
Rivals(p, h) == {g \in Steppers(p) : Script[p].shown[g]["step"] \cap Script[p].shown[h]["step"] # {}}

(* A guide: the step is set by controls only, each shown at steps not after *)
(* the one it sets.  A handler that sets it at the end sets the last step,  *)
(* or a flag locks the controls that are shown where its own is.            *)
Guided(p) ==
  LET script == Script[p]
      at(h) == script.shown[h]["step"]
  IN  /\ "step" \in DOMAIN script.start /\ Reached(p) \subseteq Nat
      /\ \A h \in DOMAIN script.code :
           script.code[h].pick # "step" /\ {script.code[h].next, script.code[h].also} \cap Steppers(p) = {}
      /\ Steppers(p) \cap (script.timer \cup {script.mount[i] : i \in DOMAIN script.mount}) = {}
      /\ \A h \in Steppers(p) :
           /\ h \in DOMAIN script.shown /\ "step" \in DOMAIN script.shown[h] /\ at(h) \subseteq Nat
           /\ \A m \in at(h), n \in Targets(p, h) : m <= n
           /\ \A end \in script.code[h].err : "step" \notin DOMAIN end
           /\ StepsAtEnd(p, h) => "step" \notin DOMAIN script.code[h].begin
           /\ StepsAtEnd(p, h) /\ ~Final(p, h) =>
                /\ \E flag \in DOMAIN script.start : Locked(p, Rivals(p, h), flag)
                /\ \A g \in Steppers(p) \ Rivals(p, h) :
                     StepsAtEnd(p, g) /\ Final(p, g) => \A k \in at(h), m \in at(g) : k < m

Guides == {"onboarding", "getStarted"}

ASSUME GuidesAssumption == \A p \in Pages \cap Guides : Guided(p)

(* Guides go forward, whatever else is under way and whenever it ends.      *)
GuideAdvances == page \in Guides => ui'.step >= ui.step
StepsForward == [][GuideAdvances]_vars

(* What a page polls, once it knows for whom. *)
Polled ==
  CASE page = "governance" -> {"queue", "history"}
    [] page = "reports" -> {"projects", "governance"}
    [] page = "dashboard" /\ ui.org -> {"logs"}
    [] page = "decisions" /\ ui.project # 0 -> {"decisions"}
    [] OTHER -> {}

(* However answers of overlapping polls are reordered and requests fail, a  *)
(* polled page shows the control plane's last state in the end.             *)
Behind == ui.here /\ \E r \in Polled : view[r].seen # db[r]
CatchesUp == <>[]~Behind
=============================================================================
