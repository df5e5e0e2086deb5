-------------------------- MODULE ConsoleCompliance --------------------------
(* Pages of the console for the EU AI Act: the systems of an organisation   *)
(* and the documents kept about each; and the settings of an organisation   *)
(* that exist in the browser only.                                          *)
EXTENDS ConsoleScript

(* A register of documents: fria, conformity, tech-docs, monitoring and     *)
(* incident-report.  A new document is sent, the list asked for at the same *)
(* time and the window closed, and no failure is told.                      *)
RegisterCode(list) ==
  [load |-> [Do EXCEPT !.calls = <<OrKeep(Get({list}))>>],
   loadSystems |-> [Do EXCEPT !.calls = <<OrKeep(Get({"systems"}))>>, !.ok = {[known |-> k] : k \in BOOLEAN}],
   open |-> Set([showModal |-> TRUE]),
   select |-> Set([system |-> TRUE]),
   close |-> Set([showModal |-> FALSE]),
   handleCreate |->
     [Do EXCEPT !.when = [system |-> Yes], !.begin = [showModal |-> FALSE, system |-> FALSE],
                !.calls = <<Change(list)>>, !.also = "load"]]

RegisterShown ==
  LET opened == [showModal |-> Yes]
  IN  [open |-> [showModal |-> No], close |-> opened, select |-> opened @@ [known |-> Yes],
       handleCreate |-> opened @@ [system |-> Yes]]

Register(list) ==
  Page([known |-> FALSE, showModal |-> FALSE, system |-> FALSE], list :> "" @@ [systems |-> ""], {},
       <<"load", "loadSystems">>, {}, RegisterCode(list), RegisterShown)

Frias == Register("frias")
Conformity == Register("assessments")
TechDocs == Register("docs")

(* The plans are shown one at a time. *)
Monitoring ==
  LET plans == Register("plans")
  IN  [plans EXCEPT !.start = @ @@ [plan |-> 0],
                    !.code = @ @@ [selectPlan |-> [Set(<<>>) EXCEPT !.pick = "plan"]],
                    !.shown = @ @@ [selectPlan |-> [showModal |-> No]]]

IncidentReports == Register("incidents")

-----------------------------------------------------------------------------
(* A document: each edit is stored as a whole, not awaited, and shown at    *)
(* once.  One that is not found is left.                                    *)

LoadDocument(document, found) ==
  [Do EXCEPT !.calls = <<Get({document})>>, !.ok = {[here |-> FALSE]} \cup found, !.err = {[here |-> FALSE]}]

Edit(document, begin) ==
  [Do EXCEPT !.begin = begin, !.calls = <<Store(document)>>, !.local = {"first"}]

(* fria/[friaId]/page.tsx: five steps, the last one completes and submits.  *)
FriaCode ==
  LET edit == [Edit("fria", <<>>) EXCEPT !.when = [fria |-> Yes]]
  IN  [load |-> LoadDocument("fria", {[fria |-> TRUE, status |-> s] : s \in {"draft", "complete", "submitted"}}),
       update |-> edit,
       handleComplete |-> [edit EXCEPT !.begin = [status |-> "complete"]],
       handleSubmit |-> [edit EXCEPT !.begin = [status |-> "submitted"]],
       review |-> Set([reviewing |-> TRUE]),
       back |-> Set([reviewing |-> FALSE])]

FriaShown ==
  LET step(last) == [fria |-> Yes, reviewing |-> {last}]
  IN  [update |-> step(FALSE), review |-> step(FALSE), back |-> step(TRUE),
       handleComplete |-> step(TRUE) @@ [status |-> {"draft"}],
       handleSubmit |-> step(TRUE) @@ [status |-> {"complete"}]]

Fria ==
  Page([fria |-> FALSE, status |-> "draft", reviewing |-> FALSE], [fria |-> ""], {}, <<"load">>, {},
       FriaCode, FriaShown)

(* conformity/[assessmentId]/page.tsx: the declaration can be made when     *)
(* every requirement is met, and stays when one no longer is.               *)
AssessmentCode ==
  [load |-> LoadDocument("assessment", {[assessment |-> TRUE, met |-> m, declared |-> d] : m, d \in BOOLEAN}),
   meetLast |-> Edit("assessment", [met |-> TRUE]),
   reopen |-> Edit("assessment", [met |-> FALSE]),
   handleGenerateCE |-> Edit("assessment", [declared |-> TRUE])]

Assessment ==
  LET loaded == [assessment |-> Yes]
  IN  Page([assessment |-> FALSE, met |-> FALSE, declared |-> FALSE], [assessment |-> ""], {}, <<"load">>, {},
           AssessmentCode,
           [meetLast |-> loaded @@ [met |-> No], reopen |-> loaded @@ [met |-> Yes],
            handleGenerateCE |-> loaded @@ [met |-> Yes, declared |-> No]])

(* tech-docs/[docId]/page.tsx *)
TechDoc ==
  LET loaded == [doc |-> Yes]
  IN  Page([doc |-> FALSE, editMode |-> FALSE], [doc |-> ""], {}, <<"load">>, {},
           [load |-> LoadDocument("doc", {[doc |-> TRUE]}),
            edit |-> Set([editMode |-> TRUE]),
            preview |-> Set([editMode |-> FALSE]),
            updateSection |-> Edit("doc", <<>>)],
           [edit |-> loaded @@ [editMode |-> No], preview |-> loaded @@ [editMode |-> Yes],
            updateSection |-> loaded @@ [editMode |-> Yes]])

(* incident-report/[reportId]/page.tsx: a report that was submitted can be  *)
(* set to draft again, and submitted again.                                 *)
IncidentReport ==
  LET loaded == [report |-> Yes]
  IN  Page([report |-> FALSE, status |-> "draft"], [report |-> ""], {}, <<"load">>, {},
           [load |-> LoadDocument("report",
                       {[report |-> TRUE, status |-> s] : s \in {"draft", "submitted", "acknowledged"}}),
            updateForm |-> Edit("report", <<>>),
            setDraft |-> Edit("report", [status |-> "draft"]),
            handleSubmit |-> Edit("report", [status |-> "submitted"])],
           [updateForm |-> loaded, setDraft |-> loaded, handleSubmit |-> loaded @@ [status |-> {"draft"}]])

-----------------------------------------------------------------------------
(* ai-systems/page.tsx.  A system is saved and then the list is asked for;  *)
(* deletion of one is not implemented and only asks for the list.           *)
AiSystemsCode ==
  [load |-> [Do EXCEPT !.calls = <<OrKeep(Get({"systems"}))>>],
   loadProjects |-> [Do EXCEPT !.calls = <<Ask, OrKeep(Get({"projects"}))>>],
   open |-> Set([showModal |-> TRUE]),
   close |-> Set([showModal |-> FALSE]),
   handleCreate |->
     [Do EXCEPT !.begin = [showModal |-> FALSE], !.calls = <<Change("systems"), Get({"systems"})>>],
   handleDelete |-> [Do EXCEPT !.calls = <<Get({"systems"})>>]]

AiSystems ==
  Page([showModal |-> FALSE], [systems |-> "", projects |-> ""], {}, <<"load", "loadProjects">>, {},
       AiSystemsCode,
       [open |-> [showModal |-> No], close |-> [showModal |-> Yes], handleCreate |-> [showModal |-> Yes],
        handleDelete |-> [showModal |-> No]])

(* ai-systems/[systemId]/page.tsx.  A change is shown when it was stored;   *)
(* the wizard shows its result before.                                      *)
AiSystemCode ==
  LET update == [Do EXCEPT !.calls = <<Store("system")>>, !.local = {"sent"}]
  IN  [load |-> LoadDocument("system", {[system |-> TRUE, wizardStep |-> s] : s \in {1, 4}}),
       updateSystem |-> update,
       handleCompleteClassification |-> [update EXCEPT !.begin = [wizardStep |-> 4]],
       annexThree |-> Set([wizardStep |-> 2]),
       exemptions |-> Set([wizardStep |-> 3]),
       back |-> Set([wizardStep |-> 1]),
       backToAnnexThree |-> Set([wizardStep |-> 2]),
       reclassify |-> Set([wizardStep |-> 1])]

AiSystemWizard ==
  LET at(steps) == [system |-> Yes, wizardStep |-> steps]
  IN  [handleCompleteClassification |-> at(1..3), annexThree |-> at({1}), exemptions |-> at({2}),
       back |-> at({2}), backToAnnexThree |-> at({3}), reclassify |-> at({4})]

AiSystem ==
  Page([system |-> FALSE, wizardStep |-> 0], [system |-> ""], {}, <<"load">>, {},
       AiSystemCode, AiSystemWizard @@ [updateSystem |-> [system |-> Yes]])

-----------------------------------------------------------------------------
(* compliance/page.tsx computes the scores from five lists asked for        *)
(* together, and selects the first system.                                  *)
Compliance ==
  Page([system |-> 0], [systems |-> "", conformity |-> "", frias |-> ""], {}, <<"load">>, {},
       [load |-> [Do EXCEPT !.calls = <<Get({"systems", "conformity", "frias"})>>, !.ok = {<<>>, [system |-> 1]}],
        select |-> [Set(<<>>) EXCEPT !.pick = "system"]],
       [select |-> [system |-> Picked]])

(* compliance-report/page.tsx: the report of the selected system is shown   *)
(* when a timer fires, every article at 100, whatever is selected by then.  *)
ComplianceReportCode ==
  [load |-> Load(<<Get({"systems"})>>, [loading |-> FALSE]),
   select |-> [Set(<<>>) EXCEPT !.pick = "system"],
   generateReport |->
     [Do EXCEPT !.when = [system |-> Picked], !.of = "system", !.begin = [generating |-> TRUE],
                !.calls = <<Wait({"report"})>>, !.ok = {[generating |-> FALSE]}],
   downloadReport |-> Set(<<>>)]

ComplianceReportShown ==
  [select |-> [loading |-> No], generateReport |-> [generating |-> No, loading |-> No, system |-> Picked],
   downloadReport |-> [generating |-> No]]

ComplianceReport ==
  Page([loading |-> TRUE, generating |-> FALSE, system |-> 0], [systems |-> "", report |-> "system"],
       {"loading", "generating"}, <<"load">>, {}, ComplianceReportCode, ComplianceReportShown)

(* ai-act-assessment/page.tsx.  A draft is written for the selected system  *)
(* and sealed for the system that is selected then; a system can be         *)
(* selected at any time but while a sealed document is shown.               *)
AiActCode ==
  [load |-> Load(<<Get({"systems"})>>, [loadingSystems |-> FALSE]),
   select |-> [Set(<<>>) EXCEPT !.pick = "system"],
   handleDraft |->
     [Do EXCEPT !.when = [system |-> Picked], !.of = "system",
                !.begin = [isDrafting |-> TRUE, draftError |-> FALSE, drafted |-> FALSE, sealed |-> FALSE],
                !.clears = {"draft"}, !.calls = <<Get({"draft"})>>,
                !.ok = {[isDrafting |-> FALSE, drafted |-> TRUE]},
                !.err = {[isDrafting |-> FALSE, draftError |-> TRUE]}],
   handleSeal |->
     [Do EXCEPT !.when = [drafted |-> Yes], !.of = "system", !.carries = "draft",
                !.begin = [isSealing |-> TRUE], !.calls = <<Change("sealed")>>,
                !.ok = {[isSealing |-> FALSE, sealed |-> TRUE]}, !.err = {[isSealing |-> FALSE]},
                !.tells = TRUE, !.local = {"answer"}],
   handleReset |-> Set([sealed |-> FALSE, drafted |-> FALSE]),
   handlePrint |-> [Do EXCEPT !.when = [sealed |-> Yes]]]

AiActDrafting ==
  LET open == [sealed |-> No]
  IN  [select |-> open @@ [loadingSystems |-> No],
       handleDraft |-> open @@ [isDrafting |-> No, system |-> Picked],
       handleSeal |-> open @@ [drafted |-> Yes, isDrafting |-> No, isSealing |-> No]]

AiActSealed == [handleReset |-> [sealed |-> Yes], handlePrint |-> [sealed |-> Yes]]

AiActAssessment ==
  Page([loadingSystems |-> TRUE, system |-> 0, isDrafting |-> FALSE, draftError |-> FALSE, drafted |-> FALSE,
        isSealing |-> FALSE, sealed |-> FALSE],
       [systems |-> "", draft |-> "system", sealed |-> ""], {"loadingSystems", "isDrafting", "isSealing"},
       <<"load">>, {}, AiActCode, AiActDrafting @@ AiActSealed)

-----------------------------------------------------------------------------
(* Settings that no request carries: what is asked for in these windows is  *)
(* written to the browser's log, and switches are forgotten on leaving.     *)

Local(switches) ==
  Page([open |-> FALSE], <<>>, {}, <<>>, {},
       [openWindow |-> Set([open |-> TRUE]), submit |-> Set([open |-> FALSE]), close |-> Set([open |-> FALSE])]
       @@ [h \in switches |-> Do],
       [openWindow |-> [open |-> No], submit |-> [open |-> Yes], close |-> [open |-> Yes]]
       @@ [h \in switches |-> [open |-> No]])

(* org/identity/page.tsx, org/retention/page.tsx *)
Identity == Local({"handleTest", "handleToggle"})
Retention == Local({})

(* org/residency/page.tsx: the primary region is always locked, and the     *)
(* other regions are switched on and off.                                   *)
Residency ==
  Page([allowed |-> FALSE, isLocked |-> TRUE], <<>>, {}, <<>>, {},
       [allow |-> Set([allowed |-> TRUE]), forbid |-> Set([allowed |-> FALSE]),
        setAsPrimary |-> [Do EXCEPT !.when = [isLocked |-> No]]],
       [allow |-> [allowed |-> No], forbid |-> [allowed |-> Yes],
        setAsPrimary |-> [allowed |-> Yes, isLocked |-> No]])

(* org/deployment/page.tsx *)
Deployment ==
  Page([currentMode |-> 1], <<>>, {}, <<>>, {},
       [select |-> [Set(<<>>) EXCEPT !.pick = "currentMode"]], [select |-> [currentMode |-> Picked]])
=============================================================================
