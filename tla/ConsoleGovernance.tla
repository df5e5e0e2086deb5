-------------------------- MODULE ConsoleGovernance --------------------------
(* Pages of the console that show decisions, have them reviewed, set the    *)
(* rules reviews come from, and list alerts, audit entries and reports.     *)
EXTENDS ConsoleScript

(* governance/page.tsx asks every five seconds, whatever is under way.  The *)
(* three lists have a catch each, so that a failure shows an empty list and *)
(* never the error.                                                         *)
GovernanceCode ==
  [fetchData |-> Load(<<OrEmpty(Get({"queue", "history"}))>>, [loading |-> FALSE, error |-> FALSE])]

Governance ==
  Page([loading |-> TRUE, error |-> FALSE], [queue |-> "", history |-> ""], {"loading"},
       <<"fetchData">>, {"fetchData"}, GovernanceCode, <<>>)

(* A review, of a decision that waits at the gate or of a proposal: locked  *)
(* while it is sent.  Once it was taken the lock is gone and the page not   *)
(* yet left, so that it can be sent again.  Edited output that is not JSON  *)
(* is refused before anything is sent.                                      *)
Review ==
  [Do EXCEPT !.begin = [submitting |-> TRUE], !.calls = <<Change("reviews")>>,
             !.ok = {[submitting |-> FALSE, pushed |-> TRUE]}, !.err = {[submitting |-> FALSE]}, !.tells = TRUE]

(* governance/[decision_id]/page.tsx *)
DecisionReviewCode ==
  [load |-> [Load(<<Get({"decision", "reviews"})>>, [loading |-> FALSE, pending |-> FALSE]) EXCEPT
               !.ok = {[loading |-> FALSE, pending |-> p] : p \in BOOLEAN}],
   edit |-> Set([editing |-> TRUE]),
   handleResolve |-> Review,
   arrive |-> Arrive,
   invalidEdit |-> [Do EXCEPT !.when = [editing |-> Yes]]]

DecisionReviewShown ==
  LET open == [loading |-> No, pending |-> Yes]
  IN  [edit |-> open, handleResolve |-> open @@ [submitting |-> No],
       invalidEdit |-> open @@ [submitting |-> No]]

DecisionReview ==
  Page([loading |-> TRUE, pending |-> FALSE, editing |-> FALSE, submitting |-> FALSE, pushed |-> FALSE],
       [decision |-> "", reviews |-> ""], {"loading", "submitting"}, <<"load">>, {"arrive"},
       DecisionReviewCode, DecisionReviewShown)

(* governance/proposals/[id]/page.tsx: a rejection needs a reason. *)
ProposalReviewCode ==
  [getProposal |-> [Load(<<Get({"reviews"})>>, [loading |-> FALSE, pending |-> FALSE]) EXCEPT
                      !.ok = {[loading |-> FALSE, pending |-> p] : p \in BOOLEAN}],
   edit |-> Set([editing |-> TRUE]),
   giveReason |-> Set([reason |-> TRUE]),
   approve |-> Review,
   reject |-> [Review EXCEPT !.when = [reason |-> Yes]],
   arrive |-> Arrive,
   invalidEdit |-> [Do EXCEPT !.when = [editing |-> Yes]]]

ProposalReviewShown ==
  LET open == [loading |-> No, pending |-> Yes]
      unlocked == open @@ [submitting |-> No]
  IN  [edit |-> open, giveReason |-> open, approve |-> unlocked, reject |-> unlocked, invalidEdit |-> unlocked]

ProposalReview ==
  Page([loading |-> TRUE, pending |-> FALSE, editing |-> FALSE, reason |-> FALSE, submitting |-> FALSE,
        pushed |-> FALSE],
       [reviews |-> ""], {"loading", "submitting"}, <<"getProposal">>, {"arrive"},
       ProposalReviewCode, ProposalReviewShown)

-----------------------------------------------------------------------------
(* governance/rules/page.tsx.  Nothing locks the form or the switches; a    *)
(* switch and a deletion replace the list by the one they were clicked in.  *)
(* Role, projects and policies are asked for together; here the first two   *)
(* first.                                                                   *)

RulesCode ==
  LET replace == [Do EXCEPT !.calls = <<Change("policies")>>, !.local = {"sent"}, !.tells = TRUE]
  IN  [loadPolicies |->
         [Do EXCEPT !.begin = [loading |-> TRUE], !.calls = <<OrKeep(Get({"role", "projects"})), Get({"policies"})>>,
                    !.ok = {[loading |-> FALSE, manager |-> m] : m \in BOOLEAN},
                    !.err = {[loading |-> FALSE, error |-> TRUE]}],
       handleToggle |-> replace,
       handleDelete |-> replace,
       handleCreate |->
         [Do EXCEPT !.calls = <<Change("policies")>>, !.ok = {[isCreating |-> FALSE]},
                    !.tells = TRUE, !.next = "loadPolicies"],
       startCreate |-> Set([isCreating |-> TRUE]),
       cancelCreate |-> Set([isCreating |-> FALSE])]

RulesForm == [cancelCreate |-> [isCreating |-> Yes], handleCreate |-> [isCreating |-> Yes]]
RulesRows == [handleToggle |-> [manager |-> Yes], handleDelete |-> [manager |-> Yes]]

Rules ==
  Page([loading |-> TRUE, error |-> FALSE, manager |-> FALSE, isCreating |-> FALSE],
       [policies |-> "", role |-> "", projects |-> ""], {"loading"}, <<"loadPolicies">>, {},
       RulesCode, [startCreate |-> [manager |-> Yes]] @@ RulesForm @@ RulesRows)

-----------------------------------------------------------------------------
(* decisions/page.tsx.  The list of the selected project is asked for when  *)
(* it is selected, by the reload button and every three seconds; an answer  *)
(* is shown whatever is selected by then.  The three seconds' request is    *)
(* the one whose failure is not shown.                                      *)

DecisionsCode ==
  LET fetch == [Do EXCEPT !.of = "project", !.when = [project |-> Picked], !.calls = <<Get({"decisions"})>>]
  IN  [fetchData |->
         [Do EXCEPT !.calls = <<Ask, Get({"projects"})>>, !.ok = {[project |-> 1], [loading |-> FALSE]},
                    !.err = {[loading |-> FALSE, error |-> TRUE]}, !.next = "fetchDecisions"],
       fetchDecisions |->
         [fetch EXCEPT !.begin = [loading |-> TRUE], !.ok = {[loading |-> FALSE, error |-> FALSE]},
                       !.err = {[loading |-> FALSE, error |-> TRUE]}],
       poll |-> [fetch EXCEPT !.ok = {[error |-> FALSE]}, !.err = {<<>>}],
       handleProjectChange |-> [Set(<<>>) EXCEPT !.pick = "project", !.also = "fetchDecisions"]]

DecisionsShown == [handleProjectChange |-> [project |-> Picked], fetchDecisions |-> [project |-> Picked]]

Decisions ==
  Page([loading |-> TRUE, error |-> FALSE, project |-> 0], [projects |-> "", decisions |-> "project"],
       {"loading"}, <<"fetchData">>, {"poll"}, DecisionsCode, DecisionsShown)

(* decisions/[id]/page.tsx *)
DecisionDetail ==
  Page([loading |-> TRUE, error |-> FALSE], [decision |-> ""], {"loading"}, <<"load">>, {},
       [load |-> [Load(<<Get({"decision"})>>, [loading |-> FALSE]) EXCEPT
                    !.err = {[loading |-> FALSE, error |-> TRUE]}]], <<>>)

-----------------------------------------------------------------------------
(* alerts/page.tsx: a resolved incident is marked after the answer. *)
ResolveIncident == [Do EXCEPT !.calls = <<Ask, Change("incidents")>>, !.local = {"now"}]

Alerts ==
  Page([loading |-> TRUE, error |-> FALSE], [incidents |-> ""], {"loading"}, <<"fetchIncidents">>, {},
       [fetchIncidents |-> [Load(<<Ask, Get({"incidents"})>>, [loading |-> FALSE]) EXCEPT
                              !.err = {[loading |-> FALSE, error |-> TRUE]}],
        resolve |-> ResolveIncident],
       [resolve |-> [loading |-> No]])

(* audit/page.tsx and org/audit-log/page.tsx list the same entries; the     *)
(* first filters and exports what it holds.                                 *)
Audit ==
  Page([loading |-> TRUE], [logs |-> ""], {"loading"}, <<"loadLogs">>, {},
       [loadLogs |-> Load(<<Ask, Get({"logs"})>>, [loading |-> FALSE])], <<>>)

AuditLog ==
  Page([loading |-> TRUE, expanded |-> FALSE], [logs |-> ""], {"loading"}, <<"loadAuditLogs">>, {},
       [loadAuditLogs |-> Load(<<Ask, Get({"logs"})>>, [loading |-> FALSE]),
        expand |-> Set([expanded |-> TRUE]), collapse |-> Set([expanded |-> FALSE])],
       [expand |-> [loading |-> No, expanded |-> No], collapse |-> [loading |-> No, expanded |-> Yes]])

(* dashboard/page.tsx.  Queries are asked again every three seconds, unless *)
(* one with their key is under way, and shown under their key: the days and *)
(* the project.  The four lists of the organisation behave alike, one       *)
(* stands for them.  Nothing is asked before it is known for whom, which is *)
(* asked again as well.                                                     *)
AuditQuery_StuckFault ==
  [Do EXCEPT !.when = [org |-> Yes, fetching |-> No], !.begin = [fetching |-> TRUE],
             !.calls = <<Get({"logs"})>>, !.ok = {[fetching |-> FALSE]}]
AuditQuery ==
  [Do EXCEPT !.when = [org |-> Yes, fetching |-> No], !.begin = [fetching |-> TRUE],
             !.calls = <<Get({"logs"})>>, !.ok = {[fetching |-> FALSE]}, !.err = {[fetching |-> FALSE]}]

DailyUsageQuery ==
  [Do EXCEPT !.when = [org |-> Yes], !.of = "range", !.keyed = TRUE, !.calls = <<Get({"daily"})>>]

MeQuery ==
  [Do EXCEPT !.when = [asking |-> No], !.begin = [asking |-> TRUE], !.calls = <<Ask>>,
             !.ok = {[org |-> TRUE, asking |-> FALSE]}, !.err = {[asking |-> FALSE]}]

DashboardCode ==
  [me |-> MeQuery,
   getAuditLogs |-> AuditQuery,
   getDailyUsage |-> DailyUsageQuery,
   setRange |-> [Set(<<>>) EXCEPT !.pick = "range", !.clears = {"daily"}, !.also = "getDailyUsage"]]

Dashboard ==
  Page([org |-> FALSE, asking |-> TRUE, fetching |-> FALSE, range |-> 1], [logs |-> "", daily |-> "range"], {},
       <<"me">>, {"me", "getAuditLogs", "getDailyUsage"}, DashboardCode, [setRange |-> [org |-> Yes]])

-----------------------------------------------------------------------------
(* reports/page.tsx.  The reports are asked for every 15 seconds, and one   *)
(* that fails stays as it was; one of the four stands for all.  A card      *)
(* downloads one of them and records in the browser that it did, or failed. *)

ReportCard ==
  LET download(flag) == [Do EXCEPT !.begin = flag :> TRUE, !.calls = <<Ask>>,
                                   !.ok = {flag :> FALSE @@ [recorded |-> TRUE]},
                                   !.err = {flag :> FALSE @@ [recorded |-> TRUE]}, !.tells = TRUE]
  IN  [downloadJson |-> download("downloading"), downloadPdf |-> download("downloadingPdf")]

CardShown == [downloadJson |-> [downloading |-> No], downloadPdf |-> [downloadingPdf |-> No]]

ReportsCode ==
  [fetchReportData |-> Load(<<Ask, Get({"projects"}), OrKeep(Get({"governance"}))>>, [loading |-> FALSE])]

Reports ==
  Page([loading |-> TRUE, downloading |-> FALSE, downloadingPdf |-> FALSE, recorded |-> FALSE],
       [projects |-> "", governance |-> ""], {"loading", "downloading", "downloadingPdf"},
       <<"fetchReportData">>, {"fetchReportData"}, ReportsCode @@ ReportCard, CardShown)

(* exports/page.tsx: the same downloads, and the record of them. *)
Exports ==
  Page([downloading |-> FALSE, downloadingPdf |-> FALSE, recorded |-> FALSE], <<>>,
       {"downloading", "downloadingPdf"}, <<>>, {},
       ReportCard @@ [handleClearHistory |-> Set([recorded |-> FALSE])],
       CardShown @@ [handleClearHistory |-> [recorded |-> Yes]])

(* app/status/page.tsx: anybody's failure to ask is shown as degraded. *)
Status ==
  Page([loading |-> TRUE, degraded |-> FALSE], [status |-> "", incidents |-> ""], {"loading"}, <<"fetchStatus">>, {},
       [fetchStatus |-> [Load(<<Get({"status"}), Get({"incidents"})>>, [loading |-> FALSE]) EXCEPT
          !.err = {[loading |-> FALSE, degraded |-> TRUE]}]], <<>>)
=============================================================================
