------------------------- MODULE ConsoleOrganization -------------------------
(* Pages of the console that manage an organisation: its members, projects, *)
(* keys, settings and webhooks, and the operator's list of organisations.   *)
EXTENDS ConsoleScript

-----------------------------------------------------------------------------
(* org/team/page.tsx.  The list joins members and pending invitations.      *)

OrgTeamState ==
  [loading |-> TRUE, org |-> FALSE, manager |-> FALSE,
   inviting |-> FALSE, changing |-> FALSE, removing |-> FALSE]

OrgTeamCode ==
  LET loaded == [loading |-> FALSE, org |-> TRUE]
  IN  [loadTeam |->
         [Do EXCEPT !.calls = <<Ask, Later(Get({"members"})), Get({"invitations"})>>,
                    !.ok = {loaded @@ [manager |-> m] : m \in BOOLEAN},
                    !.err = {[loading |-> FALSE]} \cup {loaded @@ [manager |-> m] : m \in BOOLEAN}],
       handleInvite |->
         [Do EXCEPT !.when = [org |-> Yes], !.calls = <<Change("invitations")>>,
                    !.ok = {[inviting |-> FALSE]}, !.err = {[inviting |-> FALSE]},
                    !.tells = TRUE, !.next = "loadTeam"],
       handleChangeRole |->
         [Do EXCEPT !.when = [changing |-> Yes, org |-> Yes], !.calls = <<Change("members")>>,
                    !.ok = {[changing |-> FALSE]}, !.err = {[changing |-> FALSE]}, !.local = {"sent"}],
       handleRemove |->
         [Do EXCEPT !.when = [removing |-> Yes, org |-> Yes], !.calls = <<Change("members")>>,
                    !.ok = {[removing |-> FALSE]}, !.tells = TRUE, !.next = "loadTeam"],
       handleCancelInvite |->
         [Do EXCEPT !.when = [org |-> Yes], !.calls = <<Change("invitations")>>,
                    !.tells = TRUE, !.next = "loadTeam"],
       openInvite |-> Set([inviting |-> TRUE]), closeInvite |-> Set([inviting |-> FALSE]),
       openChange |-> Set([changing |-> TRUE]), closeChange |-> Set([changing |-> FALSE]),
       openRemove |-> Set([removing |-> TRUE]), closeRemove |-> Set([removing |-> FALSE])]

InviteModal == [closeInvite |-> [inviting |-> Yes], handleInvite |-> [inviting |-> Yes]]
ChangeRoleModal == [closeChange |-> [changing |-> Yes], handleChangeRole |-> [changing |-> Yes]]
RemoveMemberModal == [closeRemove |-> [removing |-> Yes], handleRemove |-> [removing |-> Yes]]

(* What a row offers to a member who may manage. *)
MemberRow ==
  LET manages == [loading |-> No, manager |-> Yes]
  IN  [handleCancelInvite |-> manages, openChange |-> manages, openRemove |-> manages]

OrgTeam ==
  Page(OrgTeamState, [members |-> "", invitations |-> ""], {"loading"}, <<"loadTeam">>, {}, OrgTeamCode,
       [openInvite |-> [manager |-> Yes]]
       @@ InviteModal @@ ChangeRoleModal @@ RemoveMemberModal @@ MemberRow)

-----------------------------------------------------------------------------
(* team/page.tsx.  Inviting is locked until the list is loaded again;       *)
(* removing a member is not.  The list is of members: no request of this    *)
(* page asks for the invitations it makes.                                  *)

TeamCode ==
  LET loads == <<OrKeep(Get({"members"}))>>
  IN  [loadTeam |-> Load(<<Ask, Get({"members"})>>, [loading |-> FALSE]),
       handleInvite |->
         [Do EXCEPT !.begin = [inviting |-> TRUE], !.calls = <<Ask, Change("invitations")>> \o loads,
                    !.ok = {[inviting |-> FALSE, loading |-> FALSE]},
                    !.err = {[inviting |-> FALSE]}, !.tells = TRUE],
       remove |->
         [Do EXCEPT !.calls = <<Ask, Change("members")>> \o loads,
                    !.ok = {[loading |-> FALSE]}, !.tells = TRUE]]

Team ==
  Page([loading |-> TRUE, inviting |-> FALSE], [members |-> "", invitations |-> ""], {"loading", "inviting"},
       <<"loadTeam">>, {}, TeamCode, [handleInvite |-> [inviting |-> No], remove |-> [loading |-> No]])

-----------------------------------------------------------------------------
(* projects/page.tsx. *)

(* The modal keeps the lock; closing it while a project is being created    *)
(* and opening it again starts with a new one.                              *)
CreateProjectModal ==
  [closeCreate |-> [showCreate |-> Yes], handleCreate |-> [showCreate |-> Yes, creating |-> No]]

(* The governance mode and the decline message of one project. *)
GovernanceToggle ==
  LET update == [Do EXCEPT !.when = [updating |-> No], !.begin = [updating |-> TRUE],
                           !.calls = <<Change("projects")>>, !.ok = {[updating |-> FALSE]},
                           !.err = {[updating |-> FALSE]}, !.tells = TRUE, !.local = {"now"}]
  IN  [handleToggle |-> update,
       handleSaveMessage |-> [update EXCEPT !.ok = {[updating |-> FALSE, editingMsg |-> FALSE]}],
       editMessage |-> Set([editingMsg |-> TRUE])]

ProjectsCode ==
  [loadProjects |-> Load(<<Ask, Get({"projects"})>>, [loading |-> FALSE]),
   handleCreate |->
     [Do EXCEPT !.begin = [creating |-> TRUE],
                !.calls = <<Ask, Change("projects"), Ask, Get({"projects"})>>,
                !.ok = {[loading |-> FALSE, creating |-> FALSE, showCreate |-> FALSE]},
                !.err = {[creating |-> FALSE]}, !.tells = TRUE],
   openCreate |-> Set([showCreate |-> TRUE, creating |-> FALSE]),
   closeCreate |-> Set([showCreate |-> FALSE])]

ProjectsShown ==
  [openCreate |-> [showCreate |-> No], handleToggle |-> [loading |-> No],
   handleSaveMessage |-> [loading |-> No, editingMsg |-> Yes], editMessage |-> [loading |-> No]]

Projects ==
  Page([loading |-> TRUE, showCreate |-> FALSE, creating |-> FALSE, updating |-> FALSE, editingMsg |-> FALSE],
       [projects |-> ""], {"loading", "updating"}, <<"loadProjects">>, {},
       ProjectsCode @@ GovernanceToggle, ProjectsShown @@ CreateProjectModal)

-----------------------------------------------------------------------------
(* api-keys/page.tsx.  The secret of a new key is shown before the list is  *)
(* loaded again.                                                            *)

CreateKeyModal ==
  [closeCreate |-> [showCreate |-> Yes], handleCreateKey |-> [showCreate |-> Yes, creating |-> No]]

ApiKeysCode ==
  LET reload == <<Ask, Get({"projects"}), Get({"keys"})>>
      loaded == {[loading |-> FALSE, manager |-> m] : m \in BOOLEAN}
  IN  [loadData |-> [Do EXCEPT !.calls = reload, !.ok = loaded, !.err = loaded \cup {[loading |-> FALSE]}],
       handleCreateKey |->
         [Do EXCEPT !.begin = [creating |-> TRUE], !.calls = <<Change("keys")>>,
                    !.ok = {[secret |-> TRUE]}, !.err = {[creating |-> FALSE]},
                    !.tells = TRUE, !.next = "showNewKey"],
       showNewKey |->
         [Do EXCEPT !.calls = <<Ask, OrKeep(Get({"projects"})), OrKeep(Get({"keys"}))>>,
                    !.ok = {[creating |-> FALSE, showCreate |-> FALSE]},
                    !.err = {[creating |-> FALSE, showCreate |-> FALSE]}],
       handleRevoke |-> [Do EXCEPT !.calls = <<Change("keys")>>, !.tells = TRUE, !.next = "loadData"],
       openCreate |-> Set([showCreate |-> TRUE, creating |-> FALSE]),
       closeCreate |-> Set([showCreate |-> FALSE]),
       hideSecret |-> Set([secret |-> FALSE])]

ApiKeysShown ==
  [openCreate |-> [loading |-> No, manager |-> Yes], handleRevoke |-> [loading |-> No, manager |-> Yes],
   hideSecret |-> [secret |-> Yes]]

ApiKeys ==
  Page([loading |-> TRUE, manager |-> FALSE, showCreate |-> FALSE, creating |-> FALSE, secret |-> FALSE],
       [projects |-> "", keys |-> ""], {"loading"}, <<"loadData">>, {},
       ApiKeysCode, ApiKeysShown @@ CreateKeyModal)
-----------------------------------------------------------------------------
(* superadmin/page.tsx.  The operator's list of all organisations, with two *)
(* windows that show one of them and one that sets its quota.  The totals   *)
(* are asked for together with the list; whom a window shows is left out.   *)

SuperAdminState ==
  [loading |-> TRUE, error |-> FALSE, users |-> FALSE, usersLoading |-> FALSE,
   details |-> FALSE, detailsLoading |-> FALSE, quota |-> FALSE]

SuperAdminCode ==
  LET change == [Do EXCEPT !.calls = <<Change("orgs")>>, !.tells = TRUE, !.next = "fetchData"]
  IN  [fetchData |->
         [Do EXCEPT !.begin = [loading |-> TRUE, error |-> FALSE], !.calls = <<Get({"orgs"})>>,
                    !.ok = {[loading |-> FALSE]},
                    !.err = {[loading |-> FALSE, error |-> TRUE], [loading |-> FALSE, here |-> FALSE]}],
       handleViewUsers |->
         [Do EXCEPT !.begin = [users |-> TRUE, usersLoading |-> TRUE], !.calls = <<Ask>>,
                    !.ok = {[usersLoading |-> FALSE]}, !.err = {[usersLoading |-> FALSE]}],
       handleInspectOrg |->
         [Do EXCEPT !.begin = [details |-> TRUE, detailsLoading |-> TRUE], !.calls = <<Ask>>,
                    !.ok = {[detailsLoading |-> FALSE]}, !.err = {[detailsLoading |-> FALSE]},
                    !.tells = TRUE],
       openQuotaModal |-> Set([quota |-> TRUE]),
       handleUpdateQuota |-> [change EXCEPT !.ok = {[quota |-> FALSE]}],
       handleSuspend |-> change,
       handleDelete |-> change,
       closeUsers |-> Set([users |-> FALSE]),
       closeInspect |-> Set([details |-> FALSE]),
       closeQuota |-> Set([quota |-> FALSE])]

(* A window covers the list. *)
SuperAdminRow ==
  LET row == [loading |-> No, error |-> No, users |-> No, details |-> No, quota |-> No]
  IN  [fetchData |-> row, handleViewUsers |-> row, handleInspectOrg |-> row,
       openQuotaModal |-> row, handleSuspend |-> row, handleDelete |-> row]

SuperAdminWindows ==
  LET open(window) == [loading |-> No, error |-> No] @@ window
  IN  [closeUsers |-> open([users |-> Yes]), closeInspect |-> open([details |-> Yes]),
       closeQuota |-> open([quota |-> Yes]), handleUpdateQuota |-> open([quota |-> Yes])]

SuperAdmin ==
  Page(SuperAdminState, [orgs |-> ""],
       {"loading", "usersLoading", "detailsLoading"}, <<"fetchData">>, {},
       SuperAdminCode, SuperAdminRow @@ SuperAdminWindows)
=============================================================================
