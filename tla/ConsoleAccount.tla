---------------------------- MODULE ConsoleAccount ---------------------------
(* Pages of the console about the account itself: settings and deletion of  *)
(* the organisation, notifications, webhooks, billing and usage, the two    *)
(* ways to set an account up, and the operator's list of organisations.     *)
EXTENDS ConsoleScript

(* The deletion of an organisation, on both settings pages: a code is       *)
(* asked for, and what is deleted with it is gone when the page is left.    *)
DeleteOrganization ==
  LET step == [Do EXCEPT !.when = [org |-> Yes], !.begin = [isDeleting |-> TRUE],
                         !.err = {[isDeleting |-> FALSE]}, !.tells = TRUE]
  IN  [handleRequestDeleteOtp |->
         [step EXCEPT !.calls = <<Ask>>, !.ok = {[isDeleting |-> FALSE, otp |-> TRUE]}],
       handleConfirmDelete |-> [step EXCEPT !.calls = <<Change("org")>>, !.ok = {[here |-> FALSE]}],
       cancelDelete |-> Set([otp |-> FALSE])]

DeleteShown ==
  LET owned == [loading |-> No, owner |-> Yes]
  IN  [handleRequestDeleteOtp |-> owned @@ [otp |-> No, isDeleting |-> No],
       handleConfirmDelete |-> owned @@ [otp |-> Yes, isDeleting |-> No],
       cancelDelete |-> owned @@ [otp |-> Yes]]

(* settings/page.tsx.  A load that failed can be tried again, also twice at *)
(* once.                                                                    *)
SettingsState ==
  [loading |-> TRUE, failed |-> FALSE, org |-> FALSE, owner |-> FALSE, saving |-> FALSE, otp |-> FALSE,
   isDeleting |-> FALSE]

SettingsCode ==
  [loadData |-> [Do EXCEPT !.calls = <<Get({"org"})>>,
                           !.ok = {[loading |-> FALSE, org |-> TRUE, owner |-> o] : o \in BOOLEAN},
                           !.err = {[loading |-> FALSE, failed |-> TRUE]}],
   retry |-> [Do EXCEPT !.calls = <<Get({"org"})>>,
                        !.ok = {[failed |-> FALSE, org |-> TRUE, owner |-> o] : o \in BOOLEAN}],
   handleLogout |-> Leave,
   handleSaveOrg |->
     [Do EXCEPT !.when = [org |-> Yes], !.begin = [saving |-> TRUE],
                !.calls = <<Change("org"), Get({"org"})>>, !.ok = {[saving |-> FALSE]},
                !.err = {[saving |-> FALSE]}, !.tells = TRUE]]

SettingsShown ==
  [retry |-> [loading |-> No, failed |-> Yes],
   handleSaveOrg |-> [loading |-> No, org |-> Yes, saving |-> No],
   handleLogout |-> [loading |-> No, org |-> Yes]]

Settings ==
  Page(SettingsState, [org |-> ""], {"loading", "saving", "isDeleting"}, <<"loadData">>, {},
       SettingsCode @@ DeleteOrganization, SettingsShown @@ DeleteShown)

(* org/settings/page.tsx: the same, with the logo. *)
OrgSettingsCode ==
  [load |-> [SettingsCode.loadData EXCEPT !.err = {[loading |-> FALSE]}],
   handleLogoUpload |->
     [Do EXCEPT !.begin = [isUploadingLogo |-> TRUE], !.calls = <<Change("org")>>,
                !.ok = {[isUploadingLogo |-> FALSE]}, !.err = {[isUploadingLogo |-> FALSE]},
                !.tells = TRUE, !.local = {"now"}]]

OrgSettingsShown ==
  [handleLogoUpload |-> [loading |-> No, org |-> Yes, isUploadingLogo |-> No]]

OrgSettings ==
  Page([loading |-> TRUE, org |-> FALSE, owner |-> FALSE, isUploadingLogo |-> FALSE,
        otp |-> FALSE, isDeleting |-> FALSE],
       [org |-> ""], {"loading", "isUploadingLogo", "isDeleting"}, <<"load">>, {},
       OrgSettingsCode @@ DeleteOrganization, OrgSettingsShown @@ DeleteShown)

-----------------------------------------------------------------------------
(* settings/notifications/page.tsx.  A switch is moved at once and moved    *)
(* again by the answer; a failure leaves it.                                *)

NotificationsCode ==
  [load |-> [Do EXCEPT !.calls = <<Get({"prefs"})>>, !.ok = {[loading |-> FALSE]}],
   updateSetting |-> [Do EXCEPT !.calls = <<Change("prefs")>>, !.local = {"first", "answer"}]]

Notifications ==
  Page([loading |-> TRUE], [prefs |-> ""], {}, <<"load">>, {}, NotificationsCode,
       [updateSetting |-> [loading |-> No]])

-----------------------------------------------------------------------------
(* settings/webhooks/page.tsx.  A change has the list fetched again, and    *)
(* cancels a fetch of the list that is under way.  While it is not known    *)
(* for whom to ask, the page shows no list and no spinner, and what is      *)
(* created then is created for nobody and refused.                          *)

WebhooksCode ==
  LET creating == [Do EXCEPT !.begin = [creating |-> TRUE], !.err = {[creating |-> FALSE]}]
      listed == {[loading |-> FALSE, ready |-> TRUE]}
  IN  [getMe |-> [Do EXCEPT !.calls = <<Ask>>, !.next = "getWebhooks"],
       getWebhooks |-> [Do EXCEPT !.begin = [loading |-> TRUE], !.calls = <<Get({"webhooks"})>>,
                                  !.ok = listed, !.err = listed],
       refetch |-> [Do EXCEPT !.calls = <<Get({"webhooks"})>>, !.latest = TRUE],
       createForNobody |-> [creating EXCEPT !.calls = <<Ask>>, !.ok = {[creating |-> FALSE]}],
       createMutation |->
         [creating EXCEPT !.calls = <<Change("webhooks")>>,
                          !.ok = {[creating |-> FALSE, showCreate |-> FALSE]}, !.next = "refetch"],
       deleteMutation |->
         [Do EXCEPT !.begin = [deleting |-> TRUE], !.calls = <<Change("webhooks")>>,
                    !.ok = {[deleting |-> FALSE]}, !.err = {[deleting |-> FALSE]}, !.next = "refetch"],
       openCreate |-> Set([showCreate |-> TRUE]),
       closeCreate |-> Set([showCreate |-> FALSE])]

CreateWebhookModal ==
  LET open == [loading |-> No, showCreate |-> Yes, creating |-> No]
  IN  [closeCreate |-> open, createMutation |-> open @@ [ready |-> Yes], createForNobody |-> open @@ [ready |-> No]]

WebhooksShown ==
  [openCreate |-> [loading |-> No], deleteMutation |-> [ready |-> Yes, deleting |-> No]]

Webhooks ==
  Page([loading |-> FALSE, ready |-> FALSE, showCreate |-> FALSE, creating |-> FALSE, deleting |-> FALSE],
       [webhooks |-> ""], {"loading", "creating", "deleting"}, <<"getMe">>, {},
       WebhooksCode, WebhooksShown @@ CreateWebhookModal)

-----------------------------------------------------------------------------
(* billing/page.tsx.  Coming from the price list, the checkout starts as    *)
(* soon as the organisation is known.                                       *)

BillingCode ==
  LET away(flag) == {[here |-> FALSE] @@ flag, flag}
      checkout == [Do EXCEPT !.when = [org |-> Yes], !.begin = [checkoutLoading |-> TRUE],
                             !.calls = <<Ask>>, !.ok = away([checkoutLoading |-> FALSE]),
                             !.err = {[checkoutLoading |-> FALSE]}, !.tells = TRUE]
  IN  [loadBillingData |->
         [Do EXCEPT !.calls = <<Get({"org"})>>, !.ok = {[org |-> TRUE, asked |-> a] : a \in BOOLEAN},
                    !.err = {[loading |-> FALSE]}, !.next = "loadUsage"],
       loadUsage |-> Load(<<Get({"usage"})>>, [loading |-> FALSE]),
       checkoutAsked |-> [checkout EXCEPT !.when = [org |-> Yes, asked |-> Yes],
                                          !.begin = [checkoutLoading |-> TRUE, asked |-> FALSE]],
       handleUpgrade |-> checkout,
       handlePortal |->
         [Do EXCEPT !.when = [org |-> Yes], !.begin = [portalLoading |-> TRUE], !.calls = <<Ask>>,
                    !.ok = away([portalLoading |-> FALSE]), !.err = {[portalLoading |-> FALSE]},
                    !.tells = TRUE]]

BillingShown ==
  [handlePortal |-> [loading |-> No, portalLoading |-> No],
   handleUpgrade |-> [loading |-> No, checkoutLoading |-> No]]

Billing ==
  Page([loading |-> TRUE, org |-> FALSE, asked |-> FALSE, checkoutLoading |-> FALSE, portalLoading |-> FALSE],
       [org |-> "", usage |-> ""], {"loading", "checkoutLoading", "portalLoading"},
       <<"loadBillingData">>, {"checkoutAsked"}, BillingCode, BillingShown)

(* usage/page.tsx: the counters and the days are asked for together. *)
Usage ==
  Page([loading |-> TRUE], [stats |-> "", daily |-> ""], {"loading"}, <<"loadData">>, {},
       [loadData |-> Load(<<Ask, Get({"stats", "daily"})>>, [loading |-> FALSE])], <<>>)
=============================================================================
