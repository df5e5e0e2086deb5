----------------------------- MODULE ConsoleEntry ----------------------------
(* Pages by which somebody gets into the console: signing in and up, an     *)
(* invitation, a forgotten password, and the two guides a new organisation  *)
(* is set up with.                                                          *)
EXTENDS ConsoleScript

(* What an unauthorized request to sign in or up does not do is lead there. *)
Entrance(entry) == [entry EXCEPT !.expels = FALSE]

(* A form that is locked while its one request is under way. *)
Submit(flag, calls) ==
  [Do EXCEPT !.begin = flag :> TRUE, !.calls = calls, !.ok = {flag :> FALSE},
             !.err = {flag :> FALSE}, !.tells = TRUE]

(* (auth)/login/page.tsx: an answer without a token is an error as well. *)
Login ==
  Entrance(Page([loading |-> FALSE, pushed |-> FALSE], <<>>, {"loading"}, <<>>, {"arrive"},
    [handleLogin |-> [Submit("loading", <<Ask>>) EXCEPT
       !.ok = {[loading |-> FALSE, pushed |-> TRUE], [loading |-> FALSE]}],
     arrive |-> Arrive],
    [handleLogin |-> [loading |-> No]]))

(* (auth)/signup/page.tsx: a code is sent, exchanged for a token, and the   *)
(* token for an account.  Sending again calls the first handler.            *)
SignupCode ==
  [handleRequestOtp |-> [Submit("loading", <<Change("codes")>>) EXCEPT !.ok = {[loading |-> FALSE, step |-> 2]}],
   handleVerifyOtp |-> [Submit("loading", <<Ask>>) EXCEPT
     !.ok = {[loading |-> FALSE, step |-> 3], [loading |-> FALSE]}],
   handleCompleteSignup |-> [Submit("loading", <<Change("accounts")>>) EXCEPT
     !.ok = {[loading |-> FALSE, pushed |-> TRUE], [loading |-> FALSE]}],
   arrive |-> Arrive,
   resend |-> [Submit("loading", <<Change("codes")>>) EXCEPT !.ok = {[loading |-> FALSE, step |-> 2]}]]

SignupShown ==
  [handleRequestOtp |-> [step |-> {1}, loading |-> No], resend |-> [step |-> {2}],
   handleVerifyOtp |-> [step |-> {2}, loading |-> No],
   handleCompleteSignup |-> [step |-> {3}, loading |-> No]]

Signup ==
  Entrance(Page([step |-> 1, loading |-> FALSE, pushed |-> FALSE], [codes |-> "", accounts |-> ""],
                {"loading"}, <<>>, {"arrive"}, SignupCode, SignupShown))

(* (auth)/accept-invite/page.tsx: once accepted the form stays locked until *)
(* the page is left.                                                        *)
AcceptInviteCode ==
  [verifyToken |-> [Do EXCEPT !.calls = <<Ask>>, !.ok = {[loading |-> FALSE, invited |-> TRUE]},
                              !.err = {[loading |-> FALSE]}],
   onSubmit |-> [Submit("submitting", <<Change("accounts")>>) EXCEPT
     !.ok = {[here |-> FALSE], [submitting |-> FALSE]}]]

AcceptInvite ==
  Page([loading |-> TRUE, invited |-> FALSE, submitting |-> FALSE], [accounts |-> ""],
       {"loading", "submitting"}, <<"verifyToken">>, {}, AcceptInviteCode,
       [onSubmit |-> [loading |-> No, invited |-> Yes, submitting |-> No]])

(* (auth)/reset-password/page.tsx: after a success only the page's timer is *)
(* left, which goes to the sign-in page.                                    *)
ResetPassword ==
  Page([loading |-> FALSE, success |-> FALSE], [password |-> ""], {"loading"}, <<>>, {"toLogin"},
       [handleSubmit |-> [Submit("loading", <<Change("password")>>) EXCEPT
          !.ok = {[loading |-> FALSE, success |-> TRUE]}],
        toLogin |-> [Leave EXCEPT !.when = [success |-> Yes]]],
       [handleSubmit |-> [loading |-> No, success |-> No]])

(* (auth)/forgot-password/page.tsx *)
ForgotPassword ==
  Page([loading |-> FALSE, sent |-> FALSE], <<>>, {"loading"}, <<>>, {},
       [handleSubmit |-> [Submit("loading", <<Ask>>) EXCEPT !.ok = {[loading |-> FALSE, sent |-> TRUE]}]],
       [handleSubmit |-> [loading |-> No, sent |-> No]])

(* auth/sso/page.tsx asks nobody: it waits a second and knows one domain.   *)
Sso ==
  Page([loading |-> FALSE], <<>>, {"loading"}, <<>>, {},
       [handleSubmit |-> [Submit("loading", <<Wait({})>>) EXCEPT
          !.ok = {[here |-> FALSE], [loading |-> FALSE]}]],
       [handleSubmit |-> [loading |-> No]])

-----------------------------------------------------------------------------
(* onboarding/page.tsx.  The key is generated by the effect that runs when  *)
(* the second step is reached, and by the button that tries again.          *)

OnboardingCode ==
  LET generated == {[saving |-> FALSE, key |-> TRUE], [saving |-> FALSE]}
      attempt == [Submit("saving", <<Change("keys")>>) EXCEPT !.ok = generated]
      submit == [Submit("saving", <<>>) EXCEPT !.next = "attemptKeyGeneration"]
  IN  [loadInitialData |->
         [Do EXCEPT !.calls = <<Ask, Get({"projects"})>>,
                    !.ok = {[loading |-> FALSE, org |-> TRUE, project |-> p] : p \in BOOLEAN},
                    !.err = {[loading |-> FALSE, org |-> o] : o \in BOOLEAN}],
       updateProject |->
         [submit EXCEPT !.when = [project |-> Yes], !.calls = <<Change("projects")>>,
                        !.ok = {[saving |-> FALSE, step |-> 2]}],
       createProject |->
         [submit EXCEPT !.when = [project |-> No, org |-> Yes], !.calls = <<Change("projects")>>,
                        !.ok = {[saving |-> FALSE, step |-> 2, project |-> TRUE]}],
       withoutOrg |-> [Set([step |-> 2]) EXCEPT !.when = [project |-> No, org |-> No]],
       attemptKeyGeneration |-> [attempt EXCEPT !.when = [key |-> No, project |-> Yes]],
       finishOnboarding |-> Leave]

OnboardingShown ==
  LET form == [loading |-> No, step |-> {1}, saving |-> No]
  IN  [updateProject |-> form, createProject |-> form, withoutOrg |-> form,
       attemptKeyGeneration |-> [step |-> {2}, saving |-> No, key |-> No],
       finishOnboarding |-> [loading |-> No]]

Onboarding ==
  Page([loading |-> TRUE, org |-> FALSE, project |-> FALSE, step |-> 1, saving |-> FALSE, key |-> FALSE],
       [projects |-> "", keys |-> ""], {"loading", "saving"}, <<"loadInitialData">>, {},
       OnboardingCode, OnboardingShown)

-----------------------------------------------------------------------------
(* get-started/page.tsx.  The wizard does not wait for what it loads: until *)
(* the projects are known the first step creates one of its own.  A project *)
(* whose key could not be created is forgotten.                             *)

InitProjects == [Do EXCEPT !.calls = <<Get({"projects"})>>, !.ok = {[project |-> TRUE], <<>>}]

GetStartedCode ==
  LET created == {[loading |-> FALSE, step |-> 2, project |-> TRUE], [loading |-> FALSE]}
      step1 == [Submit("loading", <<>>) EXCEPT !.ok = created]
      to(n) == Set([step |-> n])
  IN  [init |-> [Do EXCEPT !.calls = <<Ask>>, !.ok = {[org |-> TRUE]}, !.next = "initProjects"],
       initProjects |-> InitProjects,
       handleStep1Complete |->
         [step1 EXCEPT !.when = [org |-> Yes, project |-> No], !.calls = <<Change("projects"), Change("keys")>>],
       handleStep1WithProject |->
         [step1 EXCEPT !.when = [org |-> Yes, project |-> Yes], !.calls = <<Change("keys")>>],
       toInstall |-> to(3),
       toRecord |-> to(4),
       runExample |-> [Submit("running", <<Change("decisions")>>) EXCEPT
         !.ok = {[running |-> FALSE, step |-> 5], [running |-> FALSE]}]]

(* The welcome, key and installation steps. *)
GetStartedSteps ==
  LET welcome == [step |-> {1}, loading |-> No]
  IN  [handleStep1Complete |-> welcome, handleStep1WithProject |-> welcome,
       toInstall |-> [step |-> {2}], toRecord |-> [step |-> {3}]]

Step4Record == [runExample |-> [step |-> {4}, running |-> No]]

GetStarted ==
  Page([org |-> FALSE, project |-> FALSE, step |-> 1, loading |-> FALSE, running |-> FALSE],
       [projects |-> "", keys |-> "", decisions |-> ""], {"loading", "running"}, <<"init">>, {},
       GetStartedCode, GetStartedSteps @@ Step4Record)
=============================================================================
