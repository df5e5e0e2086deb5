------------------------------ MODULE VerifierUi ------------------------------
(* Pages of the verification UI, a second front end that only reads: it has *)
(* no sign-in page to lead to, and the same kind of pages as the console.   *)
(* Its fourth page, DecisionDetail, calls router hooks where no router is   *)
(* mounted and is not here.                                                 *)
EXTENDS ConsoleScript

Unsigned(entry) == [entry EXCEPT !.expels = FALSE]

(* An error is shown in place of the page, and nothing clears it. *)
LoadOrError(calls) ==
  [Do EXCEPT !.begin = [loading |-> TRUE], !.calls = calls, !.ok = {[loading |-> FALSE]},
             !.err = {[loading |-> FALSE, error |-> TRUE]}]

ChainOverview ==
  Unsigned(Page([loading |-> TRUE, error |-> FALSE], [status |-> ""], {"loading"}, <<"loadChainStatus">>, {},
    [loadChainStatus |-> LoadOrError(<<Get({"status"})>>), toVerify |-> Leave],
    [toVerify |-> [loading |-> No, error |-> No]]))

(* The list is loaded page by page; its controls are hidden meanwhile.      *)
DecisionListCode ==
  [loadDecisions |-> [LoadOrError(<<Get({"decisions"})>>) EXCEPT !.of = "page"],
   setPage |-> [Set(<<>>) EXCEPT !.pick = "page", !.also = "loadDecisions"]]

DecisionList ==
  Unsigned(Page([loading |-> TRUE, error |-> FALSE, page |-> 1], [decisions |-> "page"], {"loading"},
    <<"loadDecisions">>, {}, DecisionListCode, [setPage |-> [loading |-> No, error |-> No]]))

(* The result of the last verification is shown until the next one begins;  *)
(* its progress, which a timer makes up, is left out.                       *)
VerificationReport ==
  Unsigned(Page([running |-> FALSE, error |-> FALSE], [result |-> ""], {"running"}, <<>>, {},
    [runFullVerification |->
       [Do EXCEPT !.begin = [running |-> TRUE, error |-> FALSE], !.clears = {"result"},
                  !.calls = <<Get({"result"})>>, !.ok = {[running |-> FALSE]},
                  !.err = {[running |-> FALSE, error |-> TRUE]}]],
    [runFullVerification |-> [running |-> No]]))
=============================================================================
