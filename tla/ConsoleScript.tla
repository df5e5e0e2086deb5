---------------------------- MODULE ConsoleScript ----------------------------
(* How the pages of the web console are written down.                       *)
(*                                                                          *)
(* A page is a React component: its state, the handlers its controls call,  *)
(* the effects that run when it is mounted and the timers it sets.  A       *)
(* handler runs without interruption up to its first await, then from one   *)
(* awaited answer to the next; other handlers of the page run in between.   *)
(* What is written down of a handler:                                       *)
(*   when   what must hold for it not to return at once                     *)
(*   pick   the selection it changes, or ""                                 *)
(*   of     the selection whose value it passes to its requests, or ""      *)
(*   begin  the assignments before the first await                          *)
(*   clears the data it empties before the first await                      *)
(*   calls  the awaited requests, in their order                            *)
(*   carries the data its requests send, whatever is selected               *)
(*   ok     the assignments after the last answer, one record for each way  *)
(*          the answer may turn out                                         *)
(*   err    the assignments of catch and finally when a request fails, one  *)
(*          record for each way                                             *)
(*   tells  the catch tells the user that what was asked failed             *)
(*   next   the handler called, and not awaited, at the end                 *)
(*   also   the handler called, and not awaited, at the beginning           *)
(*   local  when and how the page changes its own copy of what it wrote:    *)
(*          "first" before the answer; after it to what it sent, "sent", by  *)
(*          the change alone, "now", or to what was answered, "answer"      *)
(*   latest a new run cancels the earlier ones that are under way           *)
(*   keyed  an answer is shown only while what it was asked for is selected *)
(* A condition gives state fields the sets their values must be in.         *)
EXTENDS Naturals, Sequences, TLC

Yes == {TRUE}
No == {FALSE}
Picked == Nat \ {0}

Do == [when |-> <<>>, pick |-> "", of |-> "", begin |-> <<>>, clears |-> {}, calls |-> <<>>,
       carries |-> "", ok |-> {<<>>}, err |-> {<<>>}, tells |-> FALSE, next |-> "", also |-> "",
       local |-> {}, keyed |-> FALSE, latest |-> FALSE]

(* Requests.  A change of a list adds to what the list reflects; a document *)
(* is stored as a whole, and reflects what the copy that was sent did.      *)
Get(resources) == [op |-> "get", on |-> resources, soft |-> "", late |-> FALSE]
Change(resource) == [op |-> "add", on |-> {resource}, soft |-> "", late |-> FALSE]
Store(resource) == [op |-> "put", on |-> {resource}, soft |-> "", late |-> FALSE]
Ask == Get({})

(* Requests with a catch of their own: when one fails, the page keeps what  *)
(* it has, or shows nothing.                                                *)
OrKeep(call) == [call EXCEPT !.soft = "keep"]
OrEmpty(call) == [call EXCEPT !.soft = "empty"]

(* A timer: what it answers comes from the browser and never fails. *)
Wait(resources) == [op |-> "get", on |-> resources, soft |-> "never", late |-> FALSE]

(* A request whose answer is shown together with the next one's. *)
Later(call) == [call EXCEPT !.late = TRUE]

(* Handlers of the kinds many pages have. *)
Load(calls, ready) == [Do EXCEPT !.calls = calls, !.ok = {ready}, !.err = {ready}]
Set(begin) == [Do EXCEPT !.begin = begin]
Leave == Set([here |-> FALSE])

(* router.push returns at once: the page and its controls stay until the    *)
(* next page is there.                                                      *)
Arrive == [Leave EXCEPT !.when = [pushed |-> Yes]]

(* A page: the state it is mounted with, the data it holds and the          *)
(* selection each is shown under, the flags that tell the user something is *)
(* under way, the handlers of its effects and timers, all handlers, what    *)
(* must hold for the control of a handler to be there and enabled, and      *)
(* whether an unauthorized request leads to the sign-in page.               *)
Page(start, data, busy, mount, timer, code, shown) ==
  [start |-> start @@ [here |-> TRUE], data |-> DOMAIN data, under |-> data, busy |-> busy,
   mount |-> mount, timer |-> timer, code |-> code, shown |-> shown, expels |-> TRUE]
=============================================================================
