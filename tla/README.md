# Regulayer: TLA+ models, checks and proofs

Regulayer records the decisions of AI systems in a tamper-evident chain.  A
client library sends a decision to a gateway; depending on the project's
*governance mode* the decision goes through a Redis queue (`observe`) or
straight to the recorder (`gate`), which asks the policy engine first and may
hold the decision's output until a person has approved it.  The recorder keeps
one hash chain per project in PostgreSQL; a verifier checks the chains when the
recorder starts and on demand.  People use a web console, a React application
whose pages show and change what the control plane, governance and the recorder
keep.

This directory holds TLA+ modules that follow that code, TLC configurations
that check them on small instances, and proofs for TLAPS.  `PROJECT.json` maps
every definition to the lines it models, and lists the runs, the mutations each
property is tested with, the hazards of the code, the findings and the theorems.

Contents: [inventory](#inventory) | [modules](#modules) | [runs](#runs) |
[what the runs found](#what-the-runs-found) | [proofs](#proofs) |
[not modelled](#not-modelled)

## Inventory

| part | state | operations | what is hard | what makes it correct |
|---|---|---|---|---|
| decision recorder, `regulayer-recorder/app/{api,recorder,storage,hasher}.py` | table `decisions` (append only; unique `decision_id`, `record_hash`; `BIGSERIAL record_id`) | `POST /v1/decisions`: validate, check duplicate, read last record of the project, check sequence number, INSERT, COMMIT, refresh | handlers interleave at every `await`, no lock; the id is drawn before the commit; failure after the commit | recorded once; links point back inside the project; answers are true; with one writer per project a line |
| verifier, `verifier.py` | none | `verify_chain`, `verify_full_integrity` (start of a production recorder) | several projects in one table, gaps in ids | forks and removals are noticed, honest tables pass |
| ingestion gateway, `regulayer-ingestion-gateway/app` | Redis: monthly counters, token buckets, streams | authenticate, rate limit, quota, then forward (gate) or XADD (observe); proxy | counter and effect are separate steps; clocks of several gateways | accepted means queued; limits are neither exceeded nor leaked |
| queue worker, `regulayer-ingestion-queue/app` | Redis: stream, consumer group with pending list, dead-letter hash; one task and one lock per project | dequeue, forward to the recorder, acknowledge, retry at the end of the stream, dead-letter | restart between two steps, time-out while the recorder goes on, failure of a Redis call, trimming | nothing accepted is lost; order within a project; every event ends recorded or dead-lettered |
| governance, `regulayer-governance/app` | tables: review history, assignment queue, gate resolutions, audit log | policy action intake, AI intake, review state update, gate resolution, review queue | every call is a transaction that decides on what it read before; callers do not wait for each other | one verdict; an escalation is not undone by the AI; held decisions are listed |
| policy engine, `regulayer-governance-policy/app` | policies, in-memory anomaly windows, workflows | evaluate a decision, post actions to governance and return them | acts even if its answer comes too late | the same actions reach recorder and governance |
| client library, `regulayer-sdk/regulayer` | none | submit; in gate mode poll the resolution for 300 s | a lost answer, a verdict racing the time-out | acts on the one verdict that stands |
| web console, `regulayer-web/app` (53 pages with the verifier UI) | per page: what it shows, locks, spinners, forms, handlers under way; per request: the control plane's resources | load, reload, change, store a document, poll, react to a selection, to a failure, to the end of the session | answers arrive in any order; handlers of one page interleave at every `await`; a failure between two requests; own copies of what was written | what is shown was stored; own changes become visible; nothing spins for ever; nothing is done twice; what was told is true |
| control plane, `regulayer-control-plane/app`, two replicas | organisations, users, keys, sessions, invitations, password resets, audit log, usage | sign-up, login, members, roles, invitations, resets, deletion, API keys, Stripe webhook | every request decides on rows it does not lock; a foreign key refuses at the commit; the audit entry is a transaction of its own; reordered Stripe events | an organisation keeps an owner; nobody joins by a withdrawn invitation; seats stay near the plan's limit; a reset ends sessions; status follows payment |
| billing, attestation, infra, retention, incidents, reports and others | see `components` in `PROJECT.json` | | | |

How they interact: SDK -> gateway -> (stream -> worker ->) recorder -> policy
engine -> governance; recorder -> governance (actions, then intake) in
background tasks; web -> gateway -> governance (review); SDK -> gateway ->
governance (poll).  All of these are HTTP calls with a time-out whose outcome
the caller may not learn while the callee goes on.  The services share no
memory; shared state is in PostgreSQL and Redis.

## Modules

| module | models | reads as |
|---|---|---|
| `RecorderChain` | the append path of the recorder | one action per database step of a handler |
| `ChainVerifier` | the two verifiers | predicates on a set of rows |
| `Ledger` | what the recorder promises for any number of writers | abstract specification |
| `HashChain` | the chain the documents describe: one line per project | abstract specification |
| `RecorderChainProofs` | theorems about `RecorderChain` | |
| `IngestionQueue` | gateway's XADD, worker, retry, dead letters, the recorder from outside | one action per effect of the worker's task |
| `IngestionQueueProofs` | theorems about `IngestionQueue` | |
| `GateReview` | one decision through recorder, policy engine, governance, reviewers and SDK | every call to governance begins and commits in two actions |
| `GateReviewProofs` | theorems about `GateReview` | |
| `GatewayAdmission` | what a request passes before it is forwarded, and the plan of its organisation | one action per awaited call; time is a variable |
| `GatewayAdmissionProofs` | theorems about `GatewayAdmission` | |
| `Accounts` | the people of the control plane: organisations, users, sessions, invitations, resets | one action per transaction of a request |
| `AccountsProofs` | theorems about `Accounts` | |
| `ConsoleScript` | the vocabulary in which the pages of the console are written down | operators that build records |
| `ConsolePage` | how a page runs: React, JavaScript's `await`, HTTP, the other sessions | one action per step between two awaits |
| `ConsoleOrganization`, `ConsoleAccount`, `ConsoleEntry`, `ConsoleGovernance`, `ConsoleCompliance`, `VerifierUi` | the pages | one record per page, one field per handler |
| `Console` | all pages together, and what each owes its user | the instance and the properties |
| `ConsoleProofs`, `ConsoleChangesProofs` | theorems about `ConsolePage` and `Console` | |
| `MC*` | constants of the instances | |

Operators that end in `Fault` are mutations: forms that a plausible bug would
give the definition below them.  No definition uses them; each documents how
one property can be broken, and was checked to break it.

### RecorderChain

A handler (`Handlers`) is one coroutine of one recorder process; there may be
several processes.  `pc[h]` is where it is between two `await`s:

    idle -Receive-> received -CheckDuplicate-> checked -GetLastRecord-> linked
      -TakeId-> inserting -EnterHashIndexes-> hashed -EnterDecisionIndex-> flushed
      -Commit-> committed -Refresh-> recorded

with exits to `rejected` (4xx before the database), `duplicate` (409),
`ordering` (sequence number refused) and `storage_error` (500).  `rows` is what
is *committed*: SELECTs run at READ COMMITTED and see exactly that.  The flush
is three actions.  PostgreSQL draws `record_id` from the sequence before it
consults the unique indexes, and enters these one after the other, in each
waiting for the open transactions that entered it with the same key: first those
of the two hash columns, which are made with the table, then that of
`decision_id`, which is made after it.  The order is the same in every session
and a transaction inserts one row, so that waits go in one direction; `Answered`
checks that no two handlers wait for each other.
`WriteFails` and `RefreshFails` are database errors;
`Crash` is the end of a process or a cancelled request.  `tail` and `rid` are
local variables of the handler.

A payload is a pair of decision id and body and its SHA-256 is that pair: equal
hashes mean equal payloads.  `Serves` says which projects' requests may reach
which handler: everything everywhere in general, disjoint sets for "one writer".

### IngestionQueue

`stream[p]` is everything that was ever added to the Redis stream of project `p`;
an entry's id is its place there, and nobody deletes one.  `trimmed[p]` is how many
of the oldest Redis has removed: `XADD` with an approximate `maxlen` may drop any
entries but the newest `StreamCap`, read or unread, pending or acknowledged.
`read[p]` is the last entry the consumer group was given and `pending[p]` what it
has not acknowledged.  `phase`, `msg`, `status` belong to the worker's task of the
project; `inflight` is what the recorder works on, which may include a post its
sender no longer waits for; `chain` is what was recorded; `dlq` the dead-letter
hash.  The task goes `idle -Dequeue-> delivered -Post-> forwarding -Answer or
Timeout-> answered`, then `Succeed`, or `Requeue`/`DeadLetter` followed by `Ack`:
re-enqueueing and acknowledging are separate Redis calls with a possible failure
between them.  A task keeps its message in memory, so that it may re-enqueue an
entry that was trimmed meanwhile.

The recorder is one step here: it accepts a decision id once (which
`RecorderChain` proves), may say 500 although it recorded, refuses some events
always (`Refused`) and may refuse a numbered event at any attempt (`Numbered`):
whether it follows depends on the last record that the recorder reads, which may
be out of date.

### GateReview

One decision.  `stage`, `held`, `toEmit`, `missed` are the recorder's handler
and its background tasks; `history`, `queued`, `resolution` are the three
governance tables, restricted to the decision; `sdk`, `heard`, `polls` the
client.  `Calls` are the requests to governance: one per action from the policy
engine, one per blocking action from the recorder, the AI intake and one per
reviewer.  `Begin` captures what the transaction reads (review state, presence
in the queue) and its timestamp; the commit action decides on the captured
values.  The current state is that of the latest *timestamp*, so that a slow
transaction may commit an entry below others.

### GatewayAdmission

A request is in `pc` where it is between two awaited calls of `ingest_decision`:

    new -Validate-> validated -TakeToken-> granted -Count-> first -SetExpiry->
      admitted or over_quota; admitted -Forward-> forwarded

`Refuse` is every error before the counter, `Cut` the end of the process or an
error between INCR and EXPIRE.  `lim` is the limit the control plane sent with
the validation; the plan (`open`, `subscribed`, `cap`) may change at once
afterwards.  `counter` and `bucket` are the Redis keys, `counterEnds` and
`bucket.ends` their expiry; `month` and `ticket` record what a request's INCR
returned, `granted` when its token was taken: histories for the properties.

*Time.*  `time` is Redis's clock and moves by `Tick`, which also drops expired
keys.  A gateway reads its own clock before it calls Redis, so a reading is
`time + e` with `e` between `-Behind` and `Ahead`; tokens are measured by the
time they take to refill.  The 32 days of a counter and the 60 idle seconds of a
bucket are there to be longer than a month, or than the refilling, by more than
clocks differ: that is the assumption `SlackAssumption`.

*One bucket.*  The code means one bucket per key (`main.py:110`), but the control
plane's `KeyValidationResult` has no `key_id` and the gateway puts in a default
(`auth.py:110`): all keys of all tenants share one bucket, and so do all
requests of the model.

### Accounts

A handler (`Handlers`) is a request of the control plane; `hs[h]` is what it has
read and where it is (`at`):

    Enter -> look -Look...-> commit -Commit...-> audit -Audit-> done
    LookSignup, LookAccept -> commit -> verify -Verify-> login -OpenSession-> done
    LookReset -> sweep -Sweep-> commit -CommitReset-> done
    Enter -> look -CountMembers-> count -LookInvite-> commit -CommitInvite-> done

`Enter` is the session and the user read by `get_tenant_context`: role and
organisation are those of that moment for the rest of the request.  `Look...` is
what an endpoint reads and tests, `Commit...` its transaction, `Audit` the entry
of the audit log, a second one.  `Die` is the request that raises or loses its
connection anywhere, so that every commit may also fail, and an audit entry may
be missing for a change that was made.  Two replicas are deployed
(`regulayer-infra/deploy/docker-compose.yml:29`), hence nothing orders the steps
of two requests, whether the endpoint is `async` or not.

The tables are functions from ids to rows; ids are never used again.  A commit
respects what PostgreSQL enforces: the unique email (`EmailFree`) and the foreign
keys.  SQLAlchemy sends writes at the commit (`autoflush=False`), and an UPDATE
that meets no row is an error (`StillThere`) while a DELETE that meets none is
not.  Bulk deletes take what is there when they run: so `invalidate_user_sessions`
deletes the sessions of that moment (`Sweep`, `Swept`), and its commit is also that
of the password and the token, which the session holds unflushed by then.  A
`secret` is the number of resets of a user's password.  `withdrawn`, `joined`,
`missed`, `crossed` and the fields `via` and `late` are histories for the
properties.

`create_invitation` counts the members (`CountMembers`, kept in `seen`) and in a
later statement the open invitations (`LookInvite`, `HasRoom`), each as they are
at that moment: whoever accepts in between is in neither number.  `missed` are the
invitations accepted while a request was there.

A session that was closed and an invitation, reset or session that has expired
are not removed: it is as if nobody used them again.  The one-time codes of
sign-up and deletion are left to their owners (`SpendCode` is a request with a
right code).  Requests about the organisation itself, projects and keys matter
here because they write the audit log (`Edit`).

Reading the references of the tables showed what the endpoints cannot do:

- a member whose joining by invitation, or anything else, is in the audit log, or
  who ever asked for a password reset, can never be removed:
  `audit_logs.actor_id` and `password_reset_tokens.user_id` refer to the row, and
  `remove_org_member` answers 500;
- `confirm_delete_org` fails whenever there are compliance records, each time
  after it has used up the code (`api.py:1615`);
- `admin_routes.delete_organization` always fails: it uses two tables that the
  module does not import (lines 290 and 293), and so deletes nothing and is no
  action of the model;
- `POST /v1/orgs/{org_id}/users` (`register_user`) counts no seats;
- `revoke_invitation` does not look at the organisation of the invitation;
- `PATCH /v1/users/{id}/role` calls a method that does not exist.

### Console

A page of the console is a script: a record with the state it is mounted with,
the data it holds, the handlers of its controls, effects and timers, the
conditions under which a control is there and enabled, and the flags that tell
that something is under way.  A handler is a record too: the guard with which it
returns at once (`when`), the assignments before the first `await` (`begin`,
`clears`), the requests it awaits one after the other (`calls`), the assignments
at the end (`ok`) and in `catch` and `finally` (`err`), and what it calls without
awaiting it (`also`, `next`).  The six modules with pages are nothing but that,
read off the components of `regulayer-web/app`, and `ConsolePage` says how such a
script runs, once for all pages:

| action | code |
|---|---|
| `Use(h)` | a control of the page is used: the handler up to its first `await`, with what it closes over (`Begun`) |
| `Tick(h)` | an interval, or an effect that fires again |
| `Serve(s, r)` | the control plane handles a request, or one of those sent with `Promise.all` |
| `Answer(s)` | the answer is there: the rest of the handler up to the next `await`, and what it calls at its end |
| `Catch(s, r)` | a request with a `catch` of its own fails |
| `Fail(s)` | a request fails, before or after it took effect: `catch` and `finally` |
| `Expel(s)` | an answer 401: the interceptor of `lib/api.ts` loads the sign-in page |
| `Elsewhere(r)` | another session changes the data |

What is stored and what is shown is abstracted to the set of numbered changes it
reflects: `db[r]` for a resource of the control plane, `view[r]` for the copy in
the page with the selection it was asked for.  That is enough to tell a stale
answer from a fresh one, a change that was lost from one that was hidden, and an
answer for an earlier selection from one for the present.  `acked` and `denied`
are what the page told its user: done, or failed.

A list changes by one entry (`Change`, "add"); a document such as an impact
assessment is stored as a whole (`Store`, "put"), computed from the copy on the
screen: two stores that overtake each other lose an edit.  Pages that use
react-query cancel a fetch under way when they ask again (`latest`) and show an
answer only under its key (`keyed`).  One visit of one page is modelled at a
time: `page` never changes, and leaving (`here = FALSE`) lets the handlers under
way go on, as JavaScript does, without showing anything.  `router.push` returns at
once: where a handler ends with it, `finally` frees the button, and the page and its
controls are there until the next page is (`pushed`, `Arrive`).

The session's user is signed in and has an organisation, except on the pages for
entering.

## Runs

| run | asks | instance | states |
|---|---|---|---|
| `RecorderChain_race` | what holds for any number of writers | 2 handlers serving both of 2 projects, 6 requests (conflicting payloads, numbered, invalid), 3 ids | 186 398 |
| `RecorderChain_writer` | what one writer per project adds | 2 handlers, one project each, 5 requests, 4 ids | 24 067 |
| `RecorderChain_fork` | violated: "Record N references Record N-1" | as race | |
| `RecorderChain_alarm` | violated: an honest table is verified | as writer | |
| `IngestionQueue_lossless` | is anything lost under every fault | 1 project, 3 events (one refused, one malformed, one numbered), 1 retry, streams trimmed to 2 entries | 1 119 164 |
| `IngestionQueue_settles` | does every event of a fairly served project end; order and one post at a time where no time-out happens | 2 projects, only one scheduled fairly and with time-outs, 3 events (one numbered), recorder errors | 72 635 |
| `IngestionQueue_crash` | violated: at-least-once delivery | 2 projects, 4 events, crashes only | |
| `GateReview_verdicts` | verdict, AI approval, listing under every fault | 2 reviewers, both modes, 3 policies, 2 polls | 670 000 |
| `GateReview_blocked` | violated: a held decision is offered to a reviewer | one "block" policy, no fault | |
| `GatewayAdmission_limits` | quota and token bucket under concurrency, differing clocks, expiring keys, plan changes | 3 requests, 4 months of one tick, clocks one tick behind | 1 970 000 |
| `Accounts_members` | owners, invitations, seats, sessions and resets when requests overlap | 2 requests at once, 2 emails, 1 organisation with 2 seats, 5 rows, 1 reset | 4 616 074 |
| `Console_pages` | every page: shown, locked, told and stored agree; polled pages catch up | 53 pages, 2 handlers at once, 2 changes, 2 selections, 1 failure | 176 201 |

**Why the instances are large enough.**  A race needs two handlers with a
common key and a third row to link to; three ids allow two committed rows on
one link and a failed INSERT between them.  `RecorderChain_race` contains every
pair of conflicts the table knows (same decision id, same payload, same
project, next sequence number) and every failure at every step.  In the queue a
reordering needs two events and one retry, an overtaken retry three; a larger
retry limit repeats the same cycle.  In `IngestionQueue_lossless` `StreamCap` is 2
and up to five entries are added, so that unread, pending and acknowledged ones
are trimmed under the worker's hands; in the other two runs the streams stay below
their cap.  The theorem is for every cap.  In `GateReview` two
reviewers give every interleaving of two transactions, two polls give "before"
and "after" a verdict, and the theorems cover any number of either.
In `GatewayAdmission` three requests are one more than the highest limit and two
more than the bucket holds; time goes far enough for a counter and a bucket to
expire, a gateway may count in the month before, and a superadmin's limit may be
below the subscriber's.  There is one project (two share nothing but the bucket);
the theorems are for any number.
In `Accounts_members` two requests are under way at once, which is enough for each
of the two-sided races (two removals, two invitations, acceptance and withdrawal,
login and reset); two emails allow a second member or invitation and a conflict of
emails, five ids the longest of the stories (founder and session, invitation,
member, session or reset).  Somebody who accepts between the two counts of another
request is among them; that two requests with a limit of 2 end with four seats in
this way takes seven ids and four emails, which only the theorem covers.  With requests and emails symmetric and nothing but
invariants to check, the symmetry is sound.
In `Console_pages` every race between two handlers, two answers or a handler and
its own reload needs two slots; two changes tell "the first hides the second"
from "shown"; two selections tell the present from the earlier one; one failure
or expired session reaches every `catch`, `finally` and half-done handler, and
with the other handler under way, what the two make of it.  The handlers a page is
mounted with fit (`ScriptAssumption`); loads that start together in one effect
are one handler with several requests.

**Bounds**: `MaxId` (the last value of the record_id sequence, `2^63 - 1` in
PostgreSQL; in `Accounts` the rows with an id of their own), `MaxRetries` and `StreamCap` (settings of the worker and of XADD),
`MaxPolls` (how many polls fit into 300 seconds), each event accepted once,
each reviewer submits once, `Horizon` (when the model's time ends), `MaxOrgs` and `MaxResets` (organisations
and resets at a time), `MaxRuns`
(handlers of a page under way), `MaxChanges` (of one visit, by this tab and
others) and `MaxFaults` (failing requests of one visit).

**Deadlock** is checked for the recorder.  The model of admission never
rests (a superadmin may always act), so that the check is vacuous there.  Queue
and review come to rest when all events are settled or the decision is through,
and a page of the console when nothing is left to do on it; their configurations
switch the check off.

**Fairness.**  `RecorderChain!FairSpec` assumes weak fairness of each handler's
next step: the event loop resumes runnable coroutines and the database answers.
It assumes nothing about clients, failures or crashes.
`IngestionQueue!FairSpec` assumes weak fairness of the tasks of `Served` and of
the answers to *their* posts (the recorder answers or the HTTP client's time-out
fires); tasks of other projects may stand still for ever, which is what a slow
recorder looks like.  `GateReview` is checked for safety only.
`ConsolePage!FairSpec` assumes weak fairness of each request under way (the
control plane handles it and the browser gets the answer, or it fails) and strong
fairness of the intervals of the pages that poll.  Strong, because the model has
only `MaxRuns` handlers at once and a user who keeps them busy would block the
interval, which the browser does not know.  It assumes nothing about the user.

### Properties

Recorder, any number of writers: `RecordedOnce`, `LinksPointBack`,
`NumberedAlongLinks`, `RepliesTruthful`, `ForksDetected`, `RemovalDetected`,
the refinement `LedgerSpec`, and the liveness property `Answered` (waiting for
rivals in the unique indexes is never for ever).  One writer per project:
`ChainIsLine`, `OneProjectVerifies`, `NeverInsertedBelow` and
the refinement `HashChainSpec`.

Queue: `Accounted` (every accepted event is buried, recorded, or in the stream,
unread or unacknowledged, unless `StreamCap` entries were added after its last one:
a project that sends faster than its worker reads does lose events), `OneAtATime`, `FirstAttemptsInOrder` (what is left of the promised
order), `PendingIsCurrent`, and the liveness property `Settled`.

Review: `VerdictStands`, `LoserLeavesNoTrace`, `EscalationStands` (an AI
approval decided on a stale state never lands on a held decision, because the
recorder waits for its actions before it sends the intake) and
`ApprovalIsListed`.  The last two hold *provided* the recorder's actions got
through: `missed` is set where the code logs and goes on.

Admission: `QuotaHolds` (of a project's requests no more pass in a month than the
highest limit one of them was validated with), `RefusedOnlyFull` (its opposite:
nobody is refused for other requests than those of the same project and month,
though these include failed ones), `BurstBounded` (tokens given in any stretch of
time) and `CountersExpire`.

Accounts: `OwnerStays` (while no change of a member is made by a request that
another change has made out of date; two owners who remove each other at once do
leave none), `WithdrawnNeverJoins`, `SeatsBounded` (the limit, and one seat for each
other request under way, since `create_invitation` counts before it inserts; those
who accepted between the two counts of a request come on top, and nobody else) and
`SessionsCurrent` (a reset leaves no session of the earlier password but those that
a login was opening at that moment, and these do stay).

Console, each for the pages that mean to keep it: `ShownIsStored` (nothing is
shown that was only asked for), `OwnChangesShown` (what this tab did and was told
was done is on the screen when the page rests, although reloads race),
`EditsKept` (whole-document stores lose no edit unless they overtake each other),
`ShownIsSelected` (no answer is shown under another selection), `NothingPending`
(whatever fails, spinners and locks go away), `FailureTruthful` (what was told to
have failed did not happen), `NoTwin` (no double resolution, invitation or
deletion by two clicks), `StepsForward` (late answers do not take a guide back),
and the liveness property `CatchesUp`: a polled page shows the present state in
the end, however polls overlap, reorder and fail.

## What the runs found

Four statements of documents and comments are not true of the code; each is a
run expected to fail (`findings` in `PROJECT.json` has the quotations).

1. `RecorderChain_fork`.  Two handlers read the same last record and both link
   to it.  The chain is a tree, "Record N references Record N-1" is false, and
   no lock, key or isolation level prevents it.  The queue worker's per-project
   lock does not: gate-mode requests bypass the queue, and a timed-out post goes
   on beside the next one.
2. `RecorderChain_alarm`.  With two projects in the database the boot check
   compares the first record of the second project with the last of the first,
   and a production recorder refuses to start on an honest table.
3. `IngestionQueue_crash`.  A message that was delivered when the worker died
   stays in the pending list for ever.  (It is not *lost*: `Accounted` holds.)
4. `GateReview_blocked`.  A decision held by a "block" policy is `rejected` at
   once and never appears in the list reviewers see; the SDK waits five minutes
   and then uses the output.

Disagreements met while modelling, of which no property is stated:

- "No reordering within a project" (`regulayer-ingestion-queue/app/ordering.py:9`):
  a retry is appended to the end of the stream, behind its successors
  (`consumer.py:107`); `FirstAttemptsInOrder` is what is left.
- The AI's approval is committed and then answered 500, because `priority` is
  unbound on that branch (`regulayer-governance/app/api.py:719`); the recorder
  only logs the answer.
- "Check rate limits (per API key)" (`regulayer-ingestion-gateway/app/main.py:110`):
  there is one bucket for all keys, see [GatewayAdmission](#gatewayadmission).
- "-1 means unlimited" (`regulayer-control-plane/app/admin_routes.py:232`): the
  gateway compares with -1 and refuses every request (`quota.py:74`).
- The plan's limit is told to customers per organisation
  (`regulayer-control-plane/app/billing.py:98`), the counter is per project.
- `/v1/quota/status` reports the default limit, not the one enforced.

The console's properties name the pages they hold on, and leave out those where
the code does not keep them.  No document promises it there, so that these are
not findings but the weak spots a reader of the code should know:

- *An answer for an earlier selection is shown*: the lists of
  `decisions/page.tsx` and the windows of `superadmin/page.tsx`.
- *An own change is hidden by a late reload*: eight pages reload with an
  uncancelled request (`Reloading`), and show all own changes only if no two of
  their handlers crossed.
- *An own change is never shown*: `team/page.tsx` posts an invitation and reloads
  the members, among which it is not; the page that the menu leads to,
  `org/team`, lists invitations too.
- *A second click after the answer*: a review is answered, its button enabled, and
  the page still there until `router.push` has loaded the next; `NoTwin` is about
  clicks while the first request is under way.
- *A webhook for no organisation*: the controls of `settings/webhooks` are shown
  while `me` is still being asked; creating then asks for the organisation
  `undefined` and makes nothing (`createForNobody`).
- *A success is told as a failure*: `settings`, `projects` and `get-started` have
  handlers of two requests with one catch.
- *A change that failed stays on the screen*: `settings/notifications`, the
  documents of the compliance part and the wizard of `ai-systems/[systemId]`
  (`Optimistic`).
- *The sign-up page goes back* from its last step when the answer to "resend"
  comes late.
- *The AI-act assessment* seals a draft under the system selected by then.
- *The verification report* shows nothing when a verification fails.

## Proofs

TLAPS (1.4.5, Z3, Zenon, LS4) checks every step; nothing is assumed beyond the
`ASSUME`s about constants, which TLC evaluates in every run.  All six type
invariants are proved (`TypeCorrect`); those of `RecorderChain`,
`IngestionQueue`, `GateReview` and `GatewayAdmission` are in no run: a run could
say no more.

**`RecorderChainProofs`** -- for every number of handlers, projects, requests
and every `MaxId`.  The properties are not inductive by themselves: that a new
row is fresh follows only from what handlers hold.  `IInv` adds to the typing
of the state
- the ids handed out and still held are distinct, below `nextId`, and used by
  no row;
- two handlers that are past the unique indexes are not rivals, and no committed
  row clashes with such a handler;
- the last record a handler holds is a committed row of its request's chain,
  older than the id it was given, and accepts the request's sequence number;
- what a handler told its client is true.

`Inductive` proves it, one step per action; `RecordedOnceHolds`,
`LinksPointBackHolds`, `NumberedAlongLinksHolds`, `RepliesTruthfulHolds` and
`ForksDetectedHolds` are consequences.  `ImplementsLedger` shows that Commit is
an `Append` of `Ledger` and every other action a stutter.  `RemovalDetectedHolds` takes the first row above the removed
one: its predecessor is gone, and no other row carries that hash.  Under
`OneWriter`, `OneWriterKeepsLine`, `OneWriterNeverInsertsBelow` and
`OneProjectVerifiesHolds` need a further invariant: the record a handler holds is
still the last of its chain when it commits.  `OneWriterImplementsChain` is the
refinement of `HashChain`: the place of a row in its project's line is the number
of rows of the project not above it, the line has a link at each place
(`LineOf`), and a new row, being the highest, takes the place after the last
without moving another (`Counted`: the rows are finitely many and no place up to
their number is free).

**`IngestionQueueProofs`.**  `AccountedHolds` assumes distinct request ids
(`DistinctIds`) and nothing about the length of streams: an event's last entry is
there and unread or unacknowledged, or `StreamCap` entries were added since.  Its
invariant adds that the message a task works on is pending, that one about to be
acknowledged or already posted has its place elsewhere, and that what was trimmed
is `StreamCap` entries behind.  `OneAtATimeHolds`
assumes that there are neither time-outs nor crashes, `PendingIsCurrentHolds`
that there are neither crashes, Redis errors nor malformed ids: these are the
conditions under which the code gives the promise, and the runs with the fault
switched on show why.  `FirstAttemptsInOrderHolds` needs only that nobody crashes
(the property itself is about projects whose posts do not time out): what is
recorded, the message being posted and the stream are together one line in the
order of acceptance, retries left out (`FirstInLine`); appending, delivering,
recording and trimming each move a message along it or drop some of its stream.

**`GateReviewProofs`** -- for any number of reviewers, any policies and polls.
`VerdictStandsHolds` and `LoserLeavesNoTraceHolds` need that each call commits
once and that its entry stands with its call; `EscalationStandsHolds` that
while a blocking action is unposted, in flight or noted, the intake has not
begun or has read a state other than `unreviewed`; `ApprovalIsListedHolds` that
every call that could remove or outdate the queue entry has been asked for by a
person.

**`GatewayAdmissionProofs`** -- for any number of requests, projects and months
and all limits, clocks within `SlackAssumption`.  `QuotaHoldsAlways` and
`RefusedOnlyFullHolds` rest on one invariant: the requests counted in a month
hold distinct values of its counter, none above the counter unless the month is
over for every clock, and a counter does not expire before its month is over;
the pigeonhole principle does the rest, in both directions.  `BurstBoundedHolds`
has a potential function: what the bucket holds, plus the time since its last
refill, pays for every token given since any moment; a bucket that expired had
refilled.

**`ConsoleProofs`** -- for any number of handlers under way, changes and
failures, and for every set of scripts of which the assumptions on constants are
true.  Some of these say that a script is well formed (`ScriptAssumption`,
`OrderlyAssumption`, `SelectionAssumption`, `LeavingAssumption`), each of the
others gives the pages that a property is about a condition one can read off
their code, a handler at a time; the theorem then is that the condition suffices,
whatever races.  TLC evaluates all of them for the pages of the code, at the start
of the run `Console_pages`.  Under a script that breaks a condition that run
therefore stops at the assumption; the mutations of these properties are in
`ConsolePage`, in how a script is run.

| theorem | condition on scripts | what the invariant says |
|---|---|---|
| `ShapeHolds`, `TypeCorrect` | well formed | each run is at a request of a handler of its page (`Shape`); the numbers a run may use are its own and were issued, selections are choices, all that a run was given or will store was numbered (`Typed`) |
| `ShownIsStoredHolds` | `Careful`: changes no copy before the answer, stores no document as a whole | what is shown, and what each run was given, is stored; stored changes stay (`Stored`) |
| `FailureTruthfulHolds` | `Truthful`: where a catch tells that all failed, nothing can fail once one resource was changed | no number that was reported is stored or belongs to a run; a request that was not handled yet has stored nothing (`Told`) |
| `NoTwinHolds` | `Locked`: a flag that the handler raises before its first `await` and its control needs down, and that nothing else puts down | such a handler runs alone, with the flag up (`Alone`) |
| `NothingPendingHolds` | `Covered`: handlers, each of which resets the flag wherever it ends, or leaves the page, or hands on to the next of them, and the only ones to set it | while the flag is up, one of them is under way (`Minded`) |
| `KeyedShownHolds`, `ShownIsSelectedHolds` | `Keyed`: an answer is dropped when the selection has changed, and a change of it empties what is shown | what is shown was asked for under the selection, at every moment (`KeyedShown`) |
| `ShownIsSelectedHolds` | `Hidden`: a change of the selection asks at once, and the controls that change it are hidden behind a flag meanwhile | one request at most asks, for the present selection and with the flag up; else what is shown is right or an error is (`Hides`) |
| `EditsKeptHolds` | `KeepsDocument`: an edit is one request that stores the whole document and is shown first, or as it was sent | while no run crosses an edit, what was acknowledged is stored, shown, and in the copy an edit under way carries (`Edited`) |
| `StepsForwardHolds` | `Guided`: a handler that sets a step at its end sets the last one, or a flag locks all controls that are shown where its own is | the step at which such a handler was started is still shown (`Guide`), since no rival of it runs (`RivalsAlone`) |

A flag may be covered by several handlers and a lock may hold several; a page is
left for good (`LeavingAssumption`), which ends what a handler owes its flag.

**`ConsoleChangesProofs`** -- `OwnChangesShownHolds`: what a page did and was told
had been done is shown when it comes to rest.  The pages have different reasons
for it, and each reason is a condition on scripts, beside one for all (`Plain`: no
answer of these pages is dropped or shown under another selection, and what is
called at the end of a handler always runs and changes nothing).

| condition | pages | what the invariant says |
|---|---|---|
| `Reloads`: a change is in what the page sends, or is added to its copy or read from the answer, or is asked for afterwards | `Reloading`; while no change crosses another request | what is not shown yet is on its way (`Coming`); a handler that changes is alone (`Single`), its further numbers are in no resource, what it sends and what it was answered have all that was acknowledged (`Carries`) |
| `Accumulates`: once loaded, the page asks for nothing any more and adds each change to its copy, before or after the answer, or is left | `orgSettings`, `alerts` and four documents, of `Raceless` | all that was answered is shown, and so is what is shown first (`Accumulated`) |
| `Refetches`: after each change all is asked for, and whoever else asks is locked out or cancelled, or is a control that only a failure shows (`AfterFault`, such as "Retry") | `settings`, `webhooks`, of `Raceless` | `Coming`, while nothing has failed, and no such control was shown (`Unfailed`) |

`Coming` is the core.  It has two parts: no request that was answered before a
change took effect is shown after it (`Fresh`), and what is stored, acknowledged
and not shown is brought by some run (`Brings`), which holds an answer, has still
to ask, is followed by a handler that asks, or replaces the copy by what it sent.
At rest there is no run, so that nothing is missing.  Three more facts carry it:
no change is acknowledged before its turn (`Unacked`: so that what the control
plane adds on behalf of a request is not owed to the user yet), a handler that
changes something holds no answer but of its current request (`Current`), and
while a page is loaded nothing else runs but what only looks (`Loading`: a flag has
the value it was mounted with, and the controls that change anything wait for
another).
A cancelled run may be the one that was to bring a change; `BringsCancelled` shows
that the run which replaces it asks for the same.  On the pages that accumulate
more holds than the runs check: `AnsweredShownHolds` says the same of every moment,
at rest or not, and whatever fails.

**`AccountsProofs`** -- for any number of requests, users and organisations and
every limit.  `TypeCorrect` is more than types: no row refers to one that is gone
and no two users share an email.  `IInv` adds what a request knows of the rows it
has read (`Knows`): an organisation, an inviter or a reset may disappear under it,
but what stays is what it read.  The other theorems have an invariant each:
`Withdrawn` that a withdrawn invitation is in no table and was not accepted;
`ResetEndsSessions` that a login under way has the present password unless it is
`late`, and that a reset about to commit has swept every session that is not;
`OwnerKept` that the actor of a request that is not late still has the role it
read, so that whoever demotes or removes an owner is one that stays;
`SeatsWithinLimit` that the seats not `missed`, with those that requests are about
to accept or to add (`Held`, `Inviting`), are no more than `MemberLimit` and the
number of other handlers: whoever is in neither of the two counts of a request
accepted between them, so that the sum was below the limit when the first of them
looked.

**Model-checked only**: the liveness properties `Answered`, `Settled` and
`CatchesUp`, which are out of TLAPS's reach with fairness.  Every safety property
that a passing run checks is also a theorem.

## Not modelled

- Bytes: canonicalisation and SHA-256 (a payload is its hash), attestation
  signatures, proof bundles, PDF and HTML reports.
- Wall-clock time: time-outs may happen whenever their step is waiting; review
  timestamps are a counter read by all transactions (the services stamp in one
  process; two governance processes with diverging clocks are not covered).
- One queue worker: `docker-compose.yml` starts one, with a fixed consumer name.
- In `GateReview` comments, assignment, the audit log and drift baselines,
  which no property depends on; proposals, whose review handler always fails on
  a role that does not exist (`GovernanceRole.OWNER`).
- `replay_one` of the dead-letter queue and `regulayer-ordering`: no caller.
- `set_review_state`, tags and notifications of the governance service; the
  gateway's `get_usage` (read only) and its proxy (stateless).
- Of the control plane: expiry and logout (as if nobody used the session again),
  one-time codes, the compliance records, preferences and webhooks of an
  organisation, organisations founded without a user (`POST /v1/orgs`),
  and changes of the plan: `MemberLimit` is constant.  An invitation can be
  accepted twice by two requests if the account of the first is removed in
  between; no property is about that.  Whether the status follows the
  payments under reordered Stripe events depends on Stripe, which is not here.
- Of the console the way from one page to another: the caches of `lib/api.ts`
  (session, organisation), the router guard, the shell; and what neither asks nor
  changes anything: charts, search, filters, sorting, printing, scores computed
  from what is shown, the public pages and the documentation.  `api.ts` has a
  stub that deletes nothing (`deleteAISystemRecord`), which the model follows.
- Of the verifier UI the page of one decision, which throws when it is rendered:
  it uses the hooks of a router that `App.tsx` does not mount.
- The policy engine's anomaly windows (a window of violations only has standard
  deviation zero, so that the freeze never fires on an uninterrupted row of them)
  and approval workflow; billing, retention, attestation identities, key
  rotation, incidents, lineage, exports: in-memory registries and files without
  concurrency of their own, most of them not deployed.  The registry of
  attestation identities is written in place, and a crash in between loses it.
