# Verification of the Clientglass API

TLA+ models of the parts of this backend where several requests, webhooks, jobs or sockets act on
the same rows, the TLC runs that check them and the theorems TLAPS proves about them. Paths below
are relative to the repository (`src/...` is its implementation).

## 1. Inventory

The server is one Node process per instance: Express handlers over Prisma and Postgres, a Socket.io
server, two timers (retention every six hours, the weekly digest every hour) and four payment
gateways that call back by webhook. Handlers interleave at every `await`. Nothing holds a lock across
awaits except the blocks under `withLock` (a Postgres advisory lock) and the Serializable transactions
that number positions.

| Component | State | Operations | Talks to | What is hard | What makes it correct |
|---|---|---|---|---|---|
| Billing (`payment.service.js`, `subscriptionState.js`, `razorpay/paypal/cashfree.service.js`, `jobs/cleanup.js`) | the billing columns of the user row; the subscriptions at the gateways | checkout, webhook, sync, return from checkout, cancel, expiry and reconcile jobs, lifetime grant | gateways, ledger, workspace plans | events late, lost or out of order; read, remote call, blind write; two checkouts paid; cancel that times out | no Pro before a payment, billed buyers have Pro, ended ones lose it, nobody is billed twice, a cancelled period is kept |
| Webhook ledger (`handleWebhookEvent`) | `WebhookEvent` rows | record, process, forget, prune | gateways, billing | redelivery during an attempt, failure and crash half-way, pruning | one attempt at a time, effect at most once, a failed event is retried |
| Workspace team (`workspace.service.js` 190-586) | owner, member rows, invites | invite, resend, revoke, accept, decline, role, remove, transfer, leave | billing (seats of the plan), sockets | checks before the lock, status written blindly, two rows and a column that must agree | seats, owner rows, refusals that last |
| Page rooms (`socket.handler.js`, `revoke.js`) | rooms and `socket.data.pageId` | join, leave, recheck | team | access lost between check and join, recheck across awaits | rooms hold readers only |
| Sessions and sign-in (`session.service.js`, `auth.service.js`, `token.service.js`) | session rows, `tokenVersion`, one-time codes | register, login, Google, exchange, refresh, logout (one, all), reset, handshake | sockets | rotation raced by two tabs, revocation raced by issue, a restart between the version and the revoke | what was ended is refused, overlapping refreshes cut nobody, open sockets are signed in |
| Page tree (`page.service.js`, `block.service.js`) | `parentId`, `archived`, positions; blocks under blocks | create, move, archive, restore, nest, drop, list, search | team, account | two moves each pass the cycle check; a parent goes between check and write | every page hangs in its own workspace, every block on its own page; a circle needs two moves that overlap |
| Tasks (`task.service.js`, subtasks, comments) | status, `completedAt`, recurrence, position | create, import, update, delete | team, requests | two completions of one recurring task | one next occurrence per completion |
| Client status pages (`workspace.service.js` 588-979, `feedback.service.js`) | share link, milestones and versions, feedback | enable, disable, edit, set milestones, sign off | billing (client limit) | lock keyed by the requester; versions computed outside the transaction | client limit; a sign-off is for the words the client saw |
| Client requests (`request.service.js`) | request rows | submit, accept, decline, delete | tasks | claim, task, link as three writes | one task per request, none lost |
| Weekly digest (`statusDigest.service.js`, `subscriber.service.js`) | last-sent date, subscribers | run, subscribe, unsubscribe | email | several instances, restarts | at most one email a week; unsubscribed stays so |
| Account (`user.service.js`) | the user row and all that hangs on it | export, delete | everything | checks, billing stop, hand-over and delete as separate steps | no shared workspace is destroyed, what was handed over stays, nobody is billed afterwards |
| Templates and copies (`workspaceCopy`, `clientTemplate`, `template.service.js`) | saved shapes of a client, templates of a page | duplicate, save, use, remove | page tree, tasks | ids renamed while a parent is left out; saves at once | a copy is a tree of its own; the limit of templates |
| Files and storage (`file.service.js`, `storage.service.js`) | rows and stored objects | upload, remove, cascade | tasks, account | a row and an object in two stores, with no transaction over both | no listed file has lost its content |
| Momentum and the digest of the day (`momentum`, `digest`, `clientOverview.service.js`, `timezone.util.js`) | none: reads of the task rows | aggregate by local day, week, month, quarter | tasks | zones, changes of the clock, ends of months, approximations of the past | the charts add up, the screens agree |
| Analytics, notifications, activity and audit, HTTP layer | rows, counters | aggregate, record, route | | mostly I/O and reads | see `PROJECT.json` |

`PROJECT.json` lists each component with what is left out of it, and every hazard at its line.

## 2. Plan

Order: most money and most concurrency first; each step a module that can be proved about, an MC
module with one small instance, then proofs.

1. **Billing** (done): `GatewayStatus` (pure maps of a gateway's answer to the shared state) →
   `PaymentGateways` (the environment) → `Billing` (the app) → `MCBilling`, `BillingProofs`.
2. **Webhook ledger** (done): `OnceEach` (abstract) ← `WebhookLedger` (refines it), `WebhookLedgerProofs`.
3. **Workspace team and page rooms** (done): `PageRooms` → `Workspace` → `MCWorkspace`, `WorkspaceProofs`.
4. **Sessions** (done): `Sessions` → `MCSessions`, `SessionsProofs`.
5. **Board and client requests** (done): `Tasks` → `ClientRequests` → `MCClientRequests`, `ClientRequestsProofs`.
6. **Status page** (done): `ActiveClients` → `SignOff`, `WeeklyDigest` → `StatusPage` → `MCStatusPage`, `StatusPageProofs`.
7. **Content and accounts** (done): `Spaces` (workspaces and roles as content sees them) → `PageTree` and `Attachments` →
   `Library` (copies and templates) → `Account` (deletion) → `Content` → `MCContent`, `ContentProofs`.
8. **Numbers** (done): `Calendar` (dates, zones, periods) → `Momentum` (the aggregates over tasks that change) → `MCMomentum`, `MomentumProofs`.

Left: analytics, and the order in which notifications reach sockets.

## 3. Modules and how they correspond to the code

**GatewayStatus.** What each gateway can answer and what `stateOf` (Razorpay, PayPal, Cashfree) or
`applySubscription` (Stripe) makes of it: a record `status, paid, inFlight, ended`. Operators only.

**PaymentGateways.** The environment: a subscription is created, authorised, charged, fails, is given
up, cancelled by its owner or at the cycle end. Each change may send an event. Events stay in a set
until received, so they arrive in any order and any time later. Razorpay events carry a copy of the
subscription, the others are read again at the gateway by the handler.

**Billing.** `row` is the user's row. `reqs[p]` is a handler between two awaits: `remember` (checkout
made, row not yet written), `stored` and `payments` (Cashfree's two reads), `apply` (state known, row
not read), `cancelDuplicate`, `write` (patch computed from a row that may be old by now), `cancelAtCycleEnd`,
`mark`, `flag`, `stop`, `restore`, `resync` (the in-app cancel of each gateway). Reads that commute with
everything between them are merged: the fetch of a subscription with the start of its handler, a checkout's
creation with its remembering where the code has one write. Events that differ in nothing but their time
merge in the set. `crossed` is history: nothing in the code keeps one buyer's requests apart, and `Crosses` says when two have met in a way the
agreement of row and gateway does not survive: one is caught between its reading and its writing while another one writes the row it goes by, changes its subscription
at the gateway, or reaches a verdict on it by a different answer. Requests that interleave otherwise, events in any order and what happens at the gateway between two awaits never
count as crossing. Left out: the `plan` column and changes of plan, `cancelNow`, customer ids, and a database
failure while a flag is restored.

**WebhookLedger.** `ledger[e]` is the row of event `e` (the day it was made), `handler[h]` an attempt:
record, process, and then respond or forget. A failure happens before the effect. No attempt lasts from one day
to the next. `Crash` drops all attempts. **OnceEach** is what it promises: work on an event begins, finishes
with its one effect or is abandoned; the mapping takes a row whose event has not been applied as work
in progress.

**PageRooms.** One socket per user: the rooms it is in, and the page it says it is on.

**Workspace.** One workspace. `reqs[r]` is a request that has done its checks (`pc = "write"`) or has to
recheck sockets (`look`, `recheck`); it keeps what it read: owner, plan, the invited role, a page. Starting
a call stands for `assertOwner` and the checks that follow, which no other write can tell apart from one read
each; the write is the update, the transaction, or the block under `members:` lock. A refused call is a stutter.
The access check of a recheck and the eviction after it are one step. `most`, `stale`, `refused`, `late` (the answers
and resends under way when their invite was turned down) and `crossed` are history: they say what has been, and no action reads them. Left out: the daily email cap and the
verified address, emails, audit and notifications, the rotation of the invite token (the invited person uses
the current one), pruning of finished invites ("none" and "finished" pass the same guards), disconnects.

**Sessions.** `account[u]` is what sign-in reads of a user row: the version, whether there is a password, a
Google link, a proven address. `session[s]` is a row, `closed[s]` says which of its grace windows are over (a clock of
its own for each session, so any window may close before any other step). Access and refresh token of one answer are
one token in `issued`; any token may be presented at any time. A link of `links` is the reset link for one version.
`reqs[r]` is a request between two awaits with what it has read: sign-ins stop between the read of the account (or its
write) and the new session, and between that and the answer, which may be lost (`Hand`); a refresh between its read, its compare-and-swap, the second read, the answer and the cut; a reset
between check and write, an ending between the version, the revoke and the sockets. A socket is between
its check and its rooms while `open` is false. Tokens are taken as signed: a forged one is refused and changes nothing. An
expired one is one not presented again, and a pruned row is one that is expired or revoked. `revokeAll` has no route
yet; it is modelled as a call for any user. Left out: profile fields, PKCE and OAuth state (a call that fails them ends
there: `ExchangeStart` has that outcome), audit and mail, account deletion (its own effects are in Account). `endings`, `since`, `unfinished`, `cut` and
`late` are history.

**Tasks.** `task[t]` is a row: status, whether it is dated, whether it recurs. `edit[e]` is an update that has read its
task (`write`) or has completed a recurring one (`spawn`). The date a patch gives and whether it completes the task are
decided by what was read, and the rest of the row is as it is when written. Ids are never used again, as the database's are not.
Left out: positions, assignees, priorities, due dates (they are in Momentum), subtasks,
comments and the fields no decision reads. **ClientRequests** EXTENDS it: accepting is `claim` (a conditional update), `create` (the task,
through `Tasks`' own `Create`), `link`, `answer` (the row read again) and, after any failure, `putBack`. Left out: the scope tag, the
allowance computed from it, the read mark and the daily cap of submissions. `completed`, `spawned`, `overlap`, `from`, `unlinked` and `linked`
are history.

**ActiveClients.** Who owns which client (workspace), which links are live, and each user's plan. `share[r]` is a call that has passed
`assertOwner`; `EnableShare` is the block under the `clients:` lock, which is keyed by the requester. A plan without a limit is one with
a large one. `most` and `taken` are history. **SignOff** adds the milestones of one page. `edit[r]` is a list edit, an edit of the first
milestone or an approval that has read and not yet written; the transaction of a list edit is one step. A title with its date is one of `Words`.
Positions are left out, so any milestone may be the first; answers other than approvals only hide an approval and are left out too.
`putBack` is history. **WeeklyDigest** adds the weekly email of that page: `run[i]` is a pass of one server over it, which has found it due
(`claim`), has claimed the week (`list`) or is mailing (`send`), with the time it started at. A failed email counts as sent, as the
code logs it and goes on. The weekday is left out: any day may be the owner's. `mails` counts what was sent. **StatusPage** puts the three together: the
link is what approvals and emails depend on. The limit of subscribers, the daily cap of feedback, wording, logos and view notices are left out.

**Spaces.** Accounts, owners and member rows, several workspaces, and what the other parts of content ask of them: `RoleOf`, `MayUse`
(a row with a maker and perhaps a workspace), `Mine`. `req[r]` is a request between two awaits; every part adds kinds of it. Leaving (or being removed)
and a transfer are a look and a write each, so that they meet; joining is one step, its races being in Workspace. `ListStart` and `ListLock` are the first request of a new user, which makes a
default workspace. A request may fail at any point (`Abandon`). **PageTree.** `page[p]` and `block[b]` are rows; an id is used once. Every
change is a check and a write with other steps between them. `Below` is what the recursive query collects. **Attachments.** Tasks (who made
one, and where), file rows and stored objects. A task goes before its objects do. **Library.** `Collect` turns a workspace into a shape, `Build` a shape into
a workspace in one transaction, with new ids; saved templates keep a shape. A page template is the number of its blocks. **Account.** A deletion is
`stop` (billing), `read` (memberships), `hand` (the transaction), `list` (objects), `row` (the cascade), then a sweep of the objects; exporting is a
read. `bill[u]` is a subscription and what the row knows of it: whether its id is stored, and a status, which may be of the subscription
before, since a new checkout leaves that column as it is. **Content** puts the five together, with `Start` for the rows there are at first: the ones
from before workspaces have none, and no call makes such a row any more. `raced`, the `late` of a shape (which of its pages are in `raced`), `since`, `auto`, `slipped` (workspaces handed to somebody who was about to leave) and `paidLate` are history. Left out: titles, contents,
positions, the page someone's own pages of no workspace are listed with, dates and wording of copies, the daily caps, the confirmation by mail.

**Calendar.** Instants are half hours, so that every offset is whole; a zone has one change of its offset. Civil dates are computed from day
numbers, and `ZonedMidnightToUtc` reads the offset at the midnight of UTC, as the code does. **Momentum.** The rows of tasks as they are created, imported, moved
(a recurring one makes its next) and redated, while the clock goes through given moments; and, as operators on the rows, what each screen shows. Where the code
counts, the model has the set that is counted. `past` remembers the rows of each moment gone by. Left out: the words of the insights but for what they say of due
dates, subtasks, activity by hour.

Operators marked *Seeded fault* are used by no action: each is a variant of the definition after it that a
plausible bug would produce, and is there to see that the properties notice it (`PROJECT.json`, "mutants").

## 4. Runs

| Run | Instance | What it shows |
|---|---|---|
| billing_twice | two Cashfree subscriptions, two requests that interleave until two cross, three events under way, no failing call, one period | whatever the order of events: Pro and billing agree in the end, one bills, the paid period is kept, the last subscription is never cancelled as a duplicate |
| billing_mixed | Stripe with PayPal or Razorpay, legacy lifetime purchase, one request at a time, one failed call or lost event | no Pro before a payment, lifetime is kept |
| billing_live | one Cashfree subscription, one lost event or failed call, fairness | Pro ends when the subscription does; a buyer who is charged is served |
| ledger_once | two events, two attempts, two failures, a crash, pruning after one day | one attempt at a time, refinement of `OnceEach`, a failed event is handled later |
| workspace_team | three people, plans of two and three seats, two requests at a time, five calls | seats, owner and rows, how someone turned away comes back, rooms |
| sessions_devices | one account, two sessions, two requests at a time, one socket, four calls, one restart | what was ended is refused, overlapping refreshes cut nobody, a lost answer can be asked for again, open sockets are signed in |
| requests_board | two tasks, one request, two updates and two accepts at a time, two of each in all, one failed write | one next occurrence per completion, one task per request, only an accepted request is work |
| status_page | two clients, two users, plans of one and two clients; two milestones, two wordings; one address, two instances, four days, a gap of one; two requests at a time, four calls | active clients within the plan, approvals for the words they were given for, one email a week |
| content_spaces | three users, three workspaces, five pages, two blocks, two tasks, two files, two requests at a time, three calls | one default workspace, trees that stay apart, circles only from overlapping moves, the limit of templates, lists that match access also when a leave meets a transfer, nobody billed after leaving but in three named cases, nothing of others lost, objects go last |
| content_leftWork | as above, two calls | a finding, section 7 |
| content_billedOn | as above, three calls | a finding, section 7 |
| momentum_numbers | two members, two tasks, four zones of three moments each, three calls | charts add up, screens agree, the period before is shown as it was, the digest of the day agrees with Momentum |

**Bounds.** Two subscriptions are what the duplicate rule and the late-event rule compare; a third adds only
another pair. Two requests make every race of a read and a write; with two Cashfree subscriptions, three events under way (`FewEvents`) are enough for every seeded fault, and a crossing ends what is explored (`Uncrossed`); two attempts make every overlap with a
redelivery. A clock of two or three periods holds a paid period, its end and what comes after. In the team,
three people are an owner, a member and someone who takes the last seat; every seeded fault shows within five
calls. Sessions of different accounts share nothing, so one account is enough; two sessions are one that is ended and one made meanwhile;
four calls are a sign-in, and a refresh, a reset and its link around it, or three refreshes (a token two rotations old needs them).
Two updates and two accepts make each overlap; two tasks are a task and its next occurrence, or the two tasks one request could wrongly
become; ids are used up for good, so behaviours are short.
On the status page the four calls are shared by links, milestones and subscribers: a milestone, two overlapping edits and an approval, or a link,
the switch, a subscriber and one more. The passes of the weekly email and the clock are no calls; four days hold two emails and a pass that is late.
Content starts where things can go wrong: a workspace two people share, a page in it under another one's, a page of no workspace, a task with a file, somebody who
subscribed once, and a paid checkout that is not applied yet. Three calls are a move that another move meets and the page they leave, a template, its use and what it makes, or a
deletion with one step of someone else before, in the midst of it or after; a third workspace is one that a copy makes while a default one is made. Random behaviours with
eight calls, two million states of them, showed nothing else. The moments of Momentum are the two ends of a week, a month and a year, and days on which
clocks change in the west and in the east; half an hour is the unit since Kolkata's offset is five and a half. Three calls make two tasks and complete, reopen or redate one.
Symmetry is used for people other than the creator, for request slots, for the ids of tasks, requests and milestones, for instances and for interchangeable
subscriptions, never in a run that checks liveness. All counters that grow are bounded by constants (`MaxTime`, `LastCharge`,
`MaxFaults`, `MaxDay`, `MaxFailures`, `MaxCrashes`, `MaxCalls`, `MaxUpdates`, `MaxAccepts`, the moments of Momentum; calls and days again for the page), so behaviours end and deadlock is not checked.

**Fairness.** Weak for a handler that was started: Node runs it on. Strong for the delivery of an event and for
the six-hourly jobs, because other requests may take the model's slots whenever they are free, which is a
bound of the model and not of the server; gateways repeat a delivery until answered, the timers do not stop.
`LoseEvent` is never fair. Weak for the clock.

**When things are quiet.** Several billing properties speak of states in which every event has been applied and
no request runs: before that the row is legitimately behind.

## 5. Proofs

For every value of the constants, from the assumptions named in the modules:

* **BillingProofs.** `TypeCorrect`. `PaidFor` and from it `AccessOnlyAfterPaying`. "Pro implies a charge" is not
  inductive: Pro comes from a patch a request computed, which comes from a state it fetched, or from an event's copy,
  or from a row that already counts as paying. `PaidForInv` says of each of these that there was a charge. It needs one
  assumption, that the buyer uses Stripe and Razorpay only, or never Stripe: Stripe's failed-invoice event marks a row as
  `past_due` with nothing paid, which no answer of Stripe or Razorpay is weighed with, but Cashfree's and PayPal's are: with Stripe and Cashfree TLC finds an unpaid mandate that gives Pro.
  `AllAgree`, and from it `AccessFollowsSubscription`, `BilledHasAccess`, `NeverBilledTwice`, `FlagIsTrue`, `DuplicateRuleIsSafe` and `PaidPeriodIsKept`, for any
  number of subscriptions at Razorpay, PayPal and Cashfree, with or without a legacy purchase. These speak of quiet states, and what makes a quiet state right lies in the unquiet ones:
  `AgreeInv` follows a subscription from the gateway to the row. One that bills is stored as paying, or has an event to come, or a request is about to store or to cancel it
  (`BillingFacts`); one stored as paying is live, or announced, or set to end, or about to be taken away (`AccessFacts`); and what a request has read, reduced or is about to write
  still holds at the gateway or there is news of it (`ReadFacts`, `ApplyFacts`, `WriteFacts`, `CancelFacts`). Any number of requests are in flight. The code does not keep two of them
  from crossing, and after that the claims are false (section 6); so they are about what has happened so far: the invariant holds as long as nothing has failed and no two have crossed (`Orderly`), and the proof of a step shows that
  one request keeps what the others rest on, or crosses them. The one assumption is that there is no Stripe: its failed-invoice event, and a Stripe subscription that was set to end before it was
  paid, which leaves a flag on the row that the next one inherits. The invariant was checked by TLC on all six pairs of the three gateways, with two requests, before it was proved.
  `LifetimeLasts` needs none of these: with any gateways, failures and overlaps, lifetime access goes only if the purchase is recorded between another request's read and write of the row
  (`GrantsBetweenWrites` rules that out).
* **WebhookLedgerProofs.** `LedgerSafe`: while an attempt works on an event it is the one that holds its row, and
  an event that was applied keeps its row as long as its gateway may send it again. From it `NeverTwoAttempts` and, action
  by action, `LedgerImplementsOnceEach`.
* **WorkspaceProofs.** `TypeCorrect`, with what a request carries at each place. `SeatsNeverExceeded`: every request's
  plan was the owner's at some time, so its seats are at most `most`, and the count under the lock compares with that.
  `OwnerAndRowsAgree`. `TurnedAwayForGood`: the invite of someone turned away is not open, and every answer or resend of theirs that is under way had read it
  before (`late`); only those, or a new invite, bring them back. `OnlyReadersInRooms`: whoever is in a room and may no longer read it is about to be put out of it; nobody joins while
  their access is being taken away, or they count as crossed. Looking for this invariant showed that three requests at once need
  the premise `~stale`: a change written for a former owner can name someone whose sockets nobody looks at.

* **SessionsProofs.** `TypeCorrect`; `Invariant`, and from it `EndedRefused`, `OnlyReplay`, `RetryAnswered` and `SocketsSignedIn`. That ended sessions are refused is not
  inductive: a token comes from a request that read an account some steps ago. `SessionsInv` says that an account's version counts its
  endings, that no token or request is ahead of it, and that whatever carries the current version is for a session signed in since the
  last ending, revoked, or of a user whose sessions are still to be revoked (`Clean`). A refresh that answers with a version it did not
  check keeps this only because it read a session that `Clean` covers. Rows only go forward (`Grow`), so what holds of a token or a
  request goes on holding (`Carried`), and each step answers for what it changes (`Kept`). `RetryAnswered`: a session runs at most one
  generation ahead of its tokens (`RetryInv`). The new generation is stored in one step and handed out in a later one, or never; but a rotation is asked for with a token of the generation it
  replaces, and that token is out, so that the grace window lets it in.
  `SocketsSignedIn` is inductive beside `SessionsInv`: a step that revokes a session leaves a request that is going to close its sockets
  (`Going`), and only that request, by closing them, gives up its place.

* **ClientRequestsProofs.** `TypeCorrect`, `DatesFollowStatus`, `ExtraNeedsOverlap`, `LinkedStays`; `RequestsSafe` and from it `OneTask` and
  `OnlyAcceptedWork`. One task per request is not inductive: it rests on the claim. `RequestsInv` says that an id is used once, that
  of all the accepts of a request one at most has the claim, and for each place of an accept which tasks of its request exist: none before
  `create`, none but its own at `link`, none when the request is put back after a failed `create`.

* **MomentumProofs.** `TypeCorrect`; `PastKept`, and from it `PreviousWas`: the tiles of the period before show what was. The code works it out
  from the rows of now, so that each row has to carry its past: `PastInv` says of a row and of every moment gone by that it has kept its date of completion, has lost it by being
  opened again, or has one of a later moment; and that among the moments up to an instant there is a last one, so that "the rows then" has a meaning. The calendar
  is proved to give whole numbers, and the prior period to end where the current one starts. From it also `SameEverywhere`: nothing was completed after now, so that "in the last seven days"
  needs no upper end, which the screens do not share. `DigestAndMomentum` and `ChartsAddUp` rest on the calendar alone: the number of a day's civil date is that day (`DayOfDate`), an instant is on a
  local day exactly when it lies between the two midnights (`MidnightSplits`), and a period ends within half a day of the end of its last bar (`EndIsNear`). The chart
  of a month or quarter adds up where the clocks are not changed about the midnights it is cut at (`PlainEdges`), and by no more than half a day; that of a week always. The assumptions on constants: moments go
  forward, offsets are whole, UTC has the offset 0, and there are finitely many tasks.

* **ContentProofs.** `TypeCorrect` and every property of Content that holds: `OneDefault`, `WithinTemplates`, `TreesApart`, `CirclesNeedOverlaps`, `ListsMatch`, `OthersKeep`,
  `ObjectsLast`, `NotBilled`. What is there at first is a constant, `Start`: `StartAssumption` asks of it what the code keeps (nobody belongs to a workspace that is not there, trees stay
  apart, a file is on a task that is there). Each property rests on what a request between two awaits still knows, so that each invariant is about requests and rows together:
  - `SpaceInv`: whom a default workspace was made for owns it or is gone.
  - `MemberInv`: an owner has a member row, and no leave under way is of an owner, but for workspaces in `slipped`. The transaction of a transfer fails when the row has gone, so only a leave that looked before it
    and deletes after it takes the row of an owner.
  - `TreeInv`: a page, move, block or copy under way goes under something that was in the same workspace, or on the same page, when it was checked. Ids are used once and rows keep their
    workspace (`PagesKeep`, `BlocksKeep`), so that what was checked goes on holding, or the parent is gone and the write fails (`Linked`).
  - `EraseInv`: a deletion owes others what it has not noted (`Owed`): no workspace of its maker has another member, no heir is its maker, and
    after the hand-over nothing of its maker is in a workspace that was handed over. `Turns` says how a deletion comes to be what it is after any step, `Noticed`
    that what others bring about meanwhile is noted in it.
  - `FileInv`: a file is on a task that is there, an upload that has stored its object has the id to itself, and each file in a list of objects that a request carries has no row any more,
    is one that the deletion will take, or changed hands (`Lists`).
  - `BillInv`: once a deletion has stopped billing, what is charged was paid or stored after that, or is what the cancellation passes over: it has no id stored, or the row still says canceled of the one before.
  - `CircleInv`: every circle of pages has a page in `raced`; a move that no other has overtaken goes to a page that is not under the one that moves (`Checked`); and so for the circles of shapes that
    copies and templates carry, whose pages the copy makes anew. Circles of any length need no induction: what is under a page is the least closed set, so that a page is not under another
    as soon as one closed set says so (`Closed`, `Down`). The proof that a copy keeps this would not go through, and TLC showed why: a copy of a workspace with a circle has a circle of new
    pages, none of which was moved. The model now remembers in a shape which of its pages are copies of such (`late`).

* **StatusPageProofs.** `PageSafe`, and from it `WithinPlan`, `ApprovalsStand`, `OneMail` and `TypeCorrect`. Three invariants side by side, as no
  part writes another's variables. Links: the limit counted against is remembered. Milestones: an approval, stored or under way, is for a version its
  milestone has or had and for the words of it, unless put back (`Sound`); every step only moves versions up, or keeps version and words (`Onward`), so
  `Sound` stays. Email: every day whose claim has mailed or will mail is at most `lastSent`, and they are apart (`UsedIsPast`, `UsedApart`), so the day
  of a new claim is apart from all of them.

Every invariant and action property of the passing runs is a theorem, under the hypotheses named above. Only model-checked: liveness (out of the prover's reach, as is `ENABLED`), and no access before paying for
a buyer of Stripe and PayPal both (billing_mixed), as its theorem allows Stripe with Razorpay only.
Type invariants, and the two of requests that are proved (`OpenHasNoDate`, `LinkedStaysAccepted`), are not in the runs: they hold for every instance.
Nothing is proved by induction over data, and no module uses RECURSIVE operators.

## 6. Known limits of the properties

Found with TLC while choosing the runs, and not listed as findings. Once two billing requests have crossed, only "no access before
paying" survives: a slow sync overwrites what a webhook has applied, so that a paying buyer is without Pro or an ended one with it; two checkouts may both be paid and both go on; a subscription may be cancelled as the duplicate of one that has just
ended; the flag of a cancel may be written back; and a lifetime grant may be overwritten (`subscriptionState.js:79-97`). The properties of billing_twice say nothing of behaviours after a crossing or a failed call, and the run does not go on from a crossing (`Uncrossed`). With Stripe among the gateways `invoice.payment_failed` breaks agreement of Pro and billing when it comes late
(`payment.service.js:304`, `370`). A cancel call that times out at PayPal or Cashfree after it took effect makes the app take back its promise of
the paid period (`paypal.service.js:283`, `cashfree.service.js:267`).

Three disagreements of code and comment in billing and the ledger need an unlikely partner each, and are named here only. A Stripe invoice that fails before anything was paid
marks the row `past_due` (`payment.service.js:370`), and an unpaid Cashfree mandate then counts as paid (`cashfree.service.js:163`). A sync that read the gateway before a payment overwrites the
webhook that applied it (`razorpay.service.js:205`). A redelivery that overlaps a failing attempt, or comes after a server stopped between recording and applying, is answered 200, and the
event is not applied (`payment.service.js:486-490`): the reconcile job has to make up for it.

On Razorpay the reconcile job skips rows with the cancel flag (`payment.service.js:438`), so a `cancelled` event that is lost after an in-app
cancel leaves Pro on until someone syncs.

Two overlapping completions of a recurring task make two next occurrences (`task.service.js:303`; the comment at 94-97 says "exactly one"):
`ExtraOccurrenceNeedsOverlap` counts them. A task completed again by someone who read it done, while another opened it, is done with no date.
A next occurrence whose transaction fails is not tried again. A request whose link failed is put back although its task is on the board
(`request.service.js:177` says "No task was made"), and a stop of the server between claim and link leaves it accepted with no task for good.

Two edits of a milestone that overlap can put back words the second had read, with no new version, so that an approval of other words counts
(`workspace.service.js:766`); `ApprovedWordsStand` excepts those milestones. A live link that is handed over with its workspace is compared with no
limit, and one switched on by a former owner counts under the former owner's (`603`). Two subscribers added at once may pass the limit by one
(`subscriber.service.js:40`). A week that was claimed is not sent again if the server stops before it has mailed everyone, and a pass that is slow
mails late, so that two emails can be closer than their claims.

An accept or a resend that had read an invite before it was revoked or declined writes over the refusal: the person becomes a member, or the invite is open again (`workspace.service.js:489`, `388`),
though the comment at 380 says "A revoked or declined invite stays that way". `TurnedAwayStaysOut` names these writes. A leave or a removal that looked before a transfer and
deletes after it takes the row of the new owner (`574`, `583`, `537`): getRole goes on, a download of their data misses the workspace (`user.service.js:63`), and a second transfer fails; a role change that looked before a transfer writes over the new owner's row.
`ListsMatchAccess` excepts such workspaces (`slipped`) and `OwnerHoldsOwnerRow` what follows a change written for a former owner (`stale`). A socket whose join met a change of access stays in a
room (`socket.handler.js:94`), and a recheck that met its move to another page clears what it says of the new one (`revoke.js:42`): `RoomsAreReadable` excepts the people it happens to.

A client whose answer was lost, and who tries again when the grace window is over, is taken for a thief and signed out (`session.service.js:38-43`); `RetryIsAnswered` speaks of
the window only. A refresh that lost the swap answers with the version as it is then, one that a reset may just have made: its token is accepted until the reset has
revoked the sessions (`session.service.js:63`). `EndedSessionsAreRefused` excepts that interval.

In content: two moves that overlap make a circle of pages (`page.service.js:113`), a copy or template of it makes another, and two updates in a row a circle of blocks, as only the block itself is refused
(`block.service.js:25-32`); `CyclesNeedOverlap` speaks of pages. Un-archiving restores the page alone, not what was archived with it. Uploads on no task are not handed over with the
rest, and uploads at once may pass the quota. A Stripe subscription that is paid while its id is not stored goes on being charged after the account is deleted, and so does one paid after its
deletion found it unpaid, and one taken out by somebody whose row still says that an earlier one was canceled: `NobodyIsBilledAfterLeaving` names the three, and the last is a finding. What is made, or who joins, between the checks
of a deletion and its delete goes with the account (`user.service.js:190`); `OthersKeepTheirs` excepts it. An approval is for the words the server reads when it is submitted: what its giver saw on the page some time before is not modelled.

In the numbers: `zonedMidnightToUtc` is an hour off on the day the clocks change in zones far from UTC (Sydney; `timezone.util.js:7-12` says never), so that
`DigestMatchesMomentum` speaks of the other days. It also excepts days whose midnight the clocks skip or repeat. Where the clocks change about the midnight that starts a month or quarter (as in Baghdad
until 2007, on April 1), the quarter starts a day early on the chart, and tasks of its last day have no bar: the theorem `ChartsAddUp` asks that they do not, and no zone of the run does. A chart of the period before has the weeks of this one and loses what lies beyond. "As of then" counts tasks created since, and a task imported
as done with no date and given a due date later reads as open then. A due date without a time is the midnight of UTC, so that it is overdue during its own day. "Nothing at risk this week"
is said of the next 48 hours. The weekly email tells of seven days, also when the one before is longer ago. A monthly recurrence from January 31 goes on in March, as
`setMonth` overflows. A share of 99.5% shows as 100 with work open.

Resending an expired invite holds a seat that may already be promised (`workspace.service.js:388`); accepting counts again, so the seats
are kept. Two submissions of one reset link that overlap both set a password: the version is read at `auth.service.js:357` and not
compared at the write (`365`). A session cut for an old token keeps its open sockets, and so does one whose handshake met its end:
`SocketsAreSignedIn` names both. A logout that meets a refresh of the same session is recorded as the reuse of a token, with nothing reused.

## 7. Findings

* **content_leftWork**: `user.service.js:208-210` says that work done in someone else's workspace belongs to that workspace. Who leaves it first, or is removed,
  and then deletes the account, takes the work along: `deleteAccount` looks for it in the memberships of now, and neither way out hands it over.

* **content_billedOn**: `razorpay.service.js:245-247` says that the cancellation of a deletion throws unless the gateway confirms the end. Who has had a subscription that was canceled, and takes out
  another one, still has the status of the first until the webhook of the payment is applied; `cancelNow` (253; `paypal.service.js:297`, `cashfree.service.js:281`) then returns without asking, and the account is deleted while billing goes on.

Both are quoted against the comments they contradict in `PROJECT.json`.

## 8. Not modelled

The components marked `not_modelled` in `PROJECT.json` with their reasons; in short: analytics and the HTTP layer keep no state that several
actors change, notifications, activity and audit are written once and only read. Of the components marked `partly`, section 3 names what each module leaves out.
