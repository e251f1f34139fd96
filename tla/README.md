# Formal models of the property management system

This directory holds TLA+ specifications of the core of the property management
system in this repository (`src/apps/backend`, `src/apps/worker`), of the parts
of its web application that keep state of their own (`src/apps/frontend`) and of
two workspaces of the ML studio beside it (`src/apps/ml`), the TLC
configurations that check them on small instances, and TLAPS proofs of the
properties that matter most. The specifications are translated from the code;
`PROJECT.json` says, definition by definition, which lines each one stands for.

Contents

1. The system: components, state, operations, interactions
2. The modules
3. The runs: what each one asks and shows, and its bounds
4. Fairness
5. What is proved, and how
6. What the models showed about the code
7. What is only model-checked, and what is not modelled
8. Plan

## 1. The system

A FastAPI backend (one or more processes, asyncio) and a worker (one or more
processes, asyncio, a scheduler in each) share MongoDB, Redis and RabbitMQ.
Requests and message handlers are coroutines: between two `await`s nothing else
runs in the process, at every `await` anything may. No code uses a MongoDB
transaction. All coordination is by single-document operations:

* compare-and-set (`find_one_and_update` on a status) for `units.status`,
* atomic increment (`$inc`) for reference counters,
* unique indexes (`idempotency_key` of an invoice),
* `$set` of named fields computed from a document read earlier,
* Beanie's `save()`, which writes a whole document back as it was read,
* a Redis key `SET NX EX` as a lock or as a mark "already seen".

The web application and the studio are React pages. A JavaScript handler runs
to its next `await` without interference, but timers, answers, socket events and
the other tabs of the browser, which share localStorage, come in any order. The
studio's server is a FastAPI process of its own with background tasks, and its
documents are read, changed and saved whole.

| Component | State | Operations | Hard behaviours |
|---|---|---|---|
| Leases and units (`lease_service`, `payment_service`, `unit_service`) | `leases.status`, `signed_at`; `units.status`; Redis lock per unit | create, activate, sign, pay, terminate, edit, reserve, release, update | stale whole-document saves, two leases of one unit, lock TTL and lock without owner, crash between the two writes of an activation |
| Worker queues (`core/rabbitmq.py`, the consumers) | where a message is; deliveries held by a consumer | publish, deliver, acknowledge, reject, retry | redelivery, no limit on attempts, transient messages, crashes of worker and broker |
| Monthly billing run (`tasks/billing.py`, `core/scheduler.py`, `api/v1/invoices.py`) | `invoices`, `billing_cycle_runs`, `job_runs`, counters | trigger, schedule, dry run, run, retry | two runs at once, a run that dies half way, per-lease failures that are swallowed |
| Invoices, payments, ledger (`invoice_service`, `billing_service`, ledger repository) | amounts and status of invoices, payments, ledger entries with running balances | bill, pay, direct payment, meter reading, void, send, proforma, manual status | lost updates of amounts, ledger entries computed from a stale last balance, a reading after a payment |
| Payment gateway, refunds, deductions | payments, deductions, ledger | STK push and callback, B2C refund, deduction and its reversal | duplicated, early or lost callbacks |
| Device events in the worker (`tasks/iot_*.py`) | unit meter cache, readings, access logs, tickets, Redis marks | reading, lock event, alert, lifecycle | a mark set before the work; readings out of order |
| Reminders (`core/scheduler.py`) | `reminder_count`, `last_reminder_sent_at` | daily check | two schedulers, mail sent before the count is written |
| Tickets, meter reading tasks | tickets with ordered tasks | assign, submit reading, close | a submitted reading reaches the invoice once |
| Move-out, inspections, unit generation | requests, reports, units | request, schedule, approve, generate | a move-out ends a lease; generation retried half way |
| Inventory, stores, shipments | stock per store, shipments | receive, move, ship, deliver | read-modify-write of a whole item |
| Web session (`api/client.ts`, `api/iot.ts`, `AuthContext`) | tokens and user in localStorage; per axios client `isRefreshing`, `failedQueue`, default header | sign in and out, request, 401, refresh, reload | several 401 at once, requests queued behind a refresh, answers after a sign-out, other tabs |
| Notification socket and call panel (`WebSocketContext`, `IncomingCallModal`, `api/v1/ws.py`) | socket, timers and refs; list, unread count, panel | connect, reconnect, receive, dismiss | events of an old socket, StrictMode remount, expired or missing token |
| Annotation workspace (`AnnotatePage.tsx`, `annotation_service.py`, `annotate_task.py`) | page: images, canvas with history, `pendingAnns`; server: project document | draw, undo, save, navigate, approve, delete, predict | answers that arrive for another image, whole-document saves, a task that works on a copy for minutes |
| Editor runs and compute wallet (`CodeEditorPage.tsx`, `api/v1/editor.py`, `wallet_service.py`) | page: `running`, log streams; server: job, queue of lines, wallet document | save, run, stream, reserve, release and charge, top up | whole-document saves of money, a bounded queue nobody reads, crash between hold and release |
| Others: assets, vendors, frameworks, server-side authentication, onboarding, notification consumers, documents, search, reports, AI and voice agents, IoT service, the rest of the ML platform, CCTV, pages and forms, infrastructure | | | see section 7 |

How they interact. The billing run reads leases that lease requests change
under it, and is carried by the worker queue; the invoices it makes are what
the account operations work on; the last running balance that payments leave in
the ledger is what the next billing run carries forward; payments drive the
lease (`_process_payment_transition`), and the lease takes the unit. Meter
reading tickets made by the run bring readings back to the invoices. The pages
reach all of it through the axios clients of the web session, and the
notification socket is opened with the token the session keeps; the studio's
pages talk to its own server, where an editor run takes its hold from the wallet
that payments top up.

What makes each part correct:

* Lease and unit: a unit is let to one lease at a time; an active lease's unit
  is occupied; a lease becomes active through the tenant's actions only with
  signature and money, and then it does become active; termination is final.
* Queue: a message accepted as persistent is never lost, handled by one handler
  at a time, and handled in the end if its handler can succeed.
* Billing run: one invoice per lease and month, unique reference numbers, a
  completed run has billed everything it saw, a request for a run does not
  vanish.
* Account: `balance_due = total_amount - amount_paid >= 0`, money is never shown
  as applied that was not posted, nor posted that was not received; a status
  moves forward; what is carried forward is owed.
* Web session: one refresh at a time, nobody waits for a refresh that is not
  under way, retries end, and a session the server honours is not given up.
* Notification socket: one connection at a time, connected again after a drop
  if the server admits the user, a notification shown once, a finished call stays
  closed.
* Annotation workspace: what is drawn on an image is stored on that image, is
  not lost, and what is deleted stays deleted.
* Editor runs: nobody loses more money than is charged, recorded or about to be
  recorded; a hold is returned; and the page stops showing a run that is over.

## 2. The modules

```
AtLeastOnce      abstract: what a queue promises
RetryQueue       the worker's queue; implements AtLeastOnce (Promise == INSTANCE ...)
RetryQueueProofs proofs about RetryQueue
BillingRun       the billing run; its queue is Queue == INSTANCE RetryQueue, and it
                 implements AtLeastOnce itself (Request == INSTANCE ...)
BillingRunProofs proofs about BillingRun
LeaseUnit        lease, unit and lock
LeaseUnitProofs  proofs about LeaseUnit
TenantAccount    invoices, payments and ledger of one lease
MCTenantHistory  the same with a history of what overlapped
TenantAccountProofs  proofs about both
Session          tokens, refresh and sign-out in the browser
SessionProofs    proofs about Session
NotificationSocket   the provider, the server's forwarding, the call panel
NotificationSocketProofs  proofs about NotificationSocket
AnnotationWorkspace  page, requests and project document of the studio
AnnotationWorkspaceProofs proofs about AnnotationWorkspace
EditorRun        page, task, log queue and wallet of an editor run
EditorRunProofs  proofs about EditorRun
MC*              instances for TLC
```

### LeaseUnit

One action per database or Redis call of a request handler, together with the
local code up to the next `await`. A request in progress is `req[p]`: the
operation, the next step `pc`, the lease it is about, and what the handler holds
in memory (its copy `doc` of the lease, the total it summed, its position in a
loop over statuses). `lease`, `unit`, `paid` and `lock` are the stored state.

* `activate_lease`: `ActivateRead`, `AcquireLock`, `TakeUnit` (compare-and-set
  from reserved, then vacant; else conflict), `SaveLease`, `Unlock`.
* `sign_lease`: `SignRead`, `SignSum`, `TakeUnit` (booked, reserved, vacant; the
  result is ignored), `SaveLease`.
* a completed payment and `_process_payment_transition`: `PayRecord`, `PayRead`,
  `PaySum`, `PayBook`, `PayDecide`, then as above. `PayRecord` with amount 0 is a
  callback that is delivered again; `PayFails` is one that reports a failure and
  marks a payment failed whatever its status, a completed one too.
* `terminate_lease`: `TerminateRead`, `SaveLease`, `TerminateReadUnit`, `SaveUnit`.
* handlers that change another field of a lease: `EditRead`, `SaveLease`.
* `reserve_unit`, `release_reservation`, `update_unit`, and `create_lease`, which
  inserts the lease and later saves the whole document once more (`CreateInsert`,
  then `SaveLease` with the copy `Draft`).
* `Crash`: a handler disappears between two steps; `LockExpires`: the 30 s TTL,
  which may also strike under a living holder.

Amounts are small numbers: only the comparison with the required sum matters.
Statuses no handler of the model leads to (`expired`) are left out, and so are
mails and events. `Ops` selects which endpoints are in use, because some
properties hold of a way to run the system and not of all (see the runs).
`direct` is a history variable for the properties only.

### AtLeastOnce and RetryQueue

`AtLeastOnce` has two sets, pending and done: a message is accepted, later
done, never forgotten, and done in the end if healthy. `RetryQueue` is one
queue with its retry queue: `loc[m]` says where the broker has a message,
`held[c]` which deliveries a consumer has not settled. Rejected messages go to
the retry queue and back after the TTL whatever the number of attempts, as
declared in `core/rabbitmq.py`; the dead letter queue exists and nothing leads
to it. `ConsumerDies` and `BrokerRestarts` are the faults, `MaxFaults` their
bound. Messages of the scheduler are transient (published without a delivery
mode), those of the backend persistent.

### BillingRun

Instantiates `RetryQueue` for `billing.runs` and adds what the handler does with
a delivery. `h[m]` is the coroutine of message `m`: its position and the local
variables of `handle()` and `_run_billing()` - leases still to visit, the
reference number drawn, the outcome sets behind the three counters, the metered
items collected for tickets. A handler that dies is gone with its local
variables and its message is redelivered; one that raises marks the job failed
and rejects the message. A failing database call inside the loop is counted and
swallowed, as the code's `try` does. The leases of the snapshot are visited in
any order (a superset of the cursor's order). What a user is promised is a
second instance of the same abstract queue, `Request == INSTANCE AtLeastOnce`: a
message of the API waits until a run of it is on record as completed, partial or
failed (`Waiting`, `Answered`), not until its message is acknowledged.
`LeaseMoves` stands for the lease component: leases are activated and ended
under the run. Several workers each run the scheduler.

### TenantAccount

The invoices of one lease by month, payments, ledger entries, and the handlers
in progress. `bill` is the worker's step per lease; `pay`, `deposit`, `reading`,
`void`, `send`, `proforma`, `update` are the backend's. A document read at the
start of a handler is `req[p].doc`, and each write changes the fields the code
writes (`$set`) or the whole document (`save`, in `send_proforma`). An invoice
has its three amounts, its status, whether a metered item is pending, what was
carried forward, and whether the stored document has an `invoice_category` (the
worker's insert does not write the field, and `list_outstanding_for_lease`
filters on it, so such an invoice is paid only when the client names it). The
copies a payment has listed, `todo`, are a set, visited from the invoice the
client named and then from the oldest month; sums over the ledger and the
payments are recursive functions, so that they can be reasoned about. There are
finitely many handlers and at least one month.

`MCTenantHistory` adds the history variable `overlapped`: two requests were in
progress together, a handler died between two writes, or a status was set by
hand. `Racing` names the operations that may overlap; the others come one at a
time. So one run asks both kinds of question: what survives overlapping
requests, and what holds while they come one after the other.

### Session

`token`, `refresh` and `user` are the three localStorage keys, shared by all
tabs; `shown` is what `AuthContext` holds in each. A client has `isRefreshing`,
`failedQueue` and the default header that survives a removed token. A request
goes `Send`, `Answer` (or `OtherError`), and after a 401 one of the branches of
the response interceptor: `Rejected` (already marked `_retry`), `NoSession` (no
refresh token), `Enqueue` (behind a refresh) or `StartRefresh`; the refresh is
granted or refused (`Grant`), or lost (`RefreshLost`), and handled by
`Refreshed` (store the token, resend everybody) or `RefreshFailed` (clear the
store, reject everybody, go to the login page). `Reload` is that navigation and
forgets the tab's client state. `Login`, `Logout`, `Expire` and `Withdraw` are
the environment; a token is a sign-in and the epoch it was granted in. `Wrong`
are requests the server refuses whatever they carry. The twin of the interceptor
in `api/iot.ts` is a second client. `Refused`, the answer to a refresh that is
turned down, is assumed to be different from every token.

### NotificationSocket

The provider's refs are `wsRef`, `timerRef`, `retry`; `timers` are those armed,
which can be more than the one remembered. `Connect` is used by `Mount` and
`Retry`; `OnOpen`, `OnClose`, `OnMessage` are the handlers of a socket that need
not be the current one any more. `Unmount` is the cleanup of the effect; in a
`strict` build `Mount` runs effect, cleanup and effect again, as StrictMode
does. On the other side `Refuse` closes a socket that the server does not accept
(`Accepts`): its token is not good, or the user belongs to no organisation
(`org` is false). `Subscribe` and `Publish` are the Redis channel, `Drop` loses a
connection. An expired token is renewed (`Renew`) by other requests of the page,
if there are any; the provider itself only reads the store again. `panel` is `IncomingCallModal`: the call it rings for and the call
whose data it shows. `Sockets` are identities that are used again once their
socket is gone; that there are at least four (the assumption `SocketAssumption`)
makes sure that a `new WebSocket` always finds one.

### AnnotationWorkspace

The page: `images`, `currentIdx`, `pendingAnns`, `saving`, and the mounted
canvas with its undo history, replaced when another image becomes current
(`Render`). The server: `doc`, the project document. A request or task in
`calls` goes sent, `Read` (it takes a copy of the document), `Write` (its change
to that copy, saved whole), answered, and is then handled by `SaveDone`,
`ApproveDone`, `DeleteDone`, `PredictDone` or a failure handler; `Lose` drops
it. `Strip` saves what is pending before it moves, `Go` (the arrows and the
similar-images panel) does not. While a prediction is awaited, ticks of the poll
ask for the list of images: `PollAsk` sends, `Read` copies the document, and
`PollApply` puts that list under the canvas later, whatever the page has done
since; up to `MaxTicks` of them overlap. `seen` is a history of four named races
- carried, crossed, late, overwritten - which the properties except, so that what
is left is claimed exactly. *Carried*: another image became current under pending
edits. *Overwritten*: a whole document was saved over a newer one. *Crossed*: an
answer dropped newer edits, a save failed after its edits had left the page, or
an image was saved while a save or an approval of it was on its way, or approved
or opened while a save of it was. The last part came out of the proof, see
section 6. *Late*: the answer to a tick was applied although it says of some image
what the project no longer says, and no save of that image is on its way.
`Guessed` are the images that start with predictions.

### EditorRun

`handleRun` saves, asks for a run and opens an `EventSource`: `running`,
`calls`, `streams`. `run_trainer` reads the wallet and checks the funds
(`RunTrainer`), saves it with the hold (`Reserve`), records the hold, writes file,
queue and task and answers (`Start`), or fails at the path or the file after the
hold was made (`Refuse`). The task emits lines into a queue of `MaxQueue` and
waits when it is full (`Emit`), reads the wallet (`End`), saves it with the hold
returned and the cost taken (`Release`), records the debit (`RecordCharge`), and
puts the end marker (`Done`). Between the two writes the cost is `owed`: taken and
not recorded. Any of these writes may fail (`WriteFails`): a run whose
reservation fails goes on for free, with its hold if that was saved; a release
that fails is only reported. The stream generator attaches and takes lines
(`Attach`, `Take`). A top-up, reported by webhook or by the page's verification,
looks for the credit transaction of its payment (`CheckPayment`), saves the wallet
(`Credit`) and writes that transaction (`RecordCredit`), or fails in between
(`CreditFails`). `copies` is what each writer of the wallet has read. The
document's field `topups` is a ghost: it says how many top-ups the document
contains, so that one that was overwritten is told apart from one that was
spent. The jobs are finitely many.

## 3. The runs

All runs are bounded by their sets of model values and by the named bounds.
Deadlock is not checked where the bound lets the system stop (every client has
done all it may): no module describes a system that must always be able to
move, since clients need not send requests.

| Run | Question and answer |
|---|---|
| `lease_serial` | One request at a time, two leases of one unit, every operation, `Required = 2`, `MaxPaid = 3` (so there are part payments, exact payments and overpayments). A lease signed and paid in full, in any order and any number of parts, failed callbacks in between, is active (or over) when no request is in progress; a terminated lease stays so. |
| `lease_owner` | Two handlers, two leases of one unit, owners who activate by hand, reserve, release, take payments and edit; crashes and expiring locks. No two active leases of a unit, an active lease's unit is occupied. Two handlers are enough for a lock holder and the one that overtakes it after the TTL, and the two leases are the competitors. |
| `lease_races` | All operations on one lease, two handlers interleaved at each call, crashes. A lease is active only with signature and full payment unless activated by hand - stale saves included, but without callbacks that mark a completed payment failed (`KeptOps`): a lease stays active when its money is taken back. |
| `queue_faults` | Two consumers, prefetch 1, four messages of which one is poison and one transient, two faults. No message in two hands; the promise of `AtLeastOnce`, with liveness, for the persistent ones. |
| `billing_race` | Two messages (API and scheduler) in one worker with a prefetch of two, three leases of which one has lost its property. One invoice per lease, distinct references, completed means all billed. |
| `billing_crash` | One crash, one failing call, one dry run: what was asked for is billed, or the lease ends, or a run record says partial or failed; and a request of the API waits until a run of it is on record as ended, and does not come back (`RequestsKept`). |
| `account` | Two months, two interchangeable handlers (symmetry), every operation, crashes; bills, payments, proformas and manual statuses overlap, the rest comes one at a time. Applied <= posted <= received for what is paid on invoices, and the amounts agree, although updates are lost; while nothing overlaps and no status is set by hand, an invoice's status only moves forward. |
| `session_queue` | Two tabs with a client each; two requests of one client, the initiator and one that waits, and one of the other; one of them is refused whatever its token; one expiry, one fault. One refresh at a time, nobody stranded, every request settles, and only a sign-out ends a session the server honours, unless a refresh is lost. |
| `socket_reconnect` | One page, production or StrictMode, one call, four socket objects, two faults (connections dropped, tokens expired or removed), another tab that removes and restores the token, users with and without an organisation. One connection or timer (two under StrictMode), a notification shown once, a finished call stays closed; the page of a user whom the server admits, and whose token does not stay expired, is connected again unless a retry met an empty store. |
| `annotation_edits` | Two images, two interchangeable shapes (symmetry; there is no liveness), two requests at a time of which one may be a tick of the poll, two operations, undo history of three. Apart from the four named races a shape stays on its image, nothing drawn is lost, nothing deleted returns. States are explored until a second kind of race has happened (the constraint `OneRace`): what little is claimed after two is covered by the theorems, which have no such bound. |
| `editor_run` | Two runs that may overlap, a top-up by webhook, funds for one hold at a time, a cost below and one above the hold; a queue of one line for runs of up to two; one fault: a crash between any two writes, a write that fails, a lost call or a dropped stream. Nobody loses more than is charged, recorded or about to be; the amounts add up unless saves overlapped; holds come back unless a call about them fails, the file is refused after the hold, the server dies or nobody reads a full queue; the page stops showing the run. |
| `two_active` (violation) | Two tenants sign and pay for two drafts of one unit. |

Bounds that are constants of the modules: `MaxPaid`, `MaxFaults`, `MaxErrors`,
`MaxDryRuns`, `LastMonth`, `MaxPayments`, `MaxEpoch` (token expiries),
`MaxNotifications` and `MaxRetry` (the code's `MAX_NOTIFICATIONS` and the length
of its list of delays, made small), `MaxCalls`, `MaxOps`, `MaxHistory` (requests
in flight, operations begun, undo steps of the studio), `MaxTicks` (ticks of the
poll in flight), `MaxLines` and
`MaxQueue` (lines of a run; the code's queue of 10 000, made small). Beyond them
nothing is capped; sequences (`runs`, `ledger`, `chan`) are bounded by them.

Other configurations, kept to be run by hand; each ends in a counterexample
that section 6 tells: `MCLeaseUnit_lost_signature`, `MCLeaseUnit_stale_edit`,
`MCLeaseUnit_terminate_draft`, `MCRetryQueue_poison`, `MCRetryQueue_transient`,
`MCBillingRun_dry_run`, `MCBillingRun_no_ticket`, `MCTenantAccount_carried`,
`MCTenantAccount_reading`, `MCTenantAccount_uncollected`,
`MCSession_late_refresh`, `MCNotificationSocket_other_tab`,
`MCNotificationSocket_two_calls`, `MCAnnotationWorkspace_arrows`,
`MCAnnotationWorkspace_approval`, `MCAnnotationWorkspace_late`,
`MCEditorRun_unread` (`HoldReturned` without its exception of an unread queue),
`MCEditorRun_unrecorded`, `MCEditorRun_topup`.

## 4. Fairness

* `LeaseUnit` has no liveness property and no fairness.
* `RetryQueue!FairSpec`: strong fairness of delivery per message (the queue is
  FIFO, so a message is reached although the prefetch window is full now and
  again), weak fairness of the TTL and of the end of a handler, and strong
  fairness of success for a message that is not poison. The last one says what
  "not poison" means: a handler that is tried for ever succeeds once.
* `BillingRun!FairSpec`: the same for delivery and TTL, and weak fairness of a
  handler's next step. Failing calls and crashes are bounded, and so are the
  ways in which a handler may raise.
* `Session!FairSpec`: weak fairness, per request, of the server's answer
  (`Answer`, `Grant`) and of the handler of that answer, and per tab of the
  navigation it was told to make. Requests, sign-ins, sign-outs and lost
  refreshes have none; `Answer` may be a 401 as often as the token deserves.
* `NotificationSocket!FairSpec`: weak fairness, per socket, of the browser's
  events and timers, of the server's refusal and of its subscription. `Renew` and
  `SignIn` have none: nothing in the page makes a request on its own, so the
  provider of an idle page offers an expired token again and again and is refused
  for ever, and so is a user without an organisation. `Reconnects` claims nothing
  of these: `Admitted` says that the user has an organisation and that the token
  does not stay expired.
* `EditorRun!FairSpec`: weak fairness of each request (it reaches the server and
  its answer the page), of each job's task (a trainer ends, the event loop is
  fair) and of its log stream. A lost request, a crash and a dropped stream have
  none, and neither have failing writes and top-ups. `_execute_trainer` has no
  timeout: that a trainer ends is assumed of what the user runs.

## 5. What is proved

Each component has a module of proofs, for any number of handlers, leases,
units, messages, consumers, tabs, clients, requests, sockets, images, shapes,
jobs, amounts and faults. Every invariant and every action property that a run
checks is the property of a theorem. The proofs assume what the modules name as
assumptions on their constants, which TLC evaluates in the runs. Seven theorems
assume more, as the runs of these properties do. Without it the properties are
false, with one exception: for `LedgerAlwaysLeads` the proof needs it (a negative
`balance_due` makes a payment's share of an invoice negative, section 6), and no
violation was met in the small instances tried without it.

| Theorems | Assumption |
|---|---|
| `OneLeasePerUnit`, `ActiveLeaseHoldsUnit` | `OwnerOnly`: no signing, termination or update by hand (`lease_owner`) |
| `SignedAndPaid` | `Kept`: no callback marks a payment failed (`lease_races`) |
| `TerminationLasts`, `PaidAndSignedActivates` | `OneHandler`: requests come one at a time; the second also that none dies in between (`lease_serial`) |
| `AmountsAlwaysAgree`, `LedgerAlwaysLeads` | a meter reading does not run beside another request (`account`) |

**LeaseUnit.** `TypeCorrect` and `SignedAndPaid` come from one inductive
invariant `Inv`: types, and for each stored lease and each copy in a handler's
memory `Safe`: *if it says active, then the lease was activated by hand, or it is
signed and fully paid*. `ActiveIsSignedAndPaid` is not inductive by itself: a
handler that holds a stale copy writes it back, so every copy must be safe, and
so must a handler that is about to activate (at `take`, it has seen signature and
money). The totals a handler saw stay true because completed payments are not
taken back, which `SignedAndPaid` assumes (`Kept`): a failed callback marks a payment
failed and leaves the lease active (section 6). That is the only fact about other
handlers that is needed.

`OneLeasePerUnit` and `ActiveLeaseHoldsUnit` are stated under the assumption
`OwnerOnly` (the tenant's signing endpoints are not in use, so only
`activate_lease` activates, and nobody terminates a lease or updates a unit by
hand), because without it they are false (section 6). Their invariant `OwnerInv`
speaks of claims: a lease claims its unit when it is active or when a handler
has taken the unit for it and not yet saved; there is at most one claim on a
unit, and a unit with a claim is occupied. The compare-and-set creates a claim
only on a unit that was not occupied. The lock appears nowhere in the invariant:
exclusion does not depend on it, which is as well, since it can expire and be
deleted by a stranger.

`TerminationLasts` rests on `Standing`, what the one request in progress may rely
on about the status of its lease: it has read it and nobody else writes, so at
its save a terminated lease is terminated in its copy too. `PaidAndSignedActivates`
rests on `Settling`: between requests every lease is *settled* (signed and paid in
full implies activated, or over); during one every other lease is, and its own
too unless it is being paid for. Then the copy of the payment is the lease and
its total is what was paid, so neither can the payment that completes the amount
miss a signature that is there nor a signature miss the payment. With two
requests that overlap both are false (section 6), and a request that dies between
taking the unit and saving the lease breaks the second.

**RetryQueue.** `QueueTypeCorrect` by induction over the actions;
`OneDeliveryAtATime` from the inductive invariant that broker and consumers
agree; `QueueImplementsPromise`: every step of `RetryQueue` is a
step of `AtLeastOnce`'s safety specification or a stutter under the refinement
mapping. The constants' assumptions used are those named in the modules.

**BillingRun.** `BillingTypeCorrect`, `OneInvoiceEach`, `ReferencesDistinct` and
`CompletedMeansBilled` follow from one inductive invariant `Inv`. None of the
last three is inductive alone; what they need about the coroutines under way is

* `Drawn`: a reference number that was drawn and not yet inserted is at most the
  counter, on no invoice, and in one coroutine's hand. The atomic increment
  establishes it, the insert uses it;
* `Working`: a coroutine that numbers or inserts has exactly one lease in hand,
  and every lease it counts as made or skipped has its invoice. It stays true
  because invoices are never removed, whatever other runs do;
* `OwnRun`: between the insert of its run record and its closing update, the
  record a coroutine writes to is its own and says running, and the leases of
  its snapshot are each to visit, in hand, made, skipped or failed. So when
  nothing failed and nothing is left to visit, all are billed. A crash leaves
  such a record running for ever, but never completed.

The proof has one lemma per group of actions: steps that leave invoices and
runs alone (`StillStep`), steps on the coroutine's own run record (`RunStep`),
steps that draw or insert (`InvoiceStep`). That there may be any number of
workers, overlapping deliveries, retries and redeliveries costs nothing: the
queue enters only through its type.

`RequestsAreKept` is the other half of the story, where the queue does enter.
The run implements `AtLeastOnce` for its requests under a mapping that forgets
the queue: a request is done when a run of it is on record as ended. The
invariant is `KeptInv`: `Inv`, with `Hands` (broker and consumers agree who
holds what) and `Ended` (a coroutine past the closing of its run, and an
acknowledged message, have left a record that ended). `StepsUseQueue` says how a
step of the run uses the queue - not at all, or by an action of `RetryQueue`,
and an acknowledgement only at the end of a coroutine - and the proof of the
refinement has one case for each of these ways. Records are closed once and
never opened again (`RecordsStay`, `StaysOpen`), so what is answered does not
wait again when its message is redelivered.

**TenantAccount.** `TypesHold` from `Typed`, which adds that a request about an
invoice has read one and lists copies of invoices that exist. The theorems about
money are about sums over sequences that only grow, and each sum is bounded by
naming, with functions that the invariant quantifies over, which entry accounts
for which:

* `PostedWasReceived` (no assumption): each payment of an invoice is booked by
  one request, the one that received it, and at most in full (`BookedBy`). A
  crash loses the booking and never repeats it.
* `AmountsAlwaysAgree`: `Balanced` says that not only the invoices but all copies
  in the hands of requests have amounts that agree, and the total of their
  invoice. So a stale write may undo another payment but writes amounts that
  agree again. It takes that readings come alone (`Alone`), as
  `apply_meter_reading_to_invoice` changes a total and writes a `balance_due`
  computed from the `amount_paid` it read; `MCTenantAccount_reading` shows what
  happens otherwise.
* `LedgerAlwaysLeads`: `AccountedBy` has for each invoice a high-water mark of
  what it or any copy of it ever showed as paid. A payment raises it by what it
  takes from its own ledger entry; a lost update lowers the invoice and not the
  mark. The marks together are what was taken from the entries, so the invoices
  together show no more than the ledger.
* `InvoicesMoveForward` is an action property about `MCTenantHistory`: `Serial` says
  that while nothing has overlapped at most one request is in progress and what
  it holds of an invoice is what is stored (`Fresh`).

Lemmas about sums (`TotalMonotone` and others) are proved by a first-order
induction over the set of lengths for which they hold (`NatSetInduction`, from
the well-foundedness of the natural numbers).

**Session.** `TypeCorrect`, with `Asked`: whoever refreshes asked with a refresh
token, so what the server grants is a token of that sign-in. `OneRefreshAtATime`
and `NoRequestStranded` are inductive only together (`Single`): that at most one
request of a client refreshes, and that `isRefreshing` says whether one does, is
what makes emptying `failedQueue` settle everybody; that the queue holds exactly
the requests that wait is what makes the end of a refresh leave nobody behind. A
reload forgets flag, queue and requests of the tab in one step, so neither
breaks. `HonouredSessionsLast` rests on `Unharmed`: as long as nothing failed,
the server has given up no session and refused no refresh, so the interceptor
clears the store only when it holds no refresh token.

**NotificationSocket.** `TypesHold` and `NeverMultiplies` come from `Sound`,
which adds that without a user there is neither socket nor timer. That the
sockets that are alive and the armed timers are together at most one (two under
StrictMode) bounds the sockets in use, at most two connection attempts and the
one `wsRef` still points to, so that a new one always finds an identity.
`NothingShownTwice` and `EndedCallsStayClosed` need `Channels`: only an open
socket is subscribed (`Forwarded`), what is on its way was published after the
announcement of its call (`Announced`), and, on a production page, nothing is on
its way twice or listed already, and no ring follows the end of its call
(`Orderly`). This is where one connection at a time is used: two subscribed
sockets would show everything twice, as they do under StrictMode.

**AnnotationWorkspace.** Three invariants on top of the types.
`DeletedImagesStayDeleted` is an action property and needs `Kept` only: a copy
that nobody has overtaken is the document, and no handler adds an image to its
copy. `ShapesStayOnTheirImage`: `Own` extends the property to everything a shape
can be in - the rows of the list, the canvas and its undo history, what is
pending, the requests and the server's copies. `NoDrawingIsLost`: `Lossless`
says, while no race has happened, `Safe`: the canvas shows what is wanted of its
image; wherever the list or the document shows less, the edits are pending or a
save of the image is under way (`RowsSafe`, `DocumentSafe`); each save, and each
answer to an approval, carries what is wanted unless that was edited since, and
what a save has written is in the document until it is handled (`CallsHeld`);
and no two saves of an image, nor a save and an approval of it, are under way
together (`Apart`). Nothing has to be known of the answers to the poll while they
travel: one that is not late when it is applied says of each image what the
document says, or a save of that image is under way, so the new rows are as safe
as the document was. Any number of them may overlap. For `ShapesStayOnTheirImage`,
`Own` covers the copies they bring.

**EditorRun.** `TypeCorrect`, with `Reads`: whoever is about to save the wallet
has read it, and whoever is about to reserve has read one that affords the hold,
so no amount becomes negative. `NobodyOvercharged` says that what the user has
left, with what is reserved, what is recorded as charged and what was taken and is
not recorded (`Unrecorded`, at most the capped cost of each run), is at least what
was paid in and is still in the document. It needs `Covered`: the same holds of
every copy a writer has in memory. Saving a stale copy then replaces one covered
document by another, whatever it overwrites, and what is taken is owed before it
is charged, so the sum never falls, wherever a crash or a failed write strikes. So
the overlap of saves can lose top-ups and charges, but never more of the user's
money than that. `WalletAddsUp` is the exact sum while no save overlapped, with
the invariant `Balanced`: what is reserved is exactly the hold of the jobs that
have not returned it (`Holding`), those lost in a restart included, so returning
one never goes below zero and nothing is cut off. `Stages` says which jobs hold
and which owe at each stage; a step changes the holders by one job, and what is
owed by that job's cost (`DebtsMove`).

## 6. What the models showed about the code

With a run that finds it:

* **Two active leases** (`two_active`): `sign_lease` and
  `_process_payment_transition` ignore the result of the compare-and-set. Two
  drafts of a unit, both signed and paid, both become active.

By hand, with the configurations of section 3:

* Signature and payment cross: each saves the whole document it read. The lease
  ends paid and signed but inactive, or the signature is overwritten.
* `terminate_lease` of a lease that never was active frees the unit under
  another, active lease.
* An edit that read the lease before its termination saves it back to life.
* A poison message circles for ever; `<queue>.dlq` is unreachable.
* The scheduler's billing message is lost in a broker restart.
* A dry run counts as the month's run and suppresses the automatic one.
* A worker dies between inserting a metered invoice and opening its ticket: the
  redelivery skips the invoice, and no ticket is opened.
* Paid is billed again: an invoice posts no debit, its payment posts a credit
  that lowers the running balance, and the next run takes a negative balance for
  a debt.
* A reading that arrives after the invoice was paid leaves a debt on an invoice
  with status `paid`, which no payment is applied to.
* A reading and a payment that cross leave `balance_due` off by the payment. For
  the same reason the `account` run lets readings come one at a time: on an
  invoice with a negative `balance_due` (a payment against the total that a
  crossed reading had lowered) `min(remaining, balance_due)` is negative.
* A refresh that is answered after the sign-out stores the token of nobody.
  `AuthContext.test.tsx` tests that a sign-out clears the store; nothing cancels
  what is in flight.
* A socket's retry that comes while another tab has removed the token returns
  and arms nothing: the page stays unconnected after the user signed in again.
* An update of one call is merged into the panel of another.
* An arrow leaves the image and keeps its pending edits: the next Save stores
  them on the neighbour.
* Approve All changes the list and not the mounted canvas: the next Save sends
  the predictions back unapproved.
* An approval that is answered after a later save of the same image puts the
  older annotations back on the page's list (`handleApproveAll` takes them from the
  answer): the next visit shows the old drawing, and editing it saves it. The
  proof of `NoDrawingIsLost` failed on this step. It takes three operations, one
  more than the run has, so the run had not met it; it is part of the race
  *crossed* since.
* The answer to a tick of the prediction poll, read before a save and applied after
  it, puts the older annotations on the page's list; the canvas is opened on them at
  the next visit, and editing it drops what was drawn (`LostByNoPoll`).
* A failed STK callback marks a completed payment failed, and the lease stays active
  without its money (`MCLeaseUnit_races` with the operations of `lease_serial`).
* A hold is never returned when the log stream is closed before the run has
  printed all: the task waits for room in the queue for ever.
* Nor is it returned when the reserve transaction cannot be inserted (the run goes on
  for free), when the path is not allowed or the file cannot be written after the
  hold was made, and when the release fails, which is only logged: the exceptions
  of `HoldReturned`.
* The wallet is saved before the debit transaction is inserted: a crash or a failed
  insert in between leaves money taken and no debit on record (`AlwaysRecorded`).
* A payment that is reported by the webhook and by the page's verification at
  once is credited twice: both look for the transaction before either writes it.

Read in the code and not modelled yet: see the hazards without properties in
`PROJECT.json`.

## 7. What is only model-checked, and what is not modelled

Only model-checked are the properties that something eventually happens under
the fairness of section 4, which is beyond the proof system: the eventual part of `KeepsPromise`, `BilledOrReported`, `EveryRequestSettles`,
`Reconnects`, `HoldReturned` and `RunEnds`. TLC shows them for the instances of
section 3 and no others. The proofs about `BillingRun` and `RetryQueue` cover
the safety half of the two refinements; that requests are done in the end is
checked by TLC for the queue (`KeepsPromise`) and, in the form that a lease is
billed or a run reports, for the billing run (`BilledOrReported`).

Simplifications worth knowing. A handler in a dead worker is gone at once; a
zombie that continues after its connection was lost (and its message was
redelivered) is not modelled; `BrokerRestarts` ends the handlers in living workers
too. A handler of the billing run raises a bounded number of times
(`HandlerFails`): an organisation that is missing for good makes it raise at every
delivery, and such a message circles for ever, as a poison message does.
`record_invoice_payment` creates one payment per
category of the line items; the model creates one. Amounts are small integers
and no rounding is modelled. Reads that return a list are atomic. The delays of
the socket's back-off are abstracted to the order of events. Geometry and labels
of annotations, the text of editor files and the lines a run prints are data no
property looks at.

Not modelled in a modelled part. Annotation: training (one more writer of the
whole document), prediction of one image, archiving, similar images, upload,
video capture and export. Editor runs: the open tabs and their texts, the test
button, installing packages, the free allowance (a run is free here only when its
billing fails), the split sandbox, the earmarked part of the balance, the revenue
ledger, and the other users of the wallet: training and AI requests reserve and
release as a run does, `charge_inference` and `purchase_local_hours` debit the
wallet directly.

Not modelled: the gateway, refunds and deductions, late fees, device events,
reminders, move-out, inspections, unit generation, the ticket workflow and
inventory, all of which are in the plan; server-side authentication, access to
data, documents, mails, search and reports, which change none of the state
above; the IoT service, the rest of the ML platform and the voice and AI agents,
which are products of their own (their planned parts are named in
`PROJECT.json`).

A word on proportion. Most lines of the repository are pages: forms that send
one request and refetch, tables and panels that render what a query returned,
and their layout. They keep no state that outlives a request, and nothing can be
said of them that a model would tell apart; so the share of all lines that the
definitions stand for is small and stays so. What the pages do keep - tokens,
the socket, pending edits, a run in progress - is modelled.

## 8. Plan

In order of importance, with what each adds:

1. Done: `LeaseUnit`, `RetryQueue` (with `AtLeastOnce`), `BillingRun`,
   `TenantAccount`, `Session`, `NotificationSocket`, `AnnotationWorkspace`,
   `EditorRun`; proofs of all their invariants and action properties, and of the
   two refinements of `AtLeastOnce`.
2. `Gateway`: STK push, callbacks that are repeated, early or lost, refunds and
   deductions; properties: a payment is posted once, refunds never exceed the
   deposit. It shares the ledger with `TenantAccount`.
3. `DeviceEvents` over `RetryQueue`: the mark that is set before the work; property:
   an event is applied exactly once or reported.
4. `Reminders`, and the late fee operation in `TenantAccount`.
5. `Stock`: stores and shipments; property: what leaves a store arrives in
   another or is in transit.
6. Ticket workflow and move-out, composed with `LeaseUnit`.
7. The life cycle of a training job, which takes its hold from the wallet of
   `EditorRun`; the tabs of the editor, whose texts are saved before a run.
8. Abstract specifications: a `Tenancy` (a unit is free or let to one lease) that
   `LeaseUnit` implements if nothing but create, activate, reserve and release is
   in use (an edit or a payment saves the whole lease as it was read, and so may
   write an old status over an active one), and a `Ledger` of received, posted and
   applied money that `TenantAccount` implements.
9. Proofs: the two refinements of step 8, and the safety invariants of the
   modules of steps 2 to 7.
