# Spielkind Core in TLA+

Spielkind Core is the backend of a children's party venue. It mirrors the
bookings of the ticketing provider Regiondo in PostgreSQL, lets operators plan
them on a kanban board, buys bookings at Regiondo on their behalf, and reminds
guests by e-mail and WhatsApp. It is one Node.js program that may run in several
processes: HTTP handlers and cron jobs interleave at every `await`, and the
database is all they share. This directory models the parts in which those
interleavings, crashes and half-done work decide whether the data stay right.

Paths below are relative to the repository root; the program is in `src/`.

## The system

| Component | State | Operations | What is hard |
|---|---|---|---|
| Webhook inbox (`modules/regiondo/regiondo-webhook*`) | `regiondo_webhook_events` | enqueue by dedupe key; claim, hydrate, import, rebuild, mark; operator retry | overlapping runs, redelivery, snapshots torn between two GETs, dead runs |
| Job runner (`jobs`, `db/locks.ts`, `scheduler`) | session advisory locks, `job_runs`, `sync_log` | try lock, run, unlock; cron and HTTP triggers | a lock whose session dies while its job goes on |
| Task booking attempts (`dashboard/repository/bookings.ts` 1894-2150) | `task_booking_attempts`, `tasks`, `task_bookings` | create, purchase, store, recover, complete, fail | a purchase that can be neither undone nor recognised; operators editing meanwhile |
| Reminders (`modules/reminders`, `modules/messenger`) | `reminder_deliveries`, messages at Messenger | create due, claim, send, mark, reconcile, retry | sending twice; two jobs under two locks |
| Booking import and sync (`modules/bookings`, `regiondo-booking-sync*`) | `bookings`, `payments`, `sync_state` | import a snapshot, sync a window, reconcile | importers under three different locks, snapshots without a version check |
| Booking edits (`dashboard/repository/bookings.ts` 2152-3723, change requests) | `local_override_fields`, `location_override`, `booking_change_requests` | edit, import, sync from Regiondo by hand, resolve a request | a value, its guard and its request live in three tables, and saves, imports and admins change them in any order |
| Linked bookings (`dashboard/repository/bookings.ts` 2152-2310, 3390-3723) | `bookings`, `task_bookings`, `tasks.raw_json` | save what the bookings of an event share, project it to their tasks | a version read before the locks, rows locked one by one |
| Consumption and availability (`modules/resources`) | `consumptions` | rebuild for a booking | capacity checked by concurrent rebuilds |
| Client accounts and groups (`client-api`) | `clients`, sessions, codes, reset tokens, groups, invites | register, verify, log in, rotate, reset; invite, join, leave | one token presented twice, a reset during a refresh |
| Admin login (`auth`, `http/admin.ts`) | `admin_sessions`, the limiter in memory | log in, rotate, revoke | logins that pass the limiter together, rows written by id alone |
| Roles and permissions (`access-control`, `dashboard/repository/roles.ts`) | `roles`, `role_permissions`, `users.role` | create, rename, delete, assign, save the matrix | read in one statement, written in another |
| External task intake | intake events, tasks | idempotent creation | repeated and changed messages |
| Board, booking options (`dashboard/repository/task*.ts`) | `task_kanban_columns`, `tasks`, options | CRUD, move, delete, restore | positions under a unique index, columns that go while tasks come |
| Locations | `locations` and what refers to them | CRUD, merge with one from Regiondo | imports and edits during a merge |
| Lists of bookings, errors, notifications | cursors | page by page | rows that move, times that tie |
| Regiondo client | throttle, retry state | signed requests, purchase polling | ambiguous answers |
| Catalog sync | products, variations, options | replace what Regiondo has | partial runs, variations that move |
| Dates (`regiondo-datetime.ts`) | - | wall clock to instant and back | changes of the clocks |
| Migrations (`db/migrate.ts`) | `schema_migrations` | apply, baseline | deployments at once, a lost lock |
| Products, clients and groups of the dashboard, comments, summary | tables of their own | CRUD | little control |
| HTTP layer, configuration, pool, scripts | - | - | - |
| Legacy `sync/` service | - | its job is scheduled by nothing; one route uses its retry | - |

The parts meet in the database. Webhooks, the booking sync, the reconcile job and
the booking saga all write `bookings` through `upsertNormalizedRegiondoBooking`;
operators edit the same rows; reminders read them. The jobs are triggered by
`node-cron` in every process, by `POST /internal/jobs/*`, by the webhook route, by
operators and by scripts. `PROJECT.json` lists every component with its status,
and under `hazards` what can go wrong at which line, with the property that
watches it, or why none does yet.

## The modules

- `ClaimQueue` - the abstract specification: items are added, claimed by one
  worker, settled by that worker, put back by an operator, or lost by a worker
  that dies. A settled item is never handed out again; some (`Revocable`) can turn
  out to have failed after they were done. The inbox and the reminder deliveries
  implement it.
- `RegiondoWebhookInbox` - the inbox job in the detail of the code.
  `RegiondoWebhookInboxProofs` holds its theorems, the last of which is that it
  implements `ClaimQueue`; `MCInbox` its model values.
- `TaskBookingAttempts`, `TaskBookingProofs` - the booking saga.
- `ReminderDeliveries`, `ReminderDeliveriesProofs`, `MCReminders` - reminders, which
  implement `ClaimQueue` too.
- `BookingOverrides`, `BookingOverridesProofs`, `MCOverrides` - one booking that is
  edited in the dashboard while it is imported from Regiondo.
- `ClientSessions`, `ClientGroups`, and `ClientApi`, which composes them: an
  operation on a group is a request that a session admitted.
- `AccessControl` (the permission table, its defaults and how a saved matrix overlays
  them, as operators) and `RoleAdministration` on top of it.
- `AdminLogin` - the limiter and the sessions of the dashboard.
- `PositionList` (rows with unique positions, as operators), used by `TaskBoard` and
  `BookingOptions`; `ExternalTaskIntake` extends the board with the tasks that
  arrive from outside.
- `LocationMapping`, `LinkedBookings`, `PagedLists`, `ResourceConsumption` - one
  kind of transaction each, in the presence of the others that touch its rows.
- `BookingSync`, `CatalogSync` - the two scheduled copies of Regiondo.
- `RegiondoRequests` - throttle, retries, purchases.
- `RegiondoDateTime`, `Migrations`.
- `MCSettling`, `MCUnattended`, `MCAccounts`, `MCBoard`, `MCRecords` put several small
  systems into one run. These share no state, so nothing is lost by choosing in the initial
  state (`part`, `situation`) which of them moves; every property is checked of all
  behaviours. Each has constants of its own for what its parts take, and the .cfg
  says which definition is their value, so that `UnattendedProofs`, `AccountsProofs`,
  `BoardProofs` and `RecordsProofs`, which extend them, prove for every value.

In all of them a step is what the program does between two `await`s that matter: one
SQL statement or transaction, or one exchange with a provider. A program counter per
job run or request (`pc`, or the `phase` of a record) says where it stands; what it
holds in local variables is a state variable of its own (`batch`, `current`,
`snapshot`, `todo`, `target`, `reply`). A statement that may fail has a disjunct in
which it does, and leads where the `catch` of the code leads. Operators whose
comment begins with "Mutant" are not part of the specification: each is the code
with one plausible bug, kept to show that the property it belongs to would notice.

### RegiondoWebhookInbox

| Code | Model |
|---|---|
| `regiondo_webhook_events.status`, `attempt_count`, `created_at` | `status`, `attempts`, `createdAt` (rank of the inserting transaction) |
| `available_at <= now()` | membership in `available`; `BackoffElapses` is the passing of time |
| `pg_try_advisory_lock` | `lock`; a run that does not get it is skipped, which changes nothing |
| the snapshot of a booking | two version numbers, one for each of the GETs of `hydrateBookingOrder` |
| the row in `bookings` | `stored`, the snapshot written last |
| `enqueueRegiondoWebhookEvents` | `EnqueueWebhook`: one event per booking key of the order, `ON CONFLICT DO NOTHING` |
| the booking sync, the reconcile job, the sagas, a cancellation and the manual sync, as importers of the same rows | `elsewhere`: `FetchElsewhere`, once for each GET, `ImportElsewhere`, `GiveUpElsewhere` |
| `runProcessRegiondoWebhookInboxJob` | `AcquireLock`, `ClaimEvents`, then per event `FetchSupplierBookings`, `FetchPurchase`, `ImportBooking`, `RebuildConsumptions`, and `MarkProcessed`, `MarkRetry` or `MarkDeadLetter`; `FinishJob`, `AbortJob` |
| `retryRegiondoWebhookEvent` | `AdminRetry` |

The upsert compares no versions, and the importers share no lock with the inbox: the
last to commit wins. So an inbox run or another importer that was overtaken between
its GETs and its commit writes an older snapshot over a newer one, with every lock in
its place, and a booking may stay behind an event that is already marked processed
until it is imported again. `overtaken` holds the runs to which this happened,
`late` the bookings whose last import was such a one; `ProcessedReflected` and
`NoStaleImport` say what holds for the others: with its lock, the inbox never does it
to itself, and an import that nobody overtook never loses a change. No text of the
repository promises more.

`LoseLock` is what makes `ExclusiveClaims` interesting: the handler works on other
connections of the pool, so when PostgreSQL ends the session that holds the
lock, the run goes on while another one starts. What then keeps the claims
apart is the single `UPDATE ... FOR UPDATE SKIP LOCKED`.

### TaskBookingAttempts

`CreateBooking` is the first transaction of `createBookingFromTask`, taken with the
task row locked: an attempt that exists is recovered, otherwise one is inserted,
and the worker moves on to `SubmitPurchase`, whose answer may be lost although the
order exists (`orders`, `submissions` are history of the provider's side).
`StorePurchase` keeps the booking keys; from there `BeginRecovery`,
`ImportSnapshot` / `ImportFails`, `CompleteAttempt` and `MarkFailure` are
`recoverTaskBookingAttempt`, run by a request or by the recovery job (`StartJob`,
`NextCandidate`). Recovery runs may overlap in the model, as they do when the
session of their lock is lost. `SaveTask` and `DeleteOrRestoreTask` are operators,
`ImportElsewhere` the webhook inbox or a sync that imports the new booking first.
`older` is the order of `updated_at`, which a trigger sets on every UPDATE.
An order with several booking keys is represented by its first. The second
purchase path in the file, `createRegiondoBookingsForTask`, is called by nothing.

### ReminderDeliveries

The dispatch job is `AcquireDispatchLock`, `CreateDueDeliveries`,
`ClaimDeliveries`, then per delivery `LoadPayload`, `SendEvent` or `SendWhatsApp`,
and `MarkAccepted` or `MarkFailed`. The reconcile job is `AcquireSyncLock`,
`ListDue`, `GetMessage` or `GetMessageFails`, `WriteStatus`. Messenger is modelled from
how its client is used: it keeps one message per idempotency key, sends what is
new or has failed and was asked to retry, and moves a message on by itself
(`MessageProgress`). Which bookings are due is left open: any set of deliveries
may become due at any time. The dedupe key is the identity of a delivery.

As a claim queue, a delivery that a provider has taken is done. What Messenger says
of a WhatsApp message later is not news to any dispatching run, but `WriteStatus`
may declare the delivery failed: these are the `Revocable` items. Whatever the
reconcile job writes besides leaves the state of the queue as it is.

### BookingOverrides

| Code | Model |
|---|---|
| the groups of a change set (`contact`, `schedule`, `attendees`, `location`, `products`, `payment`) | `Fields`; `Contact` and `Location` behave in their own way, the others alike |
| the booking at Regiondo, and its row with products, payments and client | `provider`, `row` |
| `local_override_fields`, `location_override = 'none'` | `overrides`, `noLocation` |
| `booking_change_requests` | `requests`: status, changes (from, to), the provider values of a conflict, and who closed it |
| PATCH of a booking | `BeginSave`, then `Save` or `AbortSave` |
| an import by the inbox, the booking sync or the reconciliation | `Fetch`, `BeginImport`, `CommitImport`; `FailImport` |
| `applyRegiondoBookingSync` | `BeginManualSync`, `CommitManualSync`; `FailImport` |
| `resolveBookingChangeRequestByAdmin` | `ResolveByAdmin`, with its three answers |

Saves, imports and manual syncs lock the row of the booking in the first statement
that touches it, so each is one step from there to its commit. That statement
also returns columns of `booking_admin_metadata`, which it does not lock: under
READ COMMITTED a statement that waited for the row lock sees the new booking and
the old metadata. `BeginSave` and `BeginImport` are the start of the statement and
keep what it saw (`sawNone`, `sawOverrides`); `Save` and `CommitImport` use it. The
model shows what follows: an import that waits for a save overwrites the value that was
just saved, while the guard and the request stay, so that the dashboard goes on
showing the request with Regiondo's value. It also shows that a contact changed
back in the dashboard leaves its request open, because an edit is compared with the
row of the client, which edits do not write.

`current` holds the manual syncs since whose start the booking has not changed; the
code compares the version of the linked group under the lock. A save may name the
`updated_at` of its page, and is then refused when the booking has moved on: that is
`AbortSave`, and a save that does not name it goes through. Two groups of fields may
match, a third conflict: `Reconciled` is the decision of
`resolveBookingChangeRequests` for one request. The code compares two values by
`JSON.stringify` (`comparableProviderValue`). A value that comes back from a `jsonb`
column has its keys in the order of PostgreSQL (by length, then by bytes), one that the
program builds has them in the order of its literal: the contact, the payment and the
products are never equal across that border, the schedule (which is rebuilt), the
attendees and the location are. `Composite` names the groups that are not, and `SameJson`
compares as the code does. So a composite group leaves a request neither when it is changed
back nor when Regiondo shows the wanted value, and every import declares it a conflict,
until an admin or a manual sync closes the request. `RequestsAreReal` and `ReconciledEventually` except these groups. The content of a closed request is
dropped in the model, since nothing reads it again, unless an admin closed it.

### Accounts: ClientSessions, ClientGroups, ClientApi, RoleAdministration, AdminLogin

A transaction that selects a token FOR UPDATE and then writes is two steps with the
row locked between (`SelectSession`, `RotateSession`; `SelectReset`, `ResetPassword`;
`SelectVerification`, `ConsumeVerification`; `SelectInvite`, then the join). A token
is a row and its generation; `accepted` counts how often one was honoured. `since`
and `password` are generations of the password: a session that is live was inserted
since the last reset, which is what `UPDATE ... WHERE client_id = ...` inside the
transaction of the reset gives, and what a reset of one session alone would not.

A role is its key, which its permissions hang on, and its name, which the row of a
user holds without a foreign key. `Effective` is what `resolvePermissionsForRoleName`
answers. A save deletes and inserts in one transaction; `NewRows` is how it completes
what the admin sent. `roles.ts` counts the users of a role in one statement
and deletes it in another, so that a role may be deleted from under a user
who was given it in between: the model has this, no property forbids it, and such a
user has no permissions.

`AdminLogin` compares passwords in a step of its own, so that logins which run at once
pass the limiter together. `rotateAdminSession` writes by the id of the row: of two
refreshes with one token both succeed and the later token counts. That is what
the code does and nothing promises otherwise; a session that was logged out stays
out because the statement leaves `revoked_at` alone and it is read with the row.
`auth/admin-users.ts` is imported by nothing.

### Board: PositionList, TaskBoard, BookingOptions, LocationMapping

A transaction takes effect at its commit, and what it locks and sees is kept in
`work`. Under READ COMMITTED a statement that waited sees the rows it listed before
and their new values (`Relisted`). Hence `gap`: a deletion of a column that waited
for a creation renumbers without the new column and leaves a gap, which the
next save of the order closes; and `raced`: a task that was written while the
columns changed may name a column that is gone, until it is written again. Both
are behaviours of the code that the model keeps, and `PositionsStayDense` and
`TasksKeepAColumn` say what holds outside them. The options of a group lock first
and list later, and have no gap.

`LocationMapping` follows the row locks of PostgreSQL: the merge takes FOR UPDATE on
target and source, and whoever refers to a location takes a shared lock through the
foreign key. `missed` records a booking that moved without its task. What else
refers to a location (resources, rules) is moved in the same step and is not
distinguished. `updateLocation` reads a location and writes its Regiondo identifier
back; after a merge in between it writes the old one, which `WriteLocation` has.

### Records: ExternalTaskIntake, LinkedBookings, PagedLists, ResourceConsumption, BookingSync, RegiondoRequests

*Intake.* One transaction behind `pg_advisory_xact_lock`, then the read of the task for
the answer, then for the support form a link; a crash between them is `AbortIntake`.

*Linked bookings.* The group and its version are read without locks, the bookings are
locked in the order of their ids, the tasks are read and written whole. `covers` is
what a save wrote, `writer` who wrote a record last. The log of a task is rewritten
from the copy that was read, so that of two saves one may lose its entry.

*Lists.* A cursor is the time and the id of the last row. Times are in microseconds,
`Millis` is what a JavaScript `Date` keeps. `walk.exact` says that no cursor lost
anything: with lost microseconds a page of `lastUpdated` or of the error events
repeats or leaves out rows, which the model shows when the condition is dropped.

*Reservations.* SERIALIZABLE is modelled as: a rebuild reads the rows as they were when
it began, and fails if a row it writes was changed since, or if another rebuild that
read the same resource and time committed. `Reserve` is the commit.

*Booking sync.* Days are counted; the cursor is the start of a run that failed for none.
`Lag` is how late Regiondo lists a booking: `CursorLeavesNothing` needs `Lag <=
Overlap`, which is what the overlap is for. One run at a time is assumed. A
`--full` run looks back a fixed 365 days, whatever the cursor says, and moves the cursor
on like any other: after a pause that is longer, the days between are never listed.
`covered` is the first day that the runs have covered without a gap (`CoveredBy`), and
the property is about what was bought since. It was first stated without it; the attempt
to prove it failed at this run, and TLC finds the behaviour with a lookback of one day.

*Regiondo client.* The throttle takes a slot before it sleeps, a timer fires late and
never early. A purchase may be taken although its answer is lost; polls follow
with their own deadline. Errors come in the kinds that the predicates of the client tell
apart (`RequestErrors`): a timeout is one of its own, because `AbortSignal.timeout`
rejects with a `TimeoutError`, which is neither retried, nor polled again, nor taken for
an ambiguous answer. `TakenOrdersAreHandedOver` excepts it, and what a poll throws as
it is.

### Unattended: CatalogSync, RegiondoDateTime, Migrations

The catalog run lists pages, reads details, reads options with many requests of which
any may fail, and stores what it read in one transaction, product by product (`BeginStore`,
`StoreProduct` on the `draft` that nobody else sees, `Commit`). Composite keys
are identities; placeholders and duplicates in a list are left out.
`fresh` holds the products that Regiondo answered for in full and that have not
changed since.

A wall clock and an instant are numbers, one from the other by the offset at the
instant. The year has two changes of the clock. A text with an offset of its own is an
instant. The model shows that a stored instant in the hour that comes twice comes back
as one of its two readings: the property promises the clock, and the instant only
outside that hour.

`Migrations` takes the SQL of a file as one effect (`times`), rolled back with its row.
`LoseLock` lets deployments overlap; the primary key of `schema_migrations` then keeps
a file from being applied twice. A database from before the table is marked with
every file of the release, also with those its sentinel tables say nothing of
(`MarkAll`, `marked`).

## What the runs check

| Run | Instance | Shows |
|---|---|---|
| `unattended` | inbox: 1 booking, 2 versions, 2 runners, 1 fault, 1 lock loss, 1 operator retry, or 1 importer under another lock; catalog: 2 products, 2 variations, 2 changes; dates: half hours around two changes of the clock; migrations: 2 deployments, 3 releases of up to 3 files | exclusive claims, bounded attempts, final "processed", processed events reflected and no stale import as long as no lock is lost and no import overtaken, refinement of `ClaimQueue`; the catalog is mirrored; dates keep their clock; the schema follows the releases |
| `inbox_crash` | 1 booking, 1 crash or abort | that every accepted event is settled is violated: see below |
| `settling` | purchases: 2 tasks, 2 requests, 1 recovery run of limit 1, 2 edits, 2 crashes; inbox: 2 bookings, 1 runner, 1 crash or abort, 1 operator retry; reminders: 1 WhatsApp delivery, 1 retry, no fault | one purchase, no untracked order, operator links survive, stored purchases settle; every accepted event is settled, or left "processing" by the run that died, and nothing waits behind it; outcomes reach the table |
| `reminders_races` | an e-mail and a WhatsApp delivery, 2 + 2 runs, 1 retry, 1 fault, 1 lock loss | sent once per request, dispatch undisturbed, refinement of `ClaimQueue` |
| `overrides_races` | the groups contact and location, 2 values, 1 save at a time (2 in all), 1 importer, 1 manual sync, 1 change at Regiondo, 1 resolution | one active request, everything asked is guarded, guards trace back to requests, requests and conflicts are real, requests close once Regiondo agrees |
| `overrides_orphan` | the same | a guard may outlive its request: see below |
| `overrides_unmatched` | the same, 1 save, 1 importer | a request for the contact stays open although Regiondo shows it: see below |
| `accounts` | 2 clients, 2 sessions, 2 codes, 1 reset, 1 group, 1 invite; 2 roles, 1 user; 2 sessions of the dashboard; always 2 requests | tokens work once, a reset leaves no older session, groups admit as invited; what a role may do is one save; failures are bounded, who logged out stays out |
| `board` | 3 columns, 1 task, 2 requests; 3 options, 2 requests; 3 locations, 2 bookings, 3 requests | positions stay dense, tasks keep a column, bookings that move take their tasks |
| `records` | 2 messages, 2 payloads, 2 tasks; 2 bookings, 2 tasks, 2 savers; 3 rows; 2 bookings on 1 resource; 2 bookings over 3 days; 2 callers, 7 instants | one task per message; no half-saved group; every row listed once; no overbooking; no cursor past a booking; requests are paced, orders handed over |
| `purchase_timeout` | 1 caller, 4 instants | a purchase whose POST times out is not handed over: see below |
| `intake_repost` | 1 message, 2 tasks | a repost is answered "not found": see below |

Bounds. `MaxRequests`, `MaxProviderEdits`, `MaxResolutions`, `MaxVersion`,
`MaxAdminRetries`, `MaxRetries`, `MaxEdits`, `MaxFaults`, `MaxCrashes`,
`MaxLockLosses`, `MaxRotations`, `MaxTokens`, `MaxChanges`, `MaxTime`, `MaxNow`, `Days`
and `MaxClock` cap what the environment does and how long time is counted; they are
constants of the modules, and the proofs hold for every value of them. Two runners or
requests are what it takes to race; three where two of them may wait for a third, or
where a merge meets an import and an edit. Two versions are what it takes to have a
stale one; `MaxAttempts = 2` to have a retry and a last attempt; a batch, limit
or page smaller than or equal to the number of items to have some left behind; three
columns to renumber around one that goes; two capacities' worth of need on one
resource with slots that overlap; a lag equal to the overlap. The two clocks are
long enough for a block and the window after it, and for two calls with a retry each.
Runs are symmetric only in interchangeable values, and never when liveness is checked;
`MCSpec` of `MCOverrides` fixes the first value of the contact, because the values
are interchangeable and no symmetry is declared; the purchases of `MCSettling` are
either of one task with everybody at it, or of two that compete for the recovery run,
and its inbox has one runner, since without a lost lock only one runs at a time. An
importer and faults, lost locks or operator retries of the inbox are not varied
together in `unattended`; the proofs cover both at once. The contact and the location are
the two groups that the code treats apart; a location that is not a placeholder
behaves like the other groups. Two saves are what it takes to make a request and to
merge with it or revert it, one importer and one manual sync to have two snapshots
of different age under way. Idle programs are not deadlocked: deadlock is checked in
every run but `accounts`, `records` and `purchase_timeout`, in which the bounded
clocks, tokens and days run out.

Fairness (only for the liveness properties). `node-cron` ticks for ever, so a free lock is
taken and an idle recovery job starts again (WF of the acquisition); a run that has
started goes on (WF of its steps); time passes (WF of `BackoffElapses`). Strong
fairness is assumed of two answers of the outside world: Regiondo publishes the
snapshot of an order to whoever asks often enough, and Messenger answers a poll that
is repeated. In `BookingOverrides` an importer keeps fetching the booking (WF, the
reconciliation job) and not every import that it starts fails (SF of `BeginImport`
and `CommitImport`, which a failure disables). Nothing is assumed of operators,
requests or webhooks. The other modules state no liveness: a request that fails is
answered, and nobody tries it again on its behalf.

### Divergences

`src/README.md` says that the scheduler "continues polling as a safety net". The
claim takes only "pending" and "retrying" events; `locked_at` is written and never
read, and the operator retry accepts only "retrying" and "dead_letter". An event
whose run dies after the claim therefore stays "processing" for ever.
`inbox_crash` shows the behaviour: accept, claim, crash, and nothing that the
fair scheduler does afterwards settles the event.

Migration 043 says that "Active Regiondo change requests are the source of truth for
dashboard-local edits" and rebuilds the guards from them. When an admin accepts
Regiondo's value or cancels a request, the code closes the request and leaves
`local_override_fields` and `location_override` alone; no later import writes the guarded
field, although nothing asks for the dashboard's value any more, until another
save recomputes the guards. `overrides_orphan` finds it after one save and one
resolution. `GuardsTraceToRequests` is the part that does hold: nothing but an
admin's answer leaves such a guard behind.

The tests of `booking-change-request.repository.ts` expect that a request is completed
"when Regiondo matches the local value", with a number as the example. For groups whose
value is an object the comparison by `JSON.stringify` fails on the order of the keys.
`overrides_unmatched` saves a contact, lets Regiondo take it, and imports for ever:
the request stays in conflict, and its field guarded.

`REGIONDO_PURCHASE_HYDRATION_PLAN.md` wants the recovery error when "the purchase POST
times out". The client aborts by `AbortSignal.timeout`, whose error is called
`TimeoutError`, and looks for `AbortError`; its test simulates the latter.
`purchase_timeout` lets Regiondo take an order whose POST times out: the call ends as a
plain failure. The booking saga records it for review all the same, since it does
so on every error; what is lost is the recovery error and the metadata it carries.

`src/README.md` says that "Reposting the same `externalMessageId` with the same payload
returns the existing task". The code finds the event of the message and answers with
`getTask`, which does not see a task that was deleted: after an operator deleted it,
the repost is answered "not found" for ever. `intake_repost` posts, deletes, reposts.

## What is proved

All theorems are checked by TLAPS for every value of the constants that satisfies
the named assumption of the module. The assumptions say that the sentinel values are
not members, that limits are positive, that the sets of requests, columns, bookings,
resources, slots and the like are finite where they are counted, that the limiter of
logins has room for more than one failure, that a lag is no longer than the overlap,
and that offsets and changes of the clock lie in the order Berlin has them in. The
theorems are about the specification of a component by itself (`Sync!Spec`). Where a
run puts several beside one another, `PartsRun` proves that a behaviour of the run is
one of each, so that `UnattendedHolds`, `AccountsHold` and `RecordsHold` state all that
the run checks of the specification it checks; those of the board are about it from
the start. The accounts may also start with clients who are logged in (`LoggedInInit`).
Every safety property that a run checks is proved, the invariants as well as the
action properties.

*Inbox.* `TypeCorrect` proves `TypeOK` together with `RunnerShape` (when a runner
has a current event and a batch). `ExclusiveClaims` is inductive relative to
them: a claim takes only events that are not "processing", and every owned event
is. `AttemptsBounded` is not inductive, because a claim increments the count:
`AttemptsInv` adds that whatever may still be claimed has an attempt left.
`ProcessedReflected` and `NoStaleImport` need the lock, so they are about behaviours in
which none was lost so far; `LockInv` (a run under way holds the lock) keeps two runs
of the inbox apart, and `VersionInv` relates event, snapshot, booking and provider:
nothing is ahead of Regiondo (`BehindProvider`), and what a run or an importer holds and
nobody overtook covers the booking and every event that is or is about to be marked
(`RunsCover`, `ImportersCover`). An import makes every other hand with that booking an
overtaken one, which is why the rest survives it. `InboxImplementsQueue` maps `status` to the state of
the queue and the runner that holds an event to its owner; `OwnerIsHolder` shows that
the CHOOSE of the mapping is the holder, and each action is matched with one
action of the queue or a stutter.

*Booking saga.* `AtMostOnePurchase` rests on `PurchaseInv`: the INSERT under the task
lock is the only way into "purchase", so at most one worker stands there for a
task, it has not submitted, and a task without an attempt has no submission.
`NoUntrackedOrder` follows from the same invariant, since no step takes an attempt
away. `SagaKeepsOperatorLink` follows from the check that `CompleteAttempt` repeats
under the lock.

*Reminders.* `HeldInv` says what a run holds: a dispatching run holds "processing"
deliveries of its own, the one reconcile run holds polled ones. With it
`DispatchUndisturbed` holds of every step; `SendsInv` counts, for a delivery that
is waiting or in hand, the sends so far against the operator retries.
`HeldInv` uses the reconcile lock, whose loss the model does not contain: with
two reconcile runs at once a late answer can be written over a retry.
`DeliveriesAreAQueue` maps the status column to the state of the queue, as the inbox
does, and the dispatching run that holds a delivery to its owner. `OwnersFollow`
says once what every claim, settlement and crash needs: what one run takes or gives
up moves the owner of that and of nothing else. `PolledAreWhatsApp` adds that a
reconcile run holds WhatsApp deliveries only, so that `WriteStatus` revokes only
what may be.

*Booking edits.* `RequestsHold` proves the four safety properties of
`BookingOverrides` together, from `TypeOK` and `RequestInv`. None of them is
inductive alone: an import reconciles every active request and takes the matching
fields of all of them off the guards, which keeps the others guarded only if there
are no others. So `OnlyActive` says in first-order form that two active requests are
one, and `RequestShape` that an active request was not closed by an admin and that a
pending one holds no provider values, which is what makes a guard traceable and a
conflict real. Of composite groups a request is real only as far as the code can
tell, and `RequestsAreReal` claims no more. `CreateOrMergeKeeps`, `ImportKeeps` and `ResolutionKeeps` are the
three ways in which `requests` changes; `OneActiveRequest` follows from `OnlyActive`
by the cardinality of a set with one element at most.

*Client sessions and groups* (`AccountsProofs`). `SessionInv` has the two properties and
what they rest on: a row that a request has locked is live, and the token it was
sent is the stored one (`RequestInv`), so that the row lock makes "read, then
rotate" one step; the accepted tokens of a session are those before the stored one
(`TokenInv`). `ApiKeepsSessions` is a refinement: `ClientApi` adds groups to the
requests and takes no step on sessions that `ClientSessions` does not have.
`GroupsAdmit` builds on it: the invite that a request has locked is open, for its
client, and locked by nobody else (`InviteInv`), which is what the check before the
join needs in order to be true at the join.

*Roles.* `OneSave`: a role has no rows, or the completed rows of one list that was saved
for it (`RowsInv`); a save that deletes and inserts in one transaction keeps this
whoever saves at the same time, and deletion of a role takes rows and saves with it.

*Admin login.* `FailuresBounded` is not inductive, because logins pass the limiter before
they are counted. `LimiterInv` says that once the limit is reached the failures and
the logins still being compared fit under the bound, and that the block outlasts the
window: a login that passes again finds a new window. `LogoutIsFinal` follows
statement by statement.

*Board* (`BoardProofs`). `PositionList` is proved about by itself: what closing a gap,
inserting and renumbering do to a list without ties. The columns stay dense because
deletion renumbers and creation takes the next place (`ColumnInv`); a task is in a
column there is because a prepared write that a deletion makes wrong is marked
`stale` (`Prepared`), and the theorem says nothing of the tasks it leaves (`raced`). For options, `OptionLocks`: the option that a deletion holds is
there, and those it listed are all there are. For locations, `Grasped` and `Apart` say
what a merge holds at each stage, and that a row locked for update is locked by
nobody else; so every booking of the source is among those the merge moves.

*Intake.* An event names the task and the payload that made it, since both are inserted
in one step by the one post that holds the lock of the message.

*Linked bookings.* `GroupsSavedWhole` needs of a save only that it writes all its records
in one step, so that the record written last names the save for all that it covers.
The proof uses neither the order of the locks nor the links.

*Booking sync.* `SyncInv`: what the next window would leave out (`Old`) is listed by
Regiondo when the run begins, was found or is at a place of the list still to come
while it pages, and is stored or makes the run fail while it imports. Pages shift as
bookings are listed, so a place in the list is a cardinality (`Place`), and the ranks of
a finite ordered set are proved to be 0, 1, 2, ... without gaps (`RanksAscend`,
`RanksFill`); then no page skips anything (`PagesAreFull`). Such facts, which one
would prove by induction, are proved here from the cardinality of initial segments
or from a least counterexample, because the prover has no induction scheme it can use.

*Lists.* `WalkInv`: of the rows that did not move, those up to the cursor were listed once
and those behind it not yet, as long as the cursors were exact. A cursor is a pair, the order of pairs is total
(`StrictOrder`), and the page takes the first ranks of what lies behind.

*Reservations.* `StillFits` says what makes a serializable rebuild safe: what it found to
fit in fits in still, or it will fail at its commit. `CapacityReserved` counts what
overlaps the slot, `CapacityNeverExceeded` what is reserved at one instant; the instant
lies in the slot, so the latter is not more. Quantities are sums over a set of rows,
written as the cardinality of a disjoint union (`Units`), which the theorems of finite
sets can count.

*Regiondo client.* `OrdersHandedOver` follows from the shape of a call (`CallOK`): before a
call polls, no order was taken, and its error is kept with its result. `Paced` is not inductive by itself, since slots are
used out of order: `PaceInv` says that the next free slot is an interval further for
each slot that was used or is waited for, and that by any moment still to come no more
calls are due or gone than there are intervals.

*Catalog* (`UnattendedProofs`). `CopiesMirror`: as long as nothing changes at Regiondo, what
the run has read of variations and options is what Regiondo has (`ReadTruly`), and the
open transaction has it of the products that were put (`DraftTrue`). Putting a product
takes nothing from those before it, because a variation is of one product; a run
that was disturbed promises nothing, and the next one starts from the rows it left.

*Migrations.* `SchemaFollows` needs no lock. `Applied` says of a deployment that what it
knows is tracked, and that what it is through with is tracked as its release has it;
rows are only added (`Grows`), so a step of one deployment keeps this of all others.

*Dates.* `DatesKept` is arithmetic: the first guess lies within an hour or two of the
instant, so that the second offset is that of a reading of the clock if there is
one. The changes of the clock lie two offsets apart at least.

Only model-checked: the liveness properties `AcceptedEventsSettleOrAreLeft`,
`StoredPurchasesSettle`, `OutcomesReported` and `ReconciledEventually`, because fairness
and ENABLED are beyond the prover; and the violations, which are behaviours.

## What is not modelled

- Contents: payloads, totals, templates, logs, audit records and `job_runs`.
- The reminder calendar, so that neither the starvation by LIMIT in
  `createDueReminderDeliveries` nor a reminder for a booking that moved shows.
- Whether PostgreSQL accepts the statements: a statement either takes effect or
  fails, and every failure the code handles is a disjunct.
- Loss of the session of the reconcile lock.
- In `BookingOverrides`: ops notes and status, the identity of the client behind
  the contact, bookings that did not come from Regiondo, and requests of the old
  format. Linked bookings are in `LinkedBookings`, which abstracts their content.
- How a quantity or a price is computed from products; the query of availability.
- The normalisers of bookings and of the catalog, and the mappers of the legacy
  service: conversions of data without control of their own, but for the dates.
- The CRUD of products, clients, client groups of the dashboard, comments, reminder
  rules and templates: single statements.
- The HTTP layer (routing, parsing, error mapping), configuration and the pool.
- Throttles of several processes together: the throttle is a field of one client.
- The components with status `not_modelled` in `PROJECT.json`.

## Plan

1. The reminder calendar, which decides what is due, and its LIMIT.
2. Abstract specifications for the booking saga and the change requests, and their
   refinement.
