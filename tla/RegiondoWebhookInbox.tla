------------------------ MODULE RegiondoWebhookInbox ------------------------
(***************************************************************************)
(* The Regiondo webhook inbox: the table regiondo_webhook_events, the POST *)
(* route that fills it, and the job runs that drain it under the session   *)
(* advisory lock of runJobWithLock.                                        *)
(*                                                                         *)
(* A runner is one invocation of runProcessRegiondoWebhookInboxJob: a cron *)
(* tick, the immediate trigger of the POST route, the internal HTTP route, *)
(* a CLI script or an operator's retry.  Several may be in flight, in one  *)
(* process or in several.  A step is one SQL statement or transaction, or  *)
(* one HTTP exchange with Regiondo: everything between two awaits.         *)
(*                                                                         *)
(* The booking sync, the reconciliation, the purchase sagas, a             *)
(* cancellation and the manual sync import the same bookings.  They take   *)
(* other locks than the inbox, or none, and the import compares no         *)
(* versions: the last one to commit wins, whatever it fetched.             *)
(***************************************************************************)
EXTENDS Naturals, FiniteSets

CONSTANTS
  Bookings,        \* Regiondo booking keys
  Runners,         \* concurrent invocations of the inbox job
  Importers,       \* imports of the same bookings under other locks
  NoRunner,        \* the advisory lock is free
  NoBooking,       \* an importer has nothing in hand
  NoEvent,         \* a runner is between two events
  MaxAttempts,     \* REGIONDO_WEBHOOK_MAX_ATTEMPTS
  BatchSize,       \* REGIONDO_WEBHOOK_BATCH_SIZE
  MaxVersion,      \* bound: changes Regiondo makes to a booking
  MaxAdminRetries, \* bound: operator retries
  MaxFaults,       \* bound: crashed or aborted job runs
  MaxLockLosses    \* bound: connections that die while they hold the lock

ASSUME InboxAssumption ==
  /\ NoRunner \notin Runners
  /\ NoBooking \notin Bookings
  /\ NoEvent \notin [booking : Bookings, version : 1..MaxVersion]
  /\ MaxAttempts \in Nat \ {0}
  /\ BatchSize \in Nat \ {0}
  /\ {MaxVersion, MaxAdminRetries, MaxFaults, MaxLockLosses} \subseteq Nat

VARIABLES
  provider,   \* provider[b]: version of booking b at Regiondo, 0 before it exists
  status,     \* regiondo_webhook_events.status, "absent" before the INSERT
  attempts,   \* regiondo_webhook_events.attempt_count
  available,  \* the events with available_at <= now()
  createdAt,  \* regiondo_webhook_events.created_at, as the rank of the INSERT
  inserts,    \* transactions that inserted events so far: the clock of createdAt
  lock,       \* holder of the session advisory lock of the job type
  pc,         \* where each runner stands in the job
  batch,      \* the claimed events a runner has not taken up yet
  current,    \* the event a runner is working on
  snapshot,   \* what the runner has fetched for its current event
  stored,     \* stored[b]: what the bookings table holds, in provider versions
  elsewhere,  \* what each importer under another lock has in hand
  overtaken,  \* history: the runs whose booking was imported elsewhere since they
              \* fetched it
  late,       \* history: the bookings whose last import had been overtaken
  retried,    \* history: operator retries of each event
  faults,     \* bounded counters of the environment
  lockLosses

providerVars == <<provider>>
eventVars    == <<status, attempts, available, createdAt, inserts, retried>>
runnerVars   == <<lock, pc, batch, current, snapshot, overtaken>>
bookingVars  == <<stored, late, elsewhere>>
boundVars    == <<faults, lockLosses>>
vars == <<providerVars, eventVars, runnerVars, bookingVars, boundVars>>

-----------------------------------------------------------------------------

\* One row per dedupe key.  The key hashes the booking key and the fields of
\* the payload that tell one change of the booking from another.
Events == [booking : Bookings, version : 1..MaxVersion]

Status == {"absent", "pending", "processing", "retrying", "processed", "dead_letter"}

PC == {"idle", "locked", "batch", "supplier", "hydrated", "imported", "rebuilt",
       "retryable", "fatal"}

\* A snapshot joins two GETs: the supplier bookings (status, dates) and the
\* purchase (totals, payments).  They may stem from different versions.
Snapshot == [supplier : 0..MaxVersion, purchase : 0..MaxVersion]

NoSnapshot == [supplier |-> 0, purchase |-> 0]

Halves == {"supplier", "purchase"}

EmptyHanded == [booking |-> NoBooking, fetched |-> {}, snapshot |-> NoSnapshot,
                overtaken |-> FALSE]

ImportersTypeOK ==
  /\ elsewhere \in [Importers -> [booking : Bookings \cup {NoBooking}, fetched : SUBSET Halves,
                                 snapshot : Snapshot, overtaken : BOOLEAN]]
  /\ \A i \in Importers : elsewhere[i].fetched # {} => elsewhere[i].booking \in Bookings
  /\ overtaken \in SUBSET Runners
  /\ late \in SUBSET Bookings

TypeOK ==
  /\ provider \in [Bookings -> 0..MaxVersion]
  /\ status \in [Events -> Status]
  /\ attempts \in [Events -> Nat]
  /\ available \in SUBSET Events
  /\ createdAt \in [Events -> Nat]
  /\ inserts \in Nat
  /\ lock \in Runners \cup {NoRunner}
  /\ pc \in [Runners -> PC]
  /\ batch \in [Runners -> SUBSET Events]
  /\ current \in [Runners -> Events \cup {NoEvent}]
  /\ snapshot \in [Runners -> Snapshot]
  /\ stored \in [Bookings -> Snapshot]
  /\ ImportersTypeOK
  /\ retried \in [Events -> Nat]
  /\ faults \in 0..MaxFaults
  /\ lockLosses \in 0..MaxLockLosses

Init ==
  /\ provider = [b \in Bookings |-> 0]
  /\ status = [e \in Events |-> "absent"]
  /\ attempts = [e \in Events |-> 0]
  /\ available = {}
  /\ createdAt = [e \in Events |-> 0]
  /\ inserts = 0
  /\ lock = NoRunner
  /\ pc = [r \in Runners |-> "idle"]
  /\ batch = [r \in Runners |-> {}]
  /\ current = [r \in Runners |-> NoEvent]
  /\ snapshot = [r \in Runners |-> NoSnapshot]
  /\ stored = [b \in Bookings |-> NoSnapshot]
  /\ elsewhere = [i \in Importers |-> EmptyHanded]
  /\ overtaken = {}
  /\ late = {}
  /\ retried = [e \in Events |-> 0]
  /\ faults = 0
  /\ lockLosses = 0

-----------------------------------------------------------------------------
(* Regiondo and the POST route.                                            *)

\* Regiondo creates or changes a booking.
ProviderChange(b) ==
  /\ provider[b] < MaxVersion
  /\ provider' = [provider EXCEPT ![b] = @ + 1]
  /\ UNCHANGED <<eventVars, runnerVars, bookingVars, boundVars>>

\* Mutant: ON CONFLICT (dedupe_key) DO UPDATE SET status = 'pending'.
EnqueueWebhookUpserts(posted) ==
  /\ \A e \in posted : e.version <= provider[e.booking]
  /\ \A e, f \in posted : e.booking = f.booking => e = f
  /\ posted # {}
  /\ inserts < MaxVersion * Cardinality(Bookings) + 1
  /\ status' = [e \in Events |-> IF e \in posted THEN "pending" ELSE status[e]]
  /\ available' = available \cup posted
  /\ createdAt' = [e \in Events |-> IF e \in posted THEN inserts + 1 ELSE createdAt[e]]
  /\ inserts' = inserts + 1
  /\ UNCHANGED <<providerVars, attempts, retried, runnerVars, bookingVars, boundVars>>

\* One webhook POST: it names a set of booking keys (the items of an order),
\* each at a version Regiondo has reached, possibly late, out of order or for
\* the second time.  ON CONFLICT (dedupe_key) DO NOTHING: only rows that are
\* not there yet are inserted, all in one transaction.
EnqueueWebhook(posted) ==
  LET new == {e \in posted : status[e] = "absent"}
  IN /\ \A e \in posted : e.version <= provider[e.booking]
     /\ \A e, f \in posted : e.booking = f.booking => e = f
     /\ new # {}
     /\ status' = [e \in Events |-> IF e \in new THEN "pending" ELSE status[e]]
     /\ available' = available \cup new
     /\ createdAt' = [e \in Events |-> IF e \in new THEN inserts + 1 ELSE createdAt[e]]
     /\ inserts' = inserts + 1
     /\ UNCHANGED <<providerVars, attempts, retried, runnerVars, bookingVars, boundVars>>

\* available_at is reached.
BackoffElapses(e) ==
  /\ e \notin available
  /\ status[e] = "retrying"
  /\ available' = available \cup {e}
  /\ UNCHANGED <<providerVars, status, attempts, createdAt, inserts, retried,
                 runnerVars, bookingVars, boundVars>>

\* An operator requeues an event.  The attempt count is kept.
AdminRetry(e) ==
  /\ status[e] \in {"retrying", "dead_letter"}
  /\ retried[e] < MaxAdminRetries
  /\ status' = [status EXCEPT ![e] = "retrying"]
  /\ available' = available \cup {e}
  /\ retried' = [retried EXCEPT ![e] = @ + 1]
  /\ UNCHANGED <<providerVars, attempts, createdAt, inserts, runnerVars, bookingVars, boundVars>>

-----------------------------------------------------------------------------
(* A run of the job.                                                       *)

\* Mutant: the answer of pg_try_advisory_lock is ignored.
AcquireLockUnchecked(r) ==
  /\ pc[r] = "idle"
  /\ lock' = r
  /\ pc' = [pc EXCEPT ![r] = "locked"]
  /\ UNCHANGED <<providerVars, eventVars, batch, current, snapshot, overtaken, bookingVars,
                 boundVars>>

\* pg_try_advisory_lock.  A runner that finds the lock taken reports
\* "skipped" and changes nothing.
AcquireLock(r) ==
  /\ pc[r] = "idle"
  /\ lock = NoRunner
  /\ lock' = r
  /\ pc' = [pc EXCEPT ![r] = "locked"]
  /\ UNCHANGED <<providerVars, eventVars, batch, current, snapshot, overtaken, bookingVars,
                 boundVars>>

\* Mutants: events that are being processed are claimed again; retries are not.
ClaimableUnsettled == {e \in available : status[e] \in {"pending", "processing", "retrying"}}

ClaimableOnce == {e \in available : status[e] = "pending"}

Claimable == {e \in available : status[e] \in {"pending", "retrying"}}

\* The result sets of the claim: the oldest claimable events, at most limit
\* of them (ORDER BY created_at LIMIT, ties in any order).
OldestClaimable(limit) ==
  {c \in SUBSET Claimable :
     /\ Cardinality(c) <= limit
     /\ c # Claimable => Cardinality(c) = limit
     /\ \A e \in c, f \in Claimable \ c : createdAt[e] <= createdAt[f]}

ClaimEvents(r) ==
  /\ pc[r] = "locked"
  /\ \E limit \in 1..BatchSize : \E claimed \in OldestClaimable(limit) :
       /\ status' = [e \in Events |-> IF e \in claimed THEN "processing" ELSE status[e]]
       /\ attempts' = [e \in Events |-> IF e \in claimed THEN attempts[e] + 1 ELSE attempts[e]]
       /\ batch' = [batch EXCEPT ![r] = claimed]
  /\ pc' = [pc EXCEPT ![r] = "batch"]
  /\ UNCHANGED <<providerVars, available, createdAt, inserts, retried, lock, current,
                 snapshot, overtaken, bookingVars, boundVars>>

\* Take up the next event and GET its supplier bookings.  RETURNING fixes no
\* order.  The booking must exist at Regiondo by now, or the GET is retryable.
FetchSupplierBookings(r, e) ==
  /\ pc[r] = "batch"
  /\ e \in batch[r]
  /\ batch' = [batch EXCEPT ![r] = @ \ {e}]
  /\ current' = [current EXCEPT ![r] = e]
  /\ snapshot' = [snapshot EXCEPT ![r] =
       [supplier |-> provider[e.booking], purchase |-> 0]]
  /\ \E next \in {"supplier", "retryable", "fatal"} : pc' = [pc EXCEPT ![r] = next]
  /\ UNCHANGED <<providerVars, eventVars, lock, overtaken, bookingVars, boundVars>>

\* GET the purchase, then normalise.
FetchPurchase(r) ==
  /\ pc[r] = "supplier"
  /\ snapshot' = [snapshot EXCEPT ![r] =
       [supplier |-> snapshot[r].supplier, purchase |-> provider[current[r].booking]]]
  /\ \E next \in {"hydrated", "retryable", "fatal"} : pc' = [pc EXCEPT ![r] = next]
  /\ UNCHANGED <<providerVars, eventVars, lock, batch, current, overtaken, bookingVars,
                 boundVars>>

\* upsertNormalizedRegiondoBooking: booking b takes the snapshot, whatever it held.
Store(b, taken, isLate) ==
  /\ stored' = [stored EXCEPT ![b] = taken]
  /\ late' = IF isLate THEN late \cup {b} ELSE late \ {b}

\* What the importers hold of booking b is overtaken.
OvertakenBy(b) ==
  [i \in Importers |-> IF elsewhere[i].booking = b
                       THEN [elsewhere[i] EXCEPT !.overtaken = TRUE] ELSE elsewhere[i]]

\* Mutant: a rolled back import is taken for a successful one.
ImportBookingSwallowsError(r) ==
  /\ pc[r] = "hydrated"
  /\ \/ /\ Store(current[r].booking, snapshot[r], r \in overtaken)
        /\ elsewhere' = OvertakenBy(current[r].booking)
     \/ UNCHANGED bookingVars
  /\ pc' = [pc EXCEPT ![r] = "imported"]
  /\ UNCHANGED <<providerVars, eventVars, lock, batch, current, snapshot, overtaken, boundVars>>

\* importNormalizedRegiondoBooking, one transaction, or the transaction rolls back.
ImportBooking(r) ==
  /\ pc[r] = "hydrated"
  /\ \/ /\ Store(current[r].booking, snapshot[r], r \in overtaken)
        /\ elsewhere' = OvertakenBy(current[r].booking)
        /\ pc' = [pc EXCEPT ![r] = "imported"]
     \/ /\ pc' = [pc EXCEPT ![r] = "fatal"]
        /\ UNCHANGED bookingVars
  /\ UNCHANGED <<providerVars, eventVars, lock, batch, current, snapshot, overtaken, boundVars>>

\* rebuildConsumptionsForBooking: done, skipped on a missing mapping or an
\* overbooking, or failed.
RebuildConsumptions(r) ==
  /\ pc[r] = "imported"
  /\ \E next \in {"rebuilt", "fatal"} : pc' = [pc EXCEPT ![r] = next]
  /\ UNCHANGED <<providerVars, eventVars, lock, batch, current, snapshot, overtaken,
                 bookingVars, boundVars>>

\* The runner is done with its current event.
NextEvent(r) ==
  /\ pc' = [pc EXCEPT ![r] = "batch"]
  /\ current' = [current EXCEPT ![r] = NoEvent]
  /\ snapshot' = [snapshot EXCEPT ![r] = NoSnapshot]
  /\ overtaken' = overtaken \ {r}

\* markRegiondoWebhookEventProcessed: the UPDATE has no guard on the status.
\* If it fails, the catch clause settles the event.
MarkProcessed(r) ==
  /\ pc[r] = "rebuilt"
  /\ \/ /\ status' = [status EXCEPT ![current[r]] = "processed"]
        /\ NextEvent(r)
     \/ /\ pc' = [pc EXCEPT ![r] = "fatal"]
        /\ UNCHANGED <<status, current, snapshot, overtaken>>
  /\ UNCHANGED <<providerVars, attempts, available, createdAt, inserts, retried, lock,
                 batch, bookingVars, boundVars>>

\* Mutant: one attempt too many.
MayRetryInclusive(r) == pc[r] = "retryable" /\ attempts[current[r]] <= MaxAttempts

\* attempt_count as the claim returned it; it does not change while the event
\* is "processing".
MayRetry(r) == pc[r] = "retryable" /\ attempts[current[r]] < MaxAttempts

\* Mutant: a status that the CHECK constraint of the table does not know.
MarkRetryUnknownStatus(r) ==
  /\ MayRetry(r)
  /\ status' = [status EXCEPT ![current[r]] = "retry"]
  /\ available' = available \ {current[r]}
  /\ NextEvent(r)
  /\ UNCHANGED <<providerVars, attempts, createdAt, inserts, retried, lock, batch, bookingVars,
                 boundVars>>

MarkRetry(r) ==
  /\ MayRetry(r)
  /\ status' = [status EXCEPT ![current[r]] = "retrying"]
  /\ available' = available \ {current[r]}
  /\ NextEvent(r)
  /\ UNCHANGED <<providerVars, attempts, createdAt, inserts, retried, lock, batch, bookingVars,
                 boundVars>>

MarkDeadLetter(r) ==
  /\ pc[r] \in {"retryable", "fatal"}
  /\ ~MayRetry(r)
  /\ status' = [status EXCEPT ![current[r]] = "dead_letter"]
  /\ NextEvent(r)
  /\ UNCHANGED <<providerVars, attempts, available, createdAt, inserts, retried, lock,
                 batch, bookingVars, boundVars>>

\* The runner forgets everything; its connection goes back to the pool or dies
\* with the process, and either way the lock it may hold is free.
LeaveJob(r) ==
  /\ lock' = IF lock = r THEN NoRunner ELSE lock
  /\ pc' = [pc EXCEPT ![r] = "idle"]
  /\ batch' = [batch EXCEPT ![r] = {}]
  /\ current' = [current EXCEPT ![r] = NoEvent]
  /\ snapshot' = [snapshot EXCEPT ![r] = NoSnapshot]
  /\ overtaken' = overtaken \ {r}

FinishJob(r) ==
  /\ pc[r] = "batch"
  /\ batch[r] = {}
  /\ LeaveJob(r)
  /\ UNCHANGED <<providerVars, eventVars, bookingVars, boundVars>>

-----------------------------------------------------------------------------
(* The imports that are not the inbox's.                                   *)

\* One half of a snapshot.  hydrateBookingOrder asks for the supplier bookings
\* first; the sagas hold the purchase from its submission on.
FetchElsewhere(i, b, half) ==
  LET hand == elsewhere[i] IN
  /\ provider[b] > 0
  /\ hand.booking \in {NoBooking, b}
  /\ half \notin hand.fetched
  /\ elsewhere' = [elsewhere EXCEPT ![i] =
       [booking   |-> b,
        fetched   |-> hand.fetched \cup {half},
        snapshot  |-> [hand.snapshot EXCEPT ![half] = provider[b]],
        overtaken |-> hand.overtaken]]
  /\ UNCHANGED <<providerVars, eventVars, runnerVars, stored, late, boundVars>>

\* The same upsert as the inbox's, with no lock in common with it.
ImportElsewhere(i) ==
  LET hand == elsewhere[i]
      b    == hand.booking
  IN  /\ hand.fetched = Halves
      /\ Store(b, hand.snapshot, hand.overtaken)
      /\ elsewhere' = [OvertakenBy(b) EXCEPT ![i] = EmptyHanded]
      /\ overtaken' = overtaken \cup
           {r \in Runners : pc[r] \in {"supplier", "hydrated"} /\ current[r].booking = b}
      /\ UNCHANGED <<providerVars, eventVars, lock, pc, batch, current, snapshot, boundVars>>

\* A GET or the transaction fails.
GiveUpElsewhere(i) ==
  /\ elsewhere[i].booking # NoBooking
  /\ elsewhere' = [elsewhere EXCEPT ![i] = EmptyHanded]
  /\ UNCHANGED <<providerVars, eventVars, runnerVars, stored, late, boundVars>>

-----------------------------------------------------------------------------
(* Failures.                                                               *)

\* The claim, or the statement that settles a failed event, fails: the error
\* leaves the handler, and what the run had claimed stays "processing".
AbortJob(r) ==
  /\ pc[r] \in {"locked", "retryable", "fatal"}
  /\ faults < MaxFaults
  /\ faults' = faults + 1
  /\ LeaveJob(r)
  /\ UNCHANGED <<providerVars, eventVars, bookingVars, lockLosses>>

\* The process of the runner dies.
Crash(r) ==
  /\ pc[r] # "idle"
  /\ faults < MaxFaults
  /\ faults' = faults + 1
  /\ LeaveJob(r)
  /\ UNCHANGED <<providerVars, eventVars, bookingVars, lockLosses>>

\* PostgreSQL ends the session that holds the lock.  The handler works on
\* other connections of the pool and goes on.
LoseLock ==
  /\ lock # NoRunner
  /\ lockLosses < MaxLockLosses
  /\ lockLosses' = lockLosses + 1
  /\ lock' = NoRunner
  /\ UNCHANGED <<providerVars, eventVars, pc, batch, current, snapshot, overtaken,
                 bookingVars, faults>>

-----------------------------------------------------------------------------

Progress(r) ==
  \/ ClaimEvents(r)
  \/ \E e \in Events : FetchSupplierBookings(r, e)
  \/ FetchPurchase(r)
  \/ ImportBooking(r)
  \/ RebuildConsumptions(r)
  \/ MarkProcessed(r)
  \/ MarkRetry(r)
  \/ MarkDeadLetter(r)
  \/ FinishJob(r)

Elsewhere(i) ==
  \/ \E b \in Bookings, half \in Halves : FetchElsewhere(i, b, half)
  \/ ImportElsewhere(i)
  \/ GiveUpElsewhere(i)

Next ==
  \/ \E b \in Bookings : ProviderChange(b)
  \/ \E posted \in SUBSET Events : EnqueueWebhook(posted)
  \/ \E e \in Events : BackoffElapses(e) \/ AdminRetry(e)
  \/ \E r \in Runners : AcquireLock(r) \/ Progress(r) \/ AbortJob(r) \/ Crash(r)
  \/ \E i \in Importers : Elsewhere(i)
  \/ LoseLock

Spec == Init /\ [][Next]_vars

\* The scheduler ticks for ever, so a free lock is taken; a run that started
\* goes on; time passes.
FairSpec ==
  /\ Spec
  /\ WF_vars(\E r \in Runners : AcquireLock(r))
  /\ \A r \in Runners : WF_vars(Progress(r))
  /\ \A e \in Events : WF_vars(BackoffElapses(e))

-----------------------------------------------------------------------------
(* Properties.                                                             *)

\* The events a runner has claimed and not settled.
Owned(r) == batch[r] \cup ({current[r]} \ {NoEvent})

\* No event is in the hands of two job runs at once, and an event that is in
\* the hands of one is "processing": nobody else can claim or requeue it.  This
\* must hold even when PostgreSQL drops the session of the advisory lock and a
\* second run starts beside the first (claimRegiondoWebhookEvents).
ExclusiveClaims ==
  /\ \A r \in Runners : \A e \in Owned(r) : status[e] = "processing"
  /\ \A r, s \in Runners : r # s => Owned(r) \cap Owned(s) = {}

\* An event is attempted at most MaxAttempts times, plus once for every time an
\* operator requeued it: the unreset attempt_count never lets it loop.
AttemptsBounded == \A e \in Events : attempts[e] <= MaxAttempts + retried[e]

\* An event marked processed is never ahead of the booking: both halves of the
\* stored snapshot were read after the change the event announced, and no older
\* snapshot was written over them.  That needs the lock of the job, which keeps
\* two runs of the inbox apart, and it needs that the last import of the booking
\* was not overtaken: nothing orders the inbox and the importers under other
\* locks, and the upsert of upsertNormalizedRegiondoBooking compares no versions.
Reflected(e) ==
  /\ e.version <= stored[e.booking].supplier
  /\ e.version <= stored[e.booking].purchase

AllReflected ==
  \A e \in Events : status[e] = "processed" /\ e.booking \notin late => Reflected(e)

ProcessedReflected == lockLosses = 0 => AllReflected

\* While no run lost the lock, an older snapshot is written over a newer one only
\* by an import that another one, under another lock, overtook since it fetched:
\* hydration and import of two runs of the inbox do not overlap.
NoStaleImport ==
  [][lockLosses = 0 =>
       \A b \in Bookings :
         \/ b \in late'
         \/ /\ stored'[b].supplier >= stored[b].supplier
            /\ stored'[b].purchase >= stored[b].purchase]_vars

\* A processed event stays processed: no redelivery, operator or late runner
\* brings it back (the unguarded UPDATEs of the mark functions).
ProcessedIsFinal ==
  [][\A e \in Events : status[e] = "processed" => status'[e] = "processed"]_vars

\* Every accepted event is settled in the end: processed, or handed to the
\* operators as a dead letter.
AcceptedEventsSettle ==
  \A e \in Events : status[e] # "absent" ~> status[e] \in {"processed", "dead_letter"}

\* Crashes included: every accepted event is settled in the end, or a run that
\* died or aborted left it "processing", in nobody's hands.  The rest of the
\* batch, and the events of later runs, do not wait for it.
AcceptedEventsSettleOrAreLeft ==
  \A e \in Events :
    status[e] # "absent" ~>
      \/ status[e] \in {"processed", "dead_letter"}
      \/ faults > 0 /\ status[e] = "processing" /\ \A r \in Runners : e \notin Owned(r)

\* The inbox as a claim queue: what a runner owns is what it has claimed and not
\* settled, "pending" and "retrying" events are ready.
QueueState ==
  [e \in Events |-> CASE status[e] \in {"pending", "retrying"} -> "ready"
                      [] status[e] = "processing" -> "claimed"
                      [] status[e] = "processed" -> "done"
                      [] status[e] = "dead_letter" -> "failed"
                      [] OTHER -> "absent"]

QueueOwner ==
  [e \in Events |-> IF \E r \in Runners : e \in Owned(r)
                    THEN CHOOSE r \in Runners : e \in Owned(r) ELSE NoRunner]

Queue == INSTANCE ClaimQueue WITH Items <- Events, Workers <- Runners, NoWorker <- NoRunner,
                                  Revocable <- {}, state <- QueueState, owner <- QueueOwner

\* Every step of the inbox is a step of the claim queue or invisible to it:
\* exclusive hand-over, no settled event handed out again, nothing reclaimed
\* from a dead run.
ImplementsQueue == Queue!Spec

-----------------------------------------------------------------------------
(* The strengthenings that make the invariants above inductive.            *)

\* A runner has a current event exactly in the middle of one, and holds no
\* batch before the claim.
RunnerShape ==
  \A r \in Runners :
    /\ pc[r] \in {"idle", "locked", "batch"} <=> current[r] = NoEvent
    /\ pc[r] \in {"idle", "locked"} => batch[r] = {}
    /\ current[r] \notin batch[r]

\* An event that may still be claimed has an attempt left.
AttemptsInv ==
  \A e \in Events :
    /\ attempts[e] <= MaxAttempts + retried[e]
    /\ status[e] \in {"absent", "pending", "retrying"} => attempts[e] < MaxAttempts + retried[e]

\* While no session is lost, a run that is under way holds the lock.
LockInv == \A r \in Runners : pc[r] # "idle" => lock = r

\* No event, snapshot or booking is ahead of Regiondo.
BehindProvider ==
  /\ \A e \in Events : status[e] # "absent" => e.version <= provider[e.booking]
  /\ \A b \in Bookings : /\ stored[b].supplier <= provider[b]
                          /\ stored[b].purchase <= provider[b]

\* One half of a snapshot of b that nobody overtook is at least as new as what is
\* stored, and as every event that is processed.
Covers(b, half, version) ==
  /\ stored[b][half] <= version
  /\ \A e \in Events : e.booking = b /\ status[e] = "processed" => e.version <= version

\* What a run fetched is at least as new as its event and, unless overtaken,
\* as what is stored; a run that imported left its event reflected.
RunCovers(r, half) ==
  LET v == snapshot[r][half]
      b == current[r].booking
  IN /\ v <= provider[b]
     /\ current[r].version <= v
     /\ r \notin overtaken => Covers(b, half, v)

RunsCover ==
  \A r \in Runners :
    /\ pc[r] \in {"supplier", "hydrated"} => RunCovers(r, "supplier")
    /\ pc[r] = "hydrated" => RunCovers(r, "purchase")
    /\ pc[r] \in {"imported", "rebuilt"} /\ current[r].booking \notin late
         => Reflected(current[r])

\* What an importer fetched and nobody overtook covers the booking too, and the
\* events that runs have imported and not yet marked.
ImporterCovers(i, half) ==
  LET b == elsewhere[i].booking
      v == elsewhere[i].snapshot[half]
  IN /\ b \in Bookings
     /\ v <= provider[b]
     /\ ~elsewhere[i].overtaken =>
          /\ Covers(b, half, v)
          /\ \A r \in Runners :
               pc[r] \in {"imported", "rebuilt"} /\ current[r].booking = b
                 => current[r].version <= v

ImportersCover ==
  \A i \in Importers : \A half \in elsewhere[i].fetched : ImporterCovers(i, half)

VersionInv == BehindProvider /\ RunsCover /\ ImportersCover

=============================================================================
