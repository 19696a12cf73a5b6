------------------------ MODULE TaskBookingAttempts ------------------------
(***************************************************************************)
(* Booking a task at Regiondo: createBookingFromTask writes a row of       *)
(* task_booking_attempts, submits one purchase, and then imports the       *)
(* purchased booking and links it to the task, in the same request or, as  *)
(* often as it takes, from the recovery job.  A purchase cannot be undone  *)
(* or recognised when it is submitted twice, so the attempt row is what    *)
(* keeps a crash, a second click or a slow snapshot from buying again.     *)
(*                                                                         *)
(* A worker is a request handler or a run of the recovery job.  A step is  *)
(* one transaction or one exchange with Regiondo.                          *)
(***************************************************************************)
EXTENDS Naturals, FiniteSets

CONSTANTS
  Tasks,
  Handlers,     \* concurrent requests POST /api/admin/tasks/:taskId/booking
  Jobs,         \* runs of recover_task_booking_attempts
  NoTask,       \* a worker that is on no task
  OtherBookings,\* bookings that no task of ours bought
  NoBooking,    \* connected_booking_key IS NULL, booking_ids = '{}'
  JobLimit,     \* LIMIT of a recovery run
  MaxEdits,     \* bound: saves, deletions and restores of tasks by operators
  MaxCrashes    \* bound: workers that die

Workers == Handlers \cup Jobs

\* The booking that the purchase for task t creates.
Own(t) == [boughtFor |-> t]

Bookings == OtherBookings \cup {Own(t) : t \in Tasks}

ASSUME TaskBookingAssumption ==
  /\ Handlers \cap Jobs = {}
  /\ NoTask \notin Tasks
  /\ NoBooking \notin Bookings
  /\ OtherBookings \cap {Own(t) : t \in Tasks} = {}
  /\ JobLimit \in Nat \ {0}
  /\ {MaxEdits, MaxCrashes} \subseteq Nat

VARIABLES
  attempt,     \* task_booking_attempts.status, "none" before the INSERT
  keyed,       \* tasks whose attempt knows its booking keys and order number
  recorded,    \* task_booking_attempts.booking_ids[1]
  older,       \* <<s, t>>: the attempt of s was updated before that of t
  primary,     \* tasks.connected_booking_key
  links,       \* task_bookings
  deleted,     \* tasks.is_deleted
  imported,    \* what the bookings table holds of the purchased bookings
  submissions, \* history: POSTs of a purchase for each task
  orders,      \* Regiondo: orders that exist for each task
  pc, target,  \* where a worker stands, and for which task
  todo,        \* candidates of a recovery run that are still to come
  edits, crashes  \* bounded counters of the environment

attemptVars  == <<attempt, keyed, recorded, older>>
taskVars     == <<primary, links, deleted>>
providerVars == <<submissions, orders>>
workerVars   == <<pc, target, todo>>
boundVars    == <<edits, crashes>>
vars == <<attemptVars, taskVars, imported, providerVars, workerVars, boundVars>>

-----------------------------------------------------------------------------

Status == {"none", "submitting", "pending_snapshot", "completed", "needs_review"}

PC == {"idle", "purchase", "store", "recover", "import", "complete", "pend", "review", "next"}

TypeOK ==
  /\ attempt \in [Tasks -> Status]
  /\ keyed \in SUBSET Tasks
  /\ recorded \in [Tasks -> Bookings \cup {NoBooking}]
  /\ older \in SUBSET (Tasks \X Tasks)
  /\ primary \in [Tasks -> Bookings \cup {NoBooking}]
  /\ links \in [Tasks -> SUBSET Bookings]
  /\ deleted \in SUBSET Tasks
  /\ imported \in SUBSET Bookings
  /\ submissions \in [Tasks -> Nat]
  /\ orders \in [Tasks -> Nat]
  /\ pc \in [Workers -> PC]
  /\ target \in [Workers -> Tasks \cup {NoTask}]
  /\ todo \in [Workers -> SUBSET Tasks]
  /\ edits \in 0..MaxEdits
  /\ crashes \in 0..MaxCrashes

Init ==
  /\ attempt = [t \in Tasks |-> "none"]
  /\ keyed = {}
  /\ recorded = [t \in Tasks |-> NoBooking]
  /\ older = {}
  /\ primary = [t \in Tasks |-> NoBooking]
  /\ links = [t \in Tasks |-> {}]
  /\ deleted = {}
  /\ imported = {}
  /\ submissions = [t \in Tasks |-> 0]
  /\ orders = [t \in Tasks |-> 0]
  /\ pc = [w \in Workers |-> "idle"]
  /\ target = [w \in Workers |-> NoTask]
  /\ todo = [w \in Workers |-> {}]
  /\ edits = 0
  /\ crashes = 0

-----------------------------------------------------------------------------

\* Every UPDATE of an attempt sets updated_at to now(), by trigger.
Touch(t) == older' = (older \ {p \in older : p[1] = t}) \cup ((Tasks \ {t}) \X {t})

Goto(w, next) == pc' = [pc EXCEPT ![w] = next]

\* The handler answers; the job takes its next candidate.
Leave(w) ==
  /\ Goto(w, IF w \in Jobs THEN "next" ELSE "idle")
  /\ target' = [target EXCEPT ![w] = NoTask]

\* Mutants: an attempt that needs review is submitted again; the purchase is
\* submitted before the attempt is written.
CreateBookingResubmits(h, t) ==
  /\ pc[h] = "idle"
  /\ t \notin deleted
  /\ primary[t] = NoBooking
  /\ attempt[t] \in {"none", "needs_review"}
  /\ attempt' = [attempt EXCEPT ![t] = "submitting"]
  /\ Touch(t)
  /\ Goto(h, "purchase")
  /\ target' = [target EXCEPT ![h] = t]
  /\ UNCHANGED <<keyed, recorded, taskVars, imported, providerVars, todo, boundVars>>

CreateBookingUnrecorded(h, t) ==
  /\ pc[h] = "idle"
  /\ t \notin deleted
  /\ attempt[t] = "none"
  /\ Goto(h, "purchase")
  /\ target' = [target EXCEPT ![h] = t]
  /\ UNCHANGED <<attemptVars, taskVars, imported, providerVars, todo, boundVars>>

\* The first transaction of createBookingFromTask, with the task row locked.
\* An attempt there is recovered and never submitted again; a linked task is
\* refused (as are tasks outside the confirmation columns and stale previews).
CreateBooking(h, t) ==
  /\ pc[h] = "idle"
  /\ t \notin deleted
  /\ \/ /\ attempt[t] # "none"
        /\ ~(attempt[t] = "completed" /\ recorded[t] # NoBooking)
        /\ Goto(h, "recover")
        /\ UNCHANGED attemptVars
     \/ /\ attempt[t] = "none"
        /\ primary[t] = NoBooking
        /\ attempt' = [attempt EXCEPT ![t] = "submitting"]
        /\ Touch(t)
        /\ Goto(h, "purchase")
        /\ UNCHANGED <<keyed, recorded>>
  /\ target' = [target EXCEPT ![h] = t]
  /\ UNCHANGED <<taskVars, imported, providerVars, todo, boundVars>>

\* POST /checkout/purchase and the bounded polling of its snapshot.  The order
\* may exist although the call fails.
SubmitPurchase(h) ==
  LET t == target[h]
  IN /\ pc[h] = "purchase"
     /\ submissions' = [submissions EXCEPT ![t] = @ + 1]
     /\ \/ /\ orders' = [orders EXCEPT ![t] = @ + 1]
           /\ \E next \in {"store", "review"} : Goto(h, next)
        \/ /\ Goto(h, "review")
           /\ UNCHANGED orders
     /\ UNCHANGED <<attemptVars, taskVars, imported, target, todo, boundVars>>

\* The purchase is stored with its booking keys, or the UPDATE fails.
StorePurchase(h) ==
  LET t == target[h]
  IN /\ pc[h] = "store"
     /\ \/ /\ attempt' = [attempt EXCEPT ![t] = "pending_snapshot"]
           /\ keyed' = keyed \cup {t}
           /\ Touch(t)
           /\ Goto(h, "recover")
        \/ /\ Goto(h, "review")
           /\ UNCHANGED <<attempt, keyed, older>>
     /\ UNCHANGED <<recorded, taskVars, imported, providerVars, target, todo, boundVars>>

\* recoverTaskBookingAttempt reads the attempt without a lock and counts the try.
BeginRecovery(w) ==
  LET t == target[w]
  IN /\ pc[w] = "recover"
     /\ IF (attempt[t] = "completed" /\ recorded[t] # NoBooking) \/ t \notin keyed
        THEN Leave(w) /\ UNCHANGED older
        ELSE Goto(w, "import") /\ Touch(t) /\ UNCHANGED target
     /\ UNCHANGED <<attempt, keyed, recorded, taskVars, imported, providerVars, todo, boundVars>>

\* Fetch the snapshots of all booking keys and import them in one transaction.
ImportSnapshot(w, t) ==
  /\ pc[w] = "import"
  /\ target[w] = t
  /\ imported' = imported \cup {Own(t)}
  /\ Goto(w, "complete")
  /\ UNCHANGED <<attemptVars, taskVars, providerVars, target, todo, boundVars>>

\* The snapshot is not there yet ("pend"), or the import fails for good.
ImportFails(w) ==
  /\ pc[w] = "import"
  /\ \E next \in {"pend", "review"} : Goto(w, next)
  /\ UNCHANGED <<attemptVars, taskVars, imported, providerVars, target, todo, boundVars>>

\* Mutant: the link of the task is not looked at again.
CompleteAttemptUnchecked(w) ==
  LET t == target[w]
  IN /\ pc[w] = "complete"
     /\ attempt' = [attempt EXCEPT ![t] = "completed"]
     /\ recorded' = [recorded EXCEPT ![t] = Own(t)]
     /\ primary' = [primary EXCEPT ![t] = Own(t)]
     /\ links' = [links EXCEPT ![t] = @ \cup {Own(t)}]
     /\ Touch(t)
     /\ Leave(w)
     /\ UNCHANGED <<keyed, deleted, imported, providerVars, todo, boundVars>>

\* completeTaskBookingAttempt, with the attempt and the task locked.
CompleteAttempt(w) ==
  LET t == target[w]
      settled == attempt[t] = "completed" /\ recorded[t] # NoBooking
      refused == t \in deleted \/ primary[t] \notin {NoBooking, Own(t)}
  IN /\ pc[w] = "complete"
     /\ \/ /\ settled
           /\ Leave(w)
           /\ UNCHANGED <<attemptVars, taskVars>>
        \/ /\ ~settled /\ ~refused
           /\ attempt' = [attempt EXCEPT ![t] = "completed"]
           /\ recorded' = [recorded EXCEPT ![t] = Own(t)]
           /\ primary' = [primary EXCEPT ![t] = Own(t)]
           /\ links' = [links EXCEPT ![t] = @ \cup {Own(t)}]
           /\ Touch(t)
           /\ Leave(w)
           /\ UNCHANGED <<keyed, deleted>>
        \/ /\ ~settled   \* refused, or the transaction fails
           /\ Goto(w, "review")
           /\ UNCHANGED <<attemptVars, taskVars, target>>
     /\ UNCHANGED <<imported, providerVars, todo, boundVars>>

\* Mutant: 'failed', which no query of the saga expects.
MarkFailureFailed(w) ==
  /\ pc[w] \in {"pend", "review"}
  /\ attempt' = [attempt EXCEPT ![target[w]] = "failed"]
  /\ Touch(target[w])
  /\ Leave(w)
  /\ UNCHANGED <<keyed, recorded, taskVars, imported, providerVars, todo, boundVars>>

\* markTaskBookingAttemptFailure: an UPDATE by attempt_id, whatever the status
\* has become in the meantime.
MarkFailure(w) ==
  LET t == target[w]
  IN /\ pc[w] \in {"pend", "review"}
     /\ attempt' = [attempt EXCEPT ![t] = IF pc[w] = "pend" THEN "pending_snapshot"
                                                           ELSE "needs_review"]
     /\ Touch(t)
     /\ Leave(w)
     /\ UNCHANGED <<keyed, recorded, taskVars, imported, providerVars, todo, boundVars>>

-----------------------------------------------------------------------------
(* The recovery job.                                                       *)

Recoverable == {t \in keyed : attempt[t] = "pending_snapshot"}

\* Mutant: no ORDER BY.
AnyRecoverable ==
  {c \in SUBSET Recoverable :
     /\ Cardinality(c) <= JobLimit
     /\ c # Recoverable => Cardinality(c) = JobLimit}

\* ORDER BY updated_at LIMIT.
LeastRecent ==
  {c \in SUBSET Recoverable :
     /\ Cardinality(c) <= JobLimit
     /\ c # Recoverable => Cardinality(c) = JobLimit
     /\ \A s \in c, t \in Recoverable \ c : <<t, s>> \notin older}

StartJob(j) ==
  /\ pc[j] = "idle"
  /\ \E c \in LeastRecent : todo' = [todo EXCEPT ![j] = c]
  /\ Goto(j, "next")
  /\ UNCHANGED <<attemptVars, taskVars, imported, providerVars, target, boundVars>>

NextCandidate(j) ==
  /\ pc[j] = "next"
  /\ \/ \E t \in todo[j] :
          /\ todo' = [todo EXCEPT ![j] = @ \ {t}]
          /\ target' = [target EXCEPT ![j] = t]
          /\ Goto(j, "recover")
     \/ /\ todo[j] = {}
        /\ Goto(j, "idle")
        /\ UNCHANGED <<todo, target>>
  /\ UNCHANGED <<attemptVars, taskVars, imported, providerVars, boundVars>>

-----------------------------------------------------------------------------
(* Operators, other importers, and failures.                               *)

\* updateTaskRecord: a form that omits connectedBookingId clears the primary
\* booking and keeps the links; a form that carries one replaces the links when
\* it differs from the primary booking.
SaveTask(t) ==
  /\ t \notin deleted
  /\ edits < MaxEdits
  /\ edits' = edits + 1
  /\ \/ /\ primary' = [primary EXCEPT ![t] = NoBooking]
        /\ UNCHANGED links
     \/ \E b \in OtherBookings \cup imported \cup {NoBooking} :
          /\ primary' = [primary EXCEPT ![t] = b]
          /\ links' = IF b = primary[t] THEN links
                      ELSE [links EXCEPT ![t] = {b} \ {NoBooking}]
  /\ UNCHANGED <<attemptVars, deleted, imported, providerVars, workerVars, crashes>>

\* The booking of an order also arrives on its own, through the webhook inbox or
\* a booking sync, so that operators may link it before the saga does.
ImportElsewhere(t) ==
  /\ orders[t] > 0
  /\ Own(t) \notin imported
  /\ imported' = imported \cup {Own(t)}
  /\ UNCHANGED <<attemptVars, taskVars, providerVars, workerVars, boundVars>>

\* Soft deletion keeps the attempt; restoring brings the task back.
DeleteOrRestoreTask(t) ==
  /\ edits < MaxEdits
  /\ edits' = edits + 1
  /\ deleted' = IF t \in deleted THEN deleted \ {t} ELSE deleted \cup {t}
  /\ UNCHANGED <<attemptVars, primary, links, imported, providerVars, workerVars, crashes>>

\* The process of a worker dies between two of its steps, or a statement that
\* nothing catches fails.
Crash(w) ==
  /\ pc[w] # "idle"
  /\ crashes < MaxCrashes
  /\ crashes' = crashes + 1
  /\ Goto(w, "idle")
  /\ target' = [target EXCEPT ![w] = NoTask]
  /\ todo' = [todo EXCEPT ![w] = {}]
  /\ UNCHANGED <<attemptVars, taskVars, imported, providerVars, edits>>

-----------------------------------------------------------------------------

HandlerStep(h) == SubmitPurchase(h) \/ StorePurchase(h)

RecoveryStep(w) ==
  \/ BeginRecovery(w)
  \/ \E t \in Tasks : ImportSnapshot(w, t)
  \/ ImportFails(w)
  \/ CompleteAttempt(w)
  \/ MarkFailure(w)

Next ==
  \/ \E h \in Handlers : HandlerStep(h) \/ \E t \in Tasks : CreateBooking(h, t)
  \/ \E j \in Jobs : StartJob(j) \/ NextCandidate(j)
  \/ \E w \in Workers : RecoveryStep(w) \/ Crash(w)
  \/ \E t \in Tasks : SaveTask(t) \/ DeleteOrRestoreTask(t) \/ ImportElsewhere(t)

Spec == Init /\ [][Next]_vars

\* The scheduler starts the job again and again, a run and a request go on,
\* and Regiondo publishes the snapshot of an order in the end, so that whoever
\* asks for it often enough gets it.
Fairness ==
  /\ \A j \in Jobs : WF_vars(StartJob(j) \/ NextCandidate(j))
  /\ \A w \in Workers : WF_vars(RecoveryStep(w))
  /\ \A t \in Tasks : SF_vars(\E w \in Workers : ImportSnapshot(w, t))

FairSpec == Spec /\ Fairness

-----------------------------------------------------------------------------
(* Properties.                                                             *)

\* At most one purchase is ever submitted for a task, whatever the clicks,
\* crashes, ambiguous answers, deletions and restores: purchases are never
\* retried automatically, and a second request recovers the first one.
AtMostOnePurchase == \A t \in Tasks : submissions[t] <= 1

\* No order exists at Regiondo that the database does not know an attempt of:
\* the attempt is committed before the purchase is submitted, and nothing
\* deletes it, so even a crash in mid-purchase leaves a trace to review.
NoUntrackedOrder == \A t \in Tasks : orders[t] > 0 => attempt[t] # "none"

\* Only an operator's save changes the booking a task is linked to: the saga,
\* whose eligibility check is long stale when it completes, never replaces a
\* link that was made in the meantime.
SagaKeepsOperatorLink ==
  [][\A t \in Tasks : primary[t] # NoBooking /\ primary'[t] # primary[t] => edits' # edits]_vars

\* A purchase whose booking keys are stored does not stay in limbo: the recovery
\* job completes it or hands it to review, across crashes of the job, failed
\* imports and attempts that are ahead of it in the queue.
StoredPurchasesSettle ==
  \A t \in Tasks : t \in Recoverable ~> attempt[t] \in {"completed", "needs_review"}

-----------------------------------------------------------------------------
(* The strengthening that makes the invariants above inductive.            *)

\* A worker is on a task exactly in the middle of one, only handlers purchase,
\* and whoever is on a task found or wrote its attempt.
WorkerShape ==
  /\ \A w \in Workers :
       /\ pc[w] \in {"idle", "next"} <=> target[w] = NoTask
       /\ pc[w] \in {"purchase", "store"} => w \in Handlers
  /\ \A w \in Workers, t \in Tasks :
       target[w] = t \/ t \in todo[w] => attempt[t] # "none"

\* The handler that inserted the attempt of a task is the only one that will
\* purchase for it, and has not done so yet.
PurchaseInv ==
  /\ \A t \in Tasks : attempt[t] = "none" => submissions[t] = 0 /\ orders[t] = 0
  /\ \A h \in Workers, t \in Tasks :
       pc[h] = "purchase" /\ target[h] = t =>
         /\ submissions[t] = 0
         /\ \A g \in Workers \ {h} : ~(pc[g] = "purchase" /\ target[g] = t)

=============================================================================
