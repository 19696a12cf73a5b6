----------------------------- MODULE MCSettling -----------------------------
(* What must come to an end, under the fairness of the scheduler: purchases   *)
(* for tasks, events of the inbox, outcomes of a reminder.  They share no     *)
(* state, so a behaviour is one of one of them.  The purchases come in two    *)
(* situations: two requests and operators at one task, with two crashes; and  *)
(* two tasks that one handler books and a recovery run of limit one           *)
(* completes, with one crash.                                                 *)
EXTENDS TaskBookingAttempts

CONSTANTS
  h1, h2, t1, t2,
  Booked, Runners, NoRunner, NoEvent, MaxAttempts, MaxVersion, MaxAdminRetries, MaxFaults,
  Sent, Dispatchers, Syncers, NoRun, NoDelivery, BatchSize, MaxRetries

VARIABLES
  situation,
  provider, status, attempts, available, createdAt, inserts, lock, progress, batch, current,
  snapshot, stored, elsewhere, overtaken, late, retried, faults, lockLosses,
  delivery, messageIds, message, sends, resent, dispatchLock, syncLock, stage, listed, picked,
  reply, deaths, sessions

Inbox ==
  INSTANCE RegiondoWebhookInbox
    WITH Bookings <- Booked, Importers <- {}, MaxLockLosses <- 0, pc <- progress

\* The deliveries are named as tasks are: one fairness formula serves both.
Reminders ==
  INSTANCE ReminderDeliveries
    WITH Deliveries <- Sent, WhatsApp <- Sent, MaxFaults <- 0, MaxLockLosses <- 0,
         status <- delivery, retried <- resent, pc <- stage, todo <- listed,
         current <- picked, faults <- deaths, lockLosses <- sessions

\* What the modules assume of their constants.
ASSUME PartsAssumption == Inbox!InboxAssumption /\ Reminders!ReminderAssumption

inboxVars ==
  <<provider, status, attempts, available, createdAt, inserts, lock, progress, batch, current,
    snapshot, stored, elsewhere, overtaken, late, retried, faults, lockLosses>>

reminderVars ==
  <<delivery, messageIds, message, sends, resent, dispatchLock, syncLock, stage, listed, picked,
    reply, deaths, sessions>>

all == <<situation, vars, inboxVars, reminderVars>>

BuysForTasks == situation \in {"one task", "two tasks"}

MCInit ==
  /\ situation \in {"one task", "two tasks", "inbox", "reminders"}
  /\ Init /\ Inbox!Init /\ Reminders!Init

TaskPart ==
  /\ BuysForTasks
  /\ Next
  /\ IF situation = "one task"
     THEN <<attempt[t2], primary[t2], links[t2], t2 \in deleted>>' =
          <<attempt[t2], primary[t2], links[t2], t2 \in deleted>>
     ELSE pc'[h2] = "idle" /\ edits' = 0 /\ crashes' <= 1
  /\ UNCHANGED <<situation, inboxVars, reminderVars>>

InboxPart == situation = "inbox" /\ Inbox!Next /\ UNCHANGED <<situation, vars, reminderVars>>

ReminderPart ==
  situation = "reminders" /\ Reminders!Next /\ UNCHANGED <<situation, vars, inboxVars>>

MCNext == TaskPart \/ InboxPart \/ ReminderPart

\* The fairness of the three modules.  Regiondo publishes the snapshot of an
\* order, and Messenger answers, to those who ask often enough.
MCFairness ==
  /\ \A j \in Jobs : WF_vars(BuysForTasks /\ (StartJob(j) \/ NextCandidate(j)))
  /\ \A w \in Workers : WF_vars(BuysForTasks /\ RecoveryStep(w))
  /\ WF_inboxVars(situation = "inbox" /\ \E r \in Runners : Inbox!AcquireLock(r))
  /\ \A r \in Runners : WF_inboxVars(situation = "inbox" /\ Inbox!Progress(r))
  /\ \A e \in Inbox!Events : WF_inboxVars(situation = "inbox" /\ Inbox!BackoffElapses(e))
  /\ WF_reminderVars(situation = "reminders" /\ \E s \in Syncers : Reminders!AcquireSyncLock(s))
  /\ \A s \in Syncers : WF_reminderVars(situation = "reminders" /\ Reminders!SyncStep(s))
  /\ \A x \in Tasks :
       SF_<<vars, reminderVars>>(
         \/ /\ BuysForTasks
            /\ \E w \in Workers : ImportSnapshot(w, x)
            /\ UNCHANGED reminderVars
         \/ /\ situation = "reminders"
            /\ x \in Sent /\ \E s \in Syncers : Reminders!GetMessage(s, x)
            /\ UNCHANGED vars)

MCSpec == MCInit /\ [][MCNext]_all /\ MCFairness

\* The properties of the two instances, in the behaviours that are theirs.
AcceptedEventsSettleOrAreLeft == situation = "inbox" => Inbox!AcceptedEventsSettleOrAreLeft
OutcomesReported == situation = "reminders" => Reminders!OutcomesReported
=============================================================================
