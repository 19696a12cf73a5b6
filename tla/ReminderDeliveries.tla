------------------------- MODULE ReminderDeliveries -------------------------
(***************************************************************************)
(* Reminders: the table reminder_deliveries, the dispatch job that fills   *)
(* and drains it, the reconcile job that follows WhatsApp messages at      *)
(* Spielkind Messenger, and the operators who retry what failed.  The two  *)
(* jobs run under two different advisory locks, so they overlap freely.    *)
(*                                                                         *)
(* A delivery is one dedupe key: a booking, a rule and a channel.  A step  *)
(* is one SQL statement or one HTTP exchange.                              *)
(***************************************************************************)
EXTENDS Naturals, FiniteSets

CONSTANTS
  Deliveries,
  WhatsApp,        \* the deliveries whose channel is whatsapp
  Dispatchers,     \* runs of dispatch_reminders
  Syncers,         \* runs of reconcile_messenger_statuses
  NoRun,           \* an advisory lock is free
  NoDelivery,      \* a run is between two deliveries
  BatchSize,       \* LIMIT of the claim
  MaxRetries,      \* bound: operator retries of a delivery
  MaxFaults,       \* bound: runs that die
  MaxLockLosses    \* bound: connections that die while they hold the dispatch lock

Runs == Dispatchers \cup Syncers

ASSUME ReminderAssumption ==
  /\ WhatsApp \subseteq Deliveries
  /\ Dispatchers \cap Syncers = {}
  /\ NoRun \notin Runs
  /\ NoDelivery \notin Deliveries
  /\ BatchSize \in Nat \ {0}
  /\ {MaxRetries, MaxFaults, MaxLockLosses} \subseteq Nat

VARIABLES
  status,       \* reminder_deliveries.status, "absent" before the INSERT
  messageIds,   \* the deliveries with a messenger_message_id
  message,      \* Messenger: status of the message of a delivery, or "none"
  sends,        \* history: times the guest was sent this reminder
  retried,      \* history: operator retries
  dispatchLock, syncLock,   \* holders of the two advisory locks
  pc,           \* where a run stands
  todo,         \* claimed, or listed, deliveries still to come
  current,      \* the delivery a run is working on
  reply,        \* the message status that Messenger answered to a run
  faults, lockLosses

tableVars == <<status, messageIds>>
worldVars == <<message, sends>>
lockVars  == <<dispatchLock, syncLock>>
runVars   == <<pc, todo, current, reply>>
boundVars == <<retried, faults, lockLosses>>
vars == <<tableVars, worldVars, lockVars, runVars, boundVars>>

-----------------------------------------------------------------------------

MessageStatus == {"none", "pending", "sending", "sent", "delivered", "read", "failed"}

Status == {"absent", "pending", "processing", "queued", "sending", "sent", "delivered",
           "read", "failed"}

PC == {"idle", "locked", "created", "batch", "payload", "accepted", "failing",
       "listed", "fetched"}

TypeOK ==
  /\ status \in [Deliveries -> Status]
  /\ messageIds \in SUBSET Deliveries
  /\ message \in [Deliveries -> MessageStatus]
  /\ sends \in [Deliveries -> Nat]
  /\ retried \in [Deliveries -> 0..MaxRetries]
  /\ dispatchLock \in Dispatchers \cup {NoRun}
  /\ syncLock \in Syncers \cup {NoRun}
  /\ pc \in [Runs -> PC]
  /\ todo \in [Runs -> SUBSET Deliveries]
  /\ current \in [Runs -> Deliveries \cup {NoDelivery}]
  /\ reply \in [Runs -> MessageStatus]
  /\ faults \in 0..MaxFaults
  /\ lockLosses \in 0..MaxLockLosses

Init ==
  /\ status = [d \in Deliveries |-> "absent"]
  /\ messageIds = {}
  /\ message = [d \in Deliveries |-> "none"]
  /\ sends = [d \in Deliveries |-> 0]
  /\ retried = [d \in Deliveries |-> 0]
  /\ dispatchLock = NoRun
  /\ syncLock = NoRun
  /\ pc = [r \in Runs |-> "idle"]
  /\ todo = [r \in Runs |-> {}]
  /\ current = [r \in Runs |-> NoDelivery]
  /\ reply = [r \in Runs |-> "none"]
  /\ faults = 0
  /\ lockLosses = 0

Goto(r, next) == pc' = [pc EXCEPT ![r] = next]

\* The status column takes Messenger's word, except that "pending" there is
\* "queued" here.
Stored(s) == IF s = "pending" THEN "queued" ELSE s

-----------------------------------------------------------------------------
(* The dispatch job.                                                       *)

AcquireDispatchLock(r) ==
  /\ pc[r] = "idle"
  /\ dispatchLock = NoRun
  /\ dispatchLock' = r
  /\ Goto(r, "locked")
  /\ UNCHANGED <<tableVars, worldVars, syncLock, todo, current, reply, boundVars>>

\* createDueReminderDeliveries: which bookings are due, and over which channels,
\* is up to the calendar; a dedupe key that is there stays as it is.
CreateDueDeliveries(r) ==
  /\ pc[r] = "locked"
  /\ \E due \in SUBSET {d \in Deliveries : status[d] = "absent"} :
       status' = [d \in Deliveries |-> IF d \in due THEN "pending" ELSE status[d]]
  /\ Goto(r, "created")
  /\ UNCHANGED <<messageIds, worldVars, lockVars, todo, current, reply, boundVars>>

\* Mutant: failed deliveries are dispatched again on their own.
ClaimableFailedToo == {d \in Deliveries : status[d] \in {"pending", "failed"}}

Claimable == {d \in Deliveries : status[d] = "pending"}

ClaimDeliveries(r) ==
  /\ pc[r] = "created"
  /\ \E limit \in 1..BatchSize : \E claimed \in SUBSET Claimable :
       /\ Cardinality(claimed) <= limit
       /\ claimed # Claimable => Cardinality(claimed) = limit
       /\ status' = [d \in Deliveries |-> IF d \in claimed THEN "processing" ELSE status[d]]
       /\ todo' = [todo EXCEPT ![r] = claimed]
  /\ Goto(r, "batch")
  /\ UNCHANGED <<messageIds, worldVars, lockVars, current, reply, boundVars>>

\* getReminderDeliveryPayload: rendered, or nothing to render, or an error.
LoadPayload(r, d) ==
  /\ pc[r] = "batch"
  /\ d \in todo[r]
  /\ todo' = [todo EXCEPT ![r] = @ \ {d}]
  /\ current' = [current EXCEPT ![r] = d]
  /\ \E next \in {"payload", "failing"} : Goto(r, next)
  /\ UNCHANGED <<tableVars, worldVars, lockVars, reply, boundVars>>

\* sendReminderProviderEvent: the repeated POSTs of one call carry one event
\* id and count as one.  The event may arrive although the call fails.
SendEvent(r) ==
  LET d == current[r]
  IN /\ pc[r] = "payload"
     /\ d \notin WhatsApp
     /\ \/ /\ sends' = [sends EXCEPT ![d] = @ + 1]
           /\ \E next \in {"accepted", "failing"} : Goto(r, next)
        \/ /\ Goto(r, "failing")
           /\ UNCHANGED sends
     /\ UNCHANGED <<tableVars, message, lockVars, todo, current, reply, boundVars>>

\* dispatchWhatsAppReminder: without a message id, POST the message under the
\* dedupe key as its idempotency key, else ask for the message to be retried.
\* Messenger sends what is new or has failed, and answers with the status.
SendWhatsApp(r) ==
  LET d == current[r]
      resend == message[d] = "failed" /\ d \in messageIds
  IN /\ pc[r] = "payload"
     /\ d \in WhatsApp
     /\ \/ /\ IF message[d] = "none" \/ resend
              THEN /\ message' = [message EXCEPT ![d] = "pending"]
                   /\ sends' = [sends EXCEPT ![d] = @ + 1]
              ELSE UNCHANGED worldVars
           /\ \/ /\ Goto(r, "accepted")
                 /\ reply' = [reply EXCEPT ![r] = message'[d]]
              \/ /\ Goto(r, "failing")
                 /\ UNCHANGED reply
        \/ /\ Goto(r, "failing")
           /\ UNCHANGED <<worldVars, reply>>
     /\ UNCHANGED <<tableVars, lockVars, todo, current, boundVars>>

\* The run is done with its current delivery.
NextDelivery(r, next) ==
  /\ Goto(r, next)
  /\ current' = [current EXCEPT ![r] = NoDelivery]
  /\ reply' = [reply EXCEPT ![r] = "none"]

\* markReminderDeliverySent, markReminderDeliveryQueued; if the UPDATE fails,
\* the catch clause marks the delivery failed.
MarkAccepted(r) ==
  LET d == current[r]
  IN /\ pc[r] = "accepted"
     /\ \/ /\ IF d \in WhatsApp
              THEN /\ status' = [status EXCEPT ![d] = Stored(reply[r])]
                   /\ messageIds' = messageIds \cup {d}
              ELSE /\ status' = [status EXCEPT ![d] = "sent"]
                   /\ UNCHANGED messageIds
           /\ NextDelivery(r, "batch")
        \/ /\ Goto(r, "failing")
           /\ UNCHANGED <<tableVars, current, reply>>
     /\ UNCHANGED <<worldVars, lockVars, todo, boundVars>>

\* Mutant: a status that the CHECK constraint of the table does not know.
MarkFailedUnknownStatus(r) ==
  /\ pc[r] = "failing"
  /\ status' = [status EXCEPT ![current[r]] = "error"]
  /\ NextDelivery(r, "batch")
  /\ UNCHANGED <<messageIds, worldVars, lockVars, todo, boundVars>>

MarkFailed(r) ==
  /\ pc[r] = "failing"
  /\ status' = [status EXCEPT ![current[r]] = "failed"]
  /\ NextDelivery(r, "batch")
  /\ UNCHANGED <<messageIds, worldVars, lockVars, todo, boundVars>>

\* A run that is over, one way or the other, forgets everything; its lock is
\* released or ends with its session.
LeaveJob(r) ==
  /\ NextDelivery(r, "idle")
  /\ todo' = [todo EXCEPT ![r] = {}]
  /\ dispatchLock' = IF dispatchLock = r THEN NoRun ELSE dispatchLock
  /\ syncLock' = IF syncLock = r THEN NoRun ELSE syncLock

FinishJob(r) ==
  /\ pc[r] \in {"batch", "listed"}
  /\ todo[r] = {}
  /\ LeaveJob(r)
  /\ UNCHANGED <<tableVars, worldVars, boundVars>>

-----------------------------------------------------------------------------
(* The reconcile job.                                                      *)

\* Mutant: runs of the reconcile job overlap.
AcquireSyncLockUnchecked(s) ==
  /\ pc[s] = "idle"
  /\ syncLock' = s
  /\ Goto(s, "locked")
  /\ UNCHANGED <<tableVars, worldVars, dispatchLock, todo, current, reply, boundVars>>

AcquireSyncLock(s) ==
  /\ pc[s] = "idle"
  /\ syncLock = NoRun
  /\ syncLock' = s
  /\ Goto(s, "locked")
  /\ UNCHANGED <<tableVars, worldVars, dispatchLock, todo, current, reply, boundVars>>

Polled == {"queued", "sending", "sent"}

\* Mutant: what is already being sent is not followed any further.
ListDueQueued(s) ==
  /\ pc[s] = "locked"
  /\ todo' = [todo EXCEPT ![s] = {d \in WhatsApp \cap messageIds : status[d] = "queued"}]
  /\ Goto(s, "listed")
  /\ UNCHANGED <<tableVars, worldVars, lockVars, current, reply, boundVars>>

\* The LIMIT of 100 is taken as never reached.
ListDue(s) ==
  /\ pc[s] = "locked"
  /\ todo' = [todo EXCEPT ![s] = {d \in WhatsApp \cap messageIds : status[d] \in Polled}]
  /\ Goto(s, "listed")
  /\ UNCHANGED <<tableVars, worldVars, lockVars, current, reply, boundVars>>

GetMessage(s, d) ==
  /\ pc[s] = "listed"
  /\ d \in todo[s]
  /\ todo' = [todo EXCEPT ![s] = @ \ {d}]
  /\ current' = [current EXCEPT ![s] = d]
  /\ reply' = [reply EXCEPT ![s] = message[d]]
  /\ Goto(s, "fetched")
  /\ UNCHANGED <<tableVars, worldVars, lockVars, boundVars>>

\* Messenger does not answer: only last_status_sync_at is written.
GetMessageFails(s, d) ==
  /\ pc[s] = "listed"
  /\ d \in todo[s]
  /\ todo' = [todo EXCEPT ![s] = @ \ {d}]
  /\ UNCHANGED <<tableVars, worldVars, lockVars, pc, current, reply, boundVars>>

\* The UPDATE by id writes the answer over whatever the status has become.
WriteStatus(s) ==
  /\ pc[s] = "fetched"
  /\ status' = [status EXCEPT ![current[s]] = Stored(reply[s])]
  /\ NextDelivery(s, "listed")
  /\ UNCHANGED <<messageIds, worldVars, lockVars, todo, boundVars>>

-----------------------------------------------------------------------------
(* Operators, Messenger, and failures.                                     *)

\* retryReminderDelivery.
AdminRetry(d) ==
  /\ status[d] = "failed"
  /\ retried[d] < MaxRetries
  /\ retried' = [retried EXCEPT ![d] = @ + 1]
  /\ status' = [status EXCEPT ![d] = "pending"]
  /\ UNCHANGED <<messageIds, worldVars, lockVars, runVars, faults, lockLosses>>

\* A message moves on at Messenger, or is rejected.
MessageProgress(d) ==
  /\ \/ /\ message[d] = "pending"
        /\ \E s \in {"sending", "failed"} : message' = [message EXCEPT ![d] = s]
     \/ /\ message[d] = "sending"
        /\ \E s \in {"sent", "failed"} : message' = [message EXCEPT ![d] = s]
     \/ /\ message[d] = "sent"
        /\ \E s \in {"delivered", "failed"} : message' = [message EXCEPT ![d] = s]
     \/ /\ message[d] = "delivered"
        /\ message' = [message EXCEPT ![d] = "read"]
  /\ UNCHANGED <<tableVars, sends, lockVars, runVars, boundVars>>

\* The process of a run dies, or a statement that nothing catches fails.
Crash(r) ==
  /\ pc[r] # "idle"
  /\ faults < MaxFaults
  /\ faults' = faults + 1
  /\ LeaveJob(r)
  /\ UNCHANGED <<tableVars, worldVars, retried, lockLosses>>

\* PostgreSQL ends the session that holds the dispatch lock; the run goes on.
LoseDispatchLock ==
  /\ dispatchLock # NoRun
  /\ lockLosses < MaxLockLosses
  /\ lockLosses' = lockLosses + 1
  /\ dispatchLock' = NoRun
  /\ UNCHANGED <<tableVars, worldVars, syncLock, runVars, retried, faults>>

-----------------------------------------------------------------------------

DispatchStep(r) ==
  \/ CreateDueDeliveries(r)
  \/ ClaimDeliveries(r)
  \/ \E d \in Deliveries : LoadPayload(r, d)
  \/ SendEvent(r)
  \/ SendWhatsApp(r)
  \/ MarkAccepted(r)
  \/ MarkFailed(r)
  \/ FinishJob(r)

SyncStep(s) ==
  \/ ListDue(s)
  \/ \E d \in Deliveries : GetMessage(s, d) \/ GetMessageFails(s, d)
  \/ WriteStatus(s)
  \/ FinishJob(s)

Next ==
  \/ \E r \in Dispatchers : AcquireDispatchLock(r) \/ DispatchStep(r)
  \/ \E s \in Syncers : AcquireSyncLock(s) \/ SyncStep(s)
  \/ \E d \in Deliveries : AdminRetry(d) \/ MessageProgress(d)
  \/ \E r \in Runs : Crash(r)
  \/ LoseDispatchLock

Spec == Init /\ [][Next]_vars

\* The scheduler starts the reconcile job again and again, a run goes on, and
\* Messenger answers those who ask often enough.
FairSpec ==
  /\ Spec
  /\ WF_vars(\E s \in Syncers : AcquireSyncLock(s))
  /\ \A s \in Syncers : WF_vars(SyncStep(s))
  /\ \A d \in Deliveries : SF_vars(\E s \in Syncers : GetMessage(s, d))

-----------------------------------------------------------------------------
(* Properties.                                                             *)

\* A guest receives a reminder once, plus at most once for every time an
\* operator asked for it again: not for an overlapping run after a lost lock, a
\* crash between sending and marking, an ambiguous answer of the provider, or a
\* status the reconcile job writes (sendReminderProviderEvent has no memory of
\* its own, so the claim has to see to it).
SentOnceUnlessRetried == \A d \in Deliveries : sends[d] <= 1 + retried[d]

\* The reconcile job, whose lock does not exclude the dispatch job and whose
\* UPDATE has no guard, never undoes a retry and never settles a delivery that
\* a run is dispatching: a delivery leaves "pending" when it is claimed and
\* "processing" when the run that works on it settles it.
DispatchUndisturbed ==
  [][\A d \in Deliveries :
       /\ status[d] = "pending" => status'[d] \in {"pending", "processing"}
       /\ status[d] = "processing" /\ status'[d] # "processing" =>
            \E r \in Dispatchers : current[r] = d /\ current'[r] = NoDelivery]_vars

\* What became of an accepted message reaches the table: a delivery whose
\* message Messenger has delivered or given up on does not stay "queued".
OutcomesReported ==
  \A d \in Deliveries :
    status[d] \in Polled /\ message[d] \in {"delivered", "read", "failed"} ~> status[d] \notin Polled

\* The deliveries a run has claimed, or listed, and not settled yet.
Held(r) == todo[r] \cup ({current[r]} \ {NoDelivery})

\* The deliveries as a claim queue: what a dispatching run holds is its own; what
\* a provider has taken is done, until Messenger reports that it failed.
QueueState ==
  [d \in Deliveries |-> CASE status[d] = "absent" -> "absent"
                          [] status[d] = "pending" -> "ready"
                          [] status[d] = "processing" -> "claimed"
                          [] status[d] = "failed" -> "failed"
                          [] OTHER -> "done"]

QueueOwner ==
  [d \in Deliveries |-> IF \E r \in Dispatchers : d \in Held(r)
                        THEN CHOOSE r \in Dispatchers : d \in Held(r) ELSE NoRun]

Queue == INSTANCE ClaimQueue WITH Items <- Deliveries, Workers <- Dispatchers, NoWorker <- NoRun,
                                  Revocable <- WhatsApp, state <- QueueState, owner <- QueueOwner

\* Every step of the two jobs, of Messenger and of the operators is a step of the
\* claim queue or invisible to it: overlapping runs hand no delivery over twice,
\* a crash leaves its batch claimed for good, only an operator sends again, and
\* all the reconcile job can do to a delivery is to declare a WhatsApp one failed.
ImplementsQueue == Queue!Spec

-----------------------------------------------------------------------------
(* The strengthenings that make the invariants above inductive.            *)

\* Which steps the runs of which job take, when a run has a current delivery,
\* and that a message that was answered or stored exists at Messenger.
RunShape ==
  /\ \A r \in Dispatchers : pc[r] \notin {"listed", "fetched"}
  /\ \A s \in Syncers :
       /\ pc[s] \in {"idle", "locked", "listed", "fetched"}
       /\ todo[s] \subseteq messageIds
  /\ \A r \in Runs :
       /\ pc[r] \in {"payload", "accepted", "failing", "fetched"} <=> current[r] # NoDelivery
       /\ pc[r] \in {"idle", "locked", "created"} => todo[r] = {}
       /\ pc[r] = "accepted" /\ current[r] \in WhatsApp =>
            reply[r] # "none" /\ message[current[r]] # "none"
       /\ pc[r] = "fetched" => reply[r] # "none"
       /\ current[r] \notin todo[r]
  /\ \A d \in messageIds : message[d] # "none"

\* What a dispatching run holds is "processing" and its own; what the one
\* reconcile run at a time holds is still polled.
HeldInv ==
  /\ \A r \in Dispatchers : \A d \in Held(r) : status[d] = "processing"
  /\ \A r, q \in Dispatchers : r # q => Held(r) \cap Held(q) = {}
  /\ \A s \in Syncers : pc[s] # "idle" => syncLock = s
  /\ \A s \in Syncers : \A d \in Held(s) : status[d] \in Polled

\* Before it is sent, a delivery has been sent no more often than retried.
SendsInv ==
  /\ \A d \in Deliveries :
       /\ sends[d] <= 1 + retried[d]
       /\ status[d] \in {"absent", "pending"} => sends[d] <= retried[d]
  /\ \A r \in Dispatchers :
       /\ \A d \in todo[r] : sends[d] <= retried[d]
       /\ pc[r] = "payload" => sends[current[r]] <= retried[current[r]]

=============================================================================
