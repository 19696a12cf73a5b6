------------------------- MODULE ExternalTaskIntake -------------------------
(***************************************************************************)
(* Tasks that arrive from outside, from the client-email service and from  *)
(* the support form of the client app, once per external message.  A post  *)
(* is one transaction behind an advisory lock on its message, and then a   *)
(* read of the task for the answer; the support form links its event to    *)
(* the client in a statement of its own.  The tasks go to the board.       *)
(***************************************************************************)
EXTENDS TaskBoard

CONSTANTS
  Messages,         \* source and externalMessageId
  SupportMessages,  \* those of the client app, made up for one request
  Payloads,         \* what hashExternalClientEmailTaskInput tells apart
  NoMessage, NoPayload

ASSUME ExternalTaskIntakeAssumption ==
  SupportMessages \subseteq Messages /\ NoMessage \notin Messages /\ NoPayload \notin Payloads

VARIABLES
  event,   \* external_task_intake_events: [task, hash, linked], by message
  intake,  \* the post of a request: [stage, message, hash, task]
  origin,  \* tasks.raw_json.external_intake: [message, hash]
  reply    \* the last answer to a request

intakeVars == <<event, intake, origin, reply>>

NoEvent == [task |-> NoTask, hash |-> NoPayload, linked |-> FALSE]
NoIntake == [stage |-> "idle", message |-> NoMessage, hash |-> NoPayload, task |-> NoTask]

IntakeTypeOK ==
  /\ event \in [Messages -> [task : Tasks \cup {NoTask}, hash : Payloads \cup {NoPayload},
                             linked : BOOLEAN]]
  /\ intake \in [Requests -> [stage : {"idle", "inserting", "created", "duplicate", "linking"},
                              message : Messages \cup {NoMessage},
                              hash : Payloads \cup {NoPayload}, task : Tasks \cup {NoTask}]]
  /\ origin \in [Tasks -> [message : Messages \cup {NoMessage}, hash : Payloads \cup {NoPayload}]]
  /\ reply \in [Requests -> {"none", "created", "duplicate", "conflict", "not found"}]

IntakeInit ==
  /\ Init
  /\ event = [m \in Messages |-> NoEvent]
  /\ intake = [r \in Requests |-> NoIntake]
  /\ origin = [t \in Tasks |-> [message |-> NoMessage, hash |-> NoPayload]]
  /\ reply = [r \in Requests |-> "none"]

Answer(r, a) == reply' = [reply EXCEPT ![r] = a]

-----------------------------------------------------------------------------

\* A post takes the lock of its message; the support form makes up a new one.
MayPost(r, m) ==
  /\ work[r] = Idle /\ intake[r] = NoIntake
  /\ \A q \in Requests : ~(intake[q].stage = "inserting" /\ intake[q].message = m)
  /\ m \in SupportMessages => event[m] = NoEvent /\ \A q \in Requests : intake[q].message # m

\* createExternalClientEmailTask, a message that is new: its column and owner
\* are resolved as for any new task.
BeginIntake(r, m, h, t) ==
  /\ MayPost(r, m)
  /\ event[m] = NoEvent
  /\ intake' = [intake EXCEPT ![r] = [stage |-> "inserting", message |-> m, hash |-> h, task |-> t]]
  /\ ResolveForCreate(r, t)
  /\ Answer(r, "none")
  /\ UNCHANGED <<event, origin>>

\* Mutant: the event is written after the transaction, and may be lost.
CommitIntakeTaskOnly(r) ==
  LET i == intake[r] IN
  /\ i.stage = "inserting"
  /\ Written(r)
  /\ Done(r, FALSE)
  /\ origin' = [origin EXCEPT ![i.task] = [message |-> i.message, hash |-> i.hash]]
  /\ intake' = [intake EXCEPT ![r].stage = "created"]
  /\ UNCHANGED <<position, title, gap, event, reply>>

\* The task and its event are inserted together.
CommitIntake(r) ==
  LET i == intake[r] IN
  /\ i.stage = "inserting"
  /\ event[i.message] = NoEvent
  /\ Written(r)
  /\ Done(r, FALSE)
  /\ event' = [event EXCEPT ![i.message] = [task |-> i.task, hash |-> i.hash, linked |-> FALSE]]
  /\ origin' = [origin EXCEPT ![i.task] = [message |-> i.message, hash |-> i.hash]]
  /\ intake' = [intake EXCEPT ![r].stage = "created"]
  /\ UNCHANGED <<position, title, gap, reply>>

\* A message that is known: its task is the answer, or 409.
RepeatIntake(r, m, h) ==
  /\ MayPost(r, m)
  /\ event[m] # NoEvent
  /\ IF event[m].hash = h
     THEN /\ intake' = [intake EXCEPT ![r] = [stage |-> "duplicate", message |-> m, hash |-> h,
                                              task |-> event[m].task]]
          /\ Answer(r, "none")
     ELSE Answer(r, "conflict") /\ UNCHANGED intake
  /\ UNCHANGED <<vars, event, origin>>

\* getTask, after the commit; it does not find a task that was deleted.
AnswerIntake(r) ==
  LET i == intake[r]
      found == task[i.task].state = "live" IN
  /\ i.stage \in {"created", "duplicate"}
  /\ Answer(r, IF found THEN i.stage ELSE "not found")
  /\ intake' = IF found /\ i.message \in SupportMessages THEN [intake EXCEPT ![r].stage = "linking"]
               ELSE [intake EXCEPT ![r] = NoIntake]
  /\ UNCHANGED <<vars, event, origin>>

\* The route of the support form adds the client, the booking and the place.
LinkEvent(r) ==
  /\ intake[r].stage = "linking"
  /\ event' = [event EXCEPT ![intake[r].message].linked = TRUE]
  /\ intake' = [intake EXCEPT ![r] = NoIntake]
  /\ UNCHANGED <<vars, origin, reply>>

\* The transaction fails, or the process dies after it.
AbortIntake(r) ==
  /\ intake[r] # NoIntake
  /\ Done(r, FALSE)
  /\ intake' = [intake EXCEPT ![r] = NoIntake]
  /\ UNCHANGED <<position, title, task, gap, raced, event, origin, reply>>

IntakeRequest(r) ==
  \/ \E m \in Messages, h \in Payloads :
       RepeatIntake(r, m, h) \/ \E t \in Tasks : BeginIntake(r, m, h, t)
  \/ CommitIntake(r) \/ AnswerIntake(r) \/ LinkEvent(r) \/ AbortIntake(r)

\* The operators at the board, meanwhile.
BoardStep ==
  /\ \/ \E r \in Requests : intake[r] = NoIntake /\ Request(r)
     \/ \E t \in Tasks : DeleteOrRestore(t)
  /\ UNCHANGED intakeVars

IntakeNext == BoardStep \/ \E r \in Requests : IntakeRequest(r)

IntakeSpec == IntakeInit /\ [][IntakeNext]_<<vars, intakeVars>>

-----------------------------------------------------------------------------

\* A message makes one task, whatever is posted again, at once, or after a
\* crash; its event names that task and the payload the task was made of.
IntakeOnce ==
  \A t \in Tasks :
    LET o == origin[t] IN
    o.message # NoMessage => event[o.message].task = t /\ event[o.message].hash = o.hash

\* A message that is posted again with the same payload is answered with the
\* task that it made (README).
RepostsReturnTheTask ==
  [][\A r \in Requests :
       intake[r].stage = "duplicate" /\ reply'[r] # "none" => reply'[r] = "duplicate"]_<<vars, intakeVars>>
=============================================================================
