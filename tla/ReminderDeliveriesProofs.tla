---------------------- MODULE ReminderDeliveriesProofs ----------------------
(***************************************************************************)
(* What ReminderDeliveries guarantees for every number of deliveries, runs *)
(* of the two jobs, retries, crashes and lost dispatch locks.              *)
(***************************************************************************)
EXTENDS ReminderDeliveries, TLAPS

\* The columns of reminder_deliveries and the memory of the runs keep their
\* types, and no status is ever taken from a message that does not exist.
THEOREM TypeCorrect == Spec => [](TypeOK /\ RunShape)
<1> DEFINE Inv == TypeOK /\ RunShape
<1> USE ReminderAssumption DEF Runs
<1>1. Init => Inv
  <2>1. Init => TypeOK
    BY DEF Init, TypeOK, Status, MessageStatus, PC
  <2>2. Init => RunShape
    BY DEF Init, RunShape
  <2> QED
    BY <2>1, <2>2
<1>2. Inv /\ [Next]_vars => Inv'
  <2> SUFFICES ASSUME TypeOK, RunShape, [Next]_vars
               PROVE  TypeOK' /\ RunShape'
    OBVIOUS
  <2> USE DEF tableVars, worldVars, lockVars, runVars, boundVars
  <2>1. ASSUME NEW r \in Dispatchers, AcquireDispatchLock(r) PROVE Inv'
    <3>1. TypeOK'
      BY <2>1 DEF AcquireDispatchLock, Goto, TypeOK, PC
    <3>2. RunShape'
      BY <2>1 DEF AcquireDispatchLock, Goto, TypeOK, RunShape
    <3> QED
      BY <3>1, <3>2
  <2>2. ASSUME NEW r \in Dispatchers, CreateDueDeliveries(r) PROVE Inv'
    <3>1. TypeOK'
      BY <2>2 DEF CreateDueDeliveries, Goto, TypeOK, PC, Status
    <3>2. RunShape'
      BY <2>2 DEF CreateDueDeliveries, Goto, TypeOK, RunShape
    <3> QED
      BY <3>1, <3>2
  <2>3. ASSUME NEW r \in Dispatchers, ClaimDeliveries(r) PROVE Inv'
    <3>1. PICK claimed \in SUBSET Claimable :
            /\ status' = [d \in Deliveries |-> IF d \in claimed THEN "processing" ELSE status[d]]
            /\ todo' = [todo EXCEPT ![r] = claimed]
      BY <2>3 DEF ClaimDeliveries
    <3>2. claimed \in SUBSET Deliveries
      BY DEF Claimable
    <3>3. TypeOK'
      BY <2>3, <3>1, <3>2 DEF ClaimDeliveries, Goto, TypeOK, PC, Status
    <3>4. RunShape'
      BY <2>3, <3>1, <3>2 DEF ClaimDeliveries, Goto, TypeOK, RunShape
    <3> QED
      BY <3>3, <3>4
  <2>4. ASSUME NEW r \in Dispatchers, NEW d \in Deliveries, LoadPayload(r, d) PROVE Inv'
    <3>1. TypeOK'
      BY <2>4 DEF LoadPayload, Goto, TypeOK, PC
    <3>2. RunShape'
      BY <2>4 DEF LoadPayload, Goto, TypeOK, RunShape
    <3> QED
      BY <3>1, <3>2
  <2>5. ASSUME NEW r \in Dispatchers, SendEvent(r) PROVE Inv'
    <3>0. current[r] \in Deliveries \ WhatsApp
      BY <2>5 DEF SendEvent, TypeOK, RunShape
    <3>1. TypeOK'
      BY <2>5, <3>0 DEF SendEvent, Goto, TypeOK, PC
    <3>2. RunShape'
      BY <2>5, <3>0 DEF SendEvent, Goto, TypeOK, RunShape
    <3> QED
      BY <3>1, <3>2
  <2>6. ASSUME NEW r \in Dispatchers, SendWhatsApp(r) PROVE Inv'
    <3> DEFINE d == current[r]
    <3>0. d \in Deliveries
      BY <2>6 DEF SendWhatsApp, TypeOK, RunShape
    <3>1. \/ UNCHANGED <<message, sends>>
          \/ /\ message' = [message EXCEPT ![d] = "pending"]
             /\ sends' = [sends EXCEPT ![d] = @ + 1]
      BY <2>6 DEF SendWhatsApp
    <3>2. \/ /\ pc' = [pc EXCEPT ![r] = "accepted"]
             /\ reply' = [reply EXCEPT ![r] = message'[d]]
             /\ message'[d] # "none"
          \/ /\ pc' = [pc EXCEPT ![r] = "failing"]
             /\ reply' = reply
      BY <2>6, <3>0 DEF SendWhatsApp, Goto, TypeOK
    <3>3. UNCHANGED <<tableVars, lockVars, todo, current, boundVars>> /\ pc[r] = "payload"
      BY <2>6 DEF SendWhatsApp
    <3>4. message' \in [Deliveries -> MessageStatus] /\ sends' \in [Deliveries -> Nat]
      BY <3>0, <3>1 DEF TypeOK, MessageStatus
    <3>5. TypeOK'
      BY <3>0, <3>2, <3>3, <3>4 DEF TypeOK, PC
    <3>6. \A e \in Deliveries : message[e] # "none" => message'[e] # "none"
      BY <3>0, <3>1 DEF TypeOK
    <3>7. RunShape'
      BY <3>0, <3>2, <3>3, <3>6 DEF TypeOK, RunShape
    <3> QED
      BY <3>5, <3>7
  <2>7. ASSUME NEW r \in Dispatchers, MarkAccepted(r) PROVE Inv'
    <3> DEFINE d == current[r]
    <3>0. d \in Deliveries
      BY <2>7 DEF MarkAccepted, TypeOK, RunShape
    <3>1. CASE pc' = [pc EXCEPT ![r] = "failing"] /\ UNCHANGED <<tableVars, current, reply>>
      BY <2>7, <3>1 DEF MarkAccepted, TypeOK, RunShape, PC
    <3>2. CASE d \in WhatsApp /\ status' = [status EXCEPT ![d] = Stored(reply[r])]
               /\ messageIds' = messageIds \cup {d} /\ NextDelivery(r, "batch")
      <4>1. Stored(reply[r]) \in Status /\ message[d] # "none"
        BY <2>7, <3>2 DEF MarkAccepted, Stored, RunShape, TypeOK, MessageStatus, Status
      <4>2. TypeOK'
        BY <2>7, <3>0, <3>2, <4>1
        DEF MarkAccepted, NextDelivery, Goto, TypeOK, PC, MessageStatus
      <4>3. RunShape'
        BY <2>7, <3>2, <4>1 DEF MarkAccepted, NextDelivery, Goto, TypeOK, RunShape
      <4> QED
        BY <4>2, <4>3
    <3>3. CASE status' = [status EXCEPT ![d] = "sent"] /\ messageIds' = messageIds
               /\ NextDelivery(r, "batch")
      <4>2. TypeOK'
        BY <2>7, <3>0, <3>3 DEF MarkAccepted, NextDelivery, Goto, TypeOK, PC, Status, MessageStatus
      <4>3. RunShape'
        BY <2>7, <3>3 DEF MarkAccepted, NextDelivery, Goto, TypeOK, RunShape
      <4> QED
        BY <4>2, <4>3
    <3> QED
      BY <2>7, <3>1, <3>2, <3>3 DEF MarkAccepted, Goto
  <2>8. ASSUME NEW r \in Dispatchers, MarkFailed(r) PROVE Inv'
    <3>1. TypeOK'
      BY <2>8 DEF MarkFailed, NextDelivery, Goto, TypeOK, RunShape, PC, Status, MessageStatus
    <3>2. RunShape'
      BY <2>8 DEF MarkFailed, NextDelivery, Goto, TypeOK, RunShape
    <3> QED
      BY <3>1, <3>2
  <2>9. ASSUME NEW s \in Syncers, AcquireSyncLock(s) PROVE Inv'
    <3>1. TypeOK'
      BY <2>9 DEF AcquireSyncLock, Goto, TypeOK, PC
    <3>2. RunShape'
      BY <2>9 DEF AcquireSyncLock, Goto, TypeOK, RunShape
    <3> QED
      BY <3>1, <3>2
  <2>10. ASSUME NEW s \in Syncers, ListDue(s) PROVE Inv'
    <3>1. TypeOK'
      BY <2>10 DEF ListDue, Goto, TypeOK, PC
    <3>2. RunShape'
      BY <2>10 DEF ListDue, Goto, TypeOK, RunShape
    <3> QED
      BY <3>1, <3>2
  <2>11. ASSUME NEW s \in Syncers, NEW d \in Deliveries, GetMessage(s, d) PROVE Inv'
    <3>0. message[d] # "none"
      BY <2>11 DEF GetMessage, RunShape
    <3>1. TypeOK'
      BY <2>11 DEF GetMessage, Goto, TypeOK, PC
    <3>2. RunShape'
      BY <2>11, <3>0 DEF GetMessage, Goto, TypeOK, RunShape
    <3> QED
      BY <3>1, <3>2
  <2>12. ASSUME NEW s \in Syncers, NEW d \in Deliveries, GetMessageFails(s, d) PROVE Inv'
    <3>1. TypeOK'
      BY <2>12 DEF GetMessageFails, TypeOK
    <3>2. RunShape'
      BY <2>12 DEF GetMessageFails, TypeOK, RunShape
    <3> QED
      BY <3>1, <3>2
  <2>13. ASSUME NEW s \in Syncers, WriteStatus(s) PROVE Inv'
    <3>0. Stored(reply[s]) \in Status
      BY <2>13 DEF WriteStatus, Stored, RunShape, TypeOK, MessageStatus, Status
    <3>1. TypeOK'
      BY <2>13, <3>0 DEF WriteStatus, NextDelivery, Goto, TypeOK, PC, MessageStatus
    <3>2. RunShape'
      BY <2>13 DEF WriteStatus, NextDelivery, Goto, TypeOK, RunShape
    <3> QED
      BY <3>1, <3>2
  <2>14. ASSUME NEW r \in Runs, FinishJob(r) \/ Crash(r) PROVE Inv'
    <3>1. LeaveJob(r) /\ faults' \in 0..MaxFaults
          /\ UNCHANGED <<tableVars, worldVars, retried, lockLosses>>
      BY <2>14 DEF FinishJob, Crash, TypeOK
    <3>2. TypeOK'
      BY <3>1 DEF LeaveJob, NextDelivery, Goto, TypeOK, PC, MessageStatus
    <3>3. RunShape'
      BY <3>1 DEF LeaveJob, NextDelivery, Goto, TypeOK, RunShape
    <3> QED
      BY <3>2, <3>3
  <2>15. ASSUME NEW d \in Deliveries, AdminRetry(d) PROVE Inv'
    <3>1. TypeOK'
      BY <2>15 DEF AdminRetry, TypeOK, Status
    <3>2. RunShape'
      BY <2>15 DEF AdminRetry, RunShape
    <3> QED
      BY <3>1, <3>2
  <2>16. ASSUME NEW d \in Deliveries, MessageProgress(d) PROVE Inv'
    <3>1. message' \in [Deliveries -> MessageStatus]
          /\ \A e \in Deliveries : message[e] # "none" => message'[e] # "none"
      BY <2>16 DEF MessageProgress, TypeOK, MessageStatus
    <3>2. TypeOK'
      BY <2>16, <3>1 DEF MessageProgress, TypeOK
    <3>3. RunShape'
      BY <2>16, <3>1 DEF MessageProgress, TypeOK, RunShape
    <3> QED
      BY <3>2, <3>3
  <2>17. CASE LoseDispatchLock
    BY <2>17 DEF LoseDispatchLock, TypeOK, RunShape
  <2>18. CASE UNCHANGED vars
    BY <2>18 DEF vars, TypeOK, RunShape
  <2> QED
    BY <2>1, <2>2, <2>3, <2>4, <2>5, <2>6, <2>7, <2>8, <2>9, <2>10, <2>11, <2>12, <2>13,
       <2>14, <2>15, <2>16, <2>17, <2>18 DEF Next, DispatchStep, SyncStep
<1> QED
  BY <1>1, <1>2, PTL DEF Spec

-----------------------------------------------------------------------------

\* The status column and the lock of the reconcile job divide the deliveries
\* between the runs: no two runs hold one, whatever becomes of the lock of the
\* dispatch job.
LEMMA DeliveriesHeldOnce == Spec => []HeldInv
<1> USE ReminderAssumption DEF Runs
<1>1. Init => HeldInv
  BY DEF Init, HeldInv, Held
<1>2. TypeOK /\ RunShape /\ HeldInv /\ [Next]_vars => HeldInv'
  <2> SUFFICES ASSUME TypeOK, RunShape, HeldInv, [Next]_vars
               PROVE  HeldInv'
    OBVIOUS
  <2> USE DEF tableVars, worldVars, lockVars, runVars, boundVars
  <2>a. \A r \in Runs : Held(r) \subseteq Deliveries
    BY DEF Held, TypeOK
  <2>b. \A r \in Dispatchers, s \in Syncers : Held(r) \cap Held(s) = {}
    BY DEF HeldInv, Polled
  <2>1. ASSUME NEW r \in Dispatchers, AcquireDispatchLock(r) \/ CreateDueDeliveries(r)
        PROVE  HeldInv'
    <3>1. UNCHANGED <<todo, current, syncLock>>
      BY <2>1 DEF AcquireDispatchLock, CreateDueDeliveries
    <3>2. \A q \in Runs : Held(q)' = Held(q)
      BY <3>1 DEF Held
    <3>3. \A d \in Deliveries : status[d] # "absent" => status'[d] = status[d]
      BY <2>1 DEF AcquireDispatchLock, CreateDueDeliveries, TypeOK
    <3>4. \A s \in Syncers : pc'[s] = pc[s]
      BY <2>1 DEF AcquireDispatchLock, CreateDueDeliveries, Goto, TypeOK
    <3> HIDE DEF Held
    <3> QED
      BY <2>a, <3>1, <3>2, <3>3, <3>4 DEF HeldInv, Polled
  <2>2. ASSUME NEW r \in Dispatchers, ClaimDeliveries(r) PROVE HeldInv'
    <3>1. PICK claimed \in SUBSET Claimable :
            /\ status' = [d \in Deliveries |-> IF d \in claimed THEN "processing" ELSE status[d]]
            /\ todo' = [todo EXCEPT ![r] = claimed]
      BY <2>2 DEF ClaimDeliveries
    <3>2. UNCHANGED <<current, syncLock>> /\ \A s \in Syncers : pc'[s] = pc[s]
      BY <2>2 DEF ClaimDeliveries, Goto, TypeOK
    <3>3. current[r] = NoDelivery
      BY <2>2 DEF ClaimDeliveries, RunShape
    <3>4. \A d \in claimed : d \in Deliveries /\ status[d] = "pending"
      BY DEF Claimable
    <3>5. Held(r)' = claimed /\ \A q \in Runs \ {r} : Held(q)' = Held(q)
      BY <3>1, <3>2, <3>3, <3>4 DEF Held, TypeOK
    <3> QED
      BY <2>a, <3>1, <3>2, <3>4, <3>5 DEF HeldInv, Polled
  <2>3. ASSUME NEW r \in Runs, NEW d \in Deliveries, d \in todo[r], current[r] = NoDelivery,
               todo' = [todo EXCEPT ![r] = @ \ {d}], current' = [current EXCEPT ![r] = d],
               UNCHANGED <<status, syncLock>>, \A s \in Syncers : pc'[s] # "idle" => pc[s] # "idle"
        PROVE  HeldInv'
    <3>1. \A q \in Runs : Held(q)' = Held(q)
      BY <2>3 DEF Held, TypeOK
    <3> HIDE DEF Held
    <3> QED
      BY <2>3, <3>1 DEF HeldInv
  <2>4. ASSUME NEW r \in Dispatchers, NEW d \in Deliveries, LoadPayload(r, d) PROVE HeldInv'
    BY <2>3, <2>4 DEF LoadPayload, Goto, RunShape, TypeOK
  <2>5. ASSUME NEW r \in Dispatchers, SendEvent(r) \/ SendWhatsApp(r) PROVE HeldInv'
    <3>1. UNCHANGED <<todo, current, syncLock, status>> /\ \A s \in Syncers : pc'[s] = pc[s]
      BY <2>5 DEF SendEvent, SendWhatsApp, Goto, TypeOK
    <3> QED
      BY <3>1 DEF HeldInv, Held
  <2>6. ASSUME NEW r \in Dispatchers, NEW st, current[r] \in Deliveries,
               NextDelivery(r, "batch"), status' = [status EXCEPT ![current[r]] = st],
               UNCHANGED <<todo, syncLock>>
        PROVE  HeldInv'
    <3>1. \A q \in Runs \ {r} : Held(q)' = Held(q)
      BY <2>6 DEF NextDelivery, Held, TypeOK
    <3>2. Held(r)' = Held(r) \ {current[r]} /\ current[r] \in Held(r)
      BY <2>6 DEF NextDelivery, Held, TypeOK, RunShape
    <3>3. \A q \in Runs \ {r} : current[r] \notin Held(q)
      BY <2>b, <3>2 DEF HeldInv
    <3>4. \A d \in Deliveries \ {current[r]} : status'[d] = status[d]
      BY <2>6 DEF TypeOK
    <3>5. \A s \in Syncers : pc'[s] = pc[s]
      BY <2>6 DEF NextDelivery, Goto, TypeOK
    <3>6. \A q \in Runs : \A d \in Held(q)' : d \in Held(q) /\ status'[d] = status[d]
      <4> HIDE DEF Held
      <4> QED
        BY <2>a, <3>1, <3>2, <3>3, <3>4
    <3> HIDE DEF Held
    <3> QED
      BY <2>6, <3>5, <3>6 DEF HeldInv
  <2>7. ASSUME NEW r \in Dispatchers, MarkAccepted(r) PROVE HeldInv'
    <3>0. current[r] \in Deliveries /\ UNCHANGED <<todo, syncLock>>
      BY <2>7 DEF MarkAccepted, TypeOK, RunShape
    <3>1. CASE Goto(r, "failing") /\ UNCHANGED <<tableVars, current, reply>>
      BY <3>0, <3>1 DEF Goto, HeldInv, Held, TypeOK
    <3>2. CASE status' = [status EXCEPT ![current[r]] = Stored(reply[r])] /\ NextDelivery(r, "batch")
      BY <2>6, <3>0, <3>2
    <3>3. CASE status' = [status EXCEPT ![current[r]] = "sent"] /\ NextDelivery(r, "batch")
      BY <2>6, <3>0, <3>3
    <3> QED
      BY <2>7, <3>1, <3>2, <3>3 DEF MarkAccepted
  <2>8. ASSUME NEW r \in Dispatchers, MarkFailed(r) PROVE HeldInv'
    <3>1. current[r] \in Deliveries
      BY <2>8 DEF MarkFailed, TypeOK, RunShape
    <3> QED
      BY <2>6, <2>8, <3>1 DEF MarkFailed
  <2>9. ASSUME NEW s \in Syncers, AcquireSyncLock(s) PROVE HeldInv'
    <3>1. \A q \in Syncers : pc[q] = "idle"
      BY <2>9 DEF AcquireSyncLock, HeldInv
    <3> QED
      BY <2>9, <3>1 DEF AcquireSyncLock, Goto, HeldInv, Held, TypeOK
  <2>10. ASSUME NEW s \in Syncers, ListDue(s) PROVE HeldInv'
    <3>1. current[s] = NoDelivery /\ UNCHANGED <<current, status, syncLock>>
      BY <2>10 DEF ListDue, RunShape
    <3>2. Held(s)' = {d \in WhatsApp \cap messageIds : status[d] \in Polled}
      BY <2>10, <3>1 DEF ListDue, Held, TypeOK
    <3>3. \A q \in Runs \ {s} : Held(q)' = Held(q)
      BY <2>10 DEF ListDue, Held, TypeOK
    <3>4. \A q \in Syncers : pc'[q] # "idle" => pc[q] # "idle"
      BY <2>10 DEF ListDue, Goto, TypeOK
    <3> HIDE DEF Held
    <3> QED
      BY <3>1, <3>2, <3>3, <3>4 DEF HeldInv
  <2>11. ASSUME NEW s \in Syncers, NEW d \in Deliveries, GetMessage(s, d) PROVE HeldInv'
    BY <2>3, <2>11 DEF GetMessage, Goto, RunShape, TypeOK
  <2>12. ASSUME NEW s \in Syncers, NEW d \in Deliveries, GetMessageFails(s, d) PROVE HeldInv'
    <3>1. Held(s)' \subseteq Held(s) /\ \A q \in Runs \ {s} : Held(q)' = Held(q)
      BY <2>12 DEF GetMessageFails, Held, TypeOK
    <3> HIDE DEF Held
    <3> QED
      BY <2>12, <3>1 DEF GetMessageFails, HeldInv
  <2>13. ASSUME NEW s \in Syncers, WriteStatus(s) PROVE HeldInv'
    <3>0. current[s] \in Deliveries /\ pc[s] # "idle"
      BY <2>13 DEF WriteStatus, TypeOK, RunShape
    <3>1. \A q \in Runs \ {s} : Held(q)' = Held(q)
      BY <2>13 DEF WriteStatus, NextDelivery, Held, TypeOK
    <3>2. Held(s)' = Held(s) \ {current[s]} /\ current[s] \in Held(s)
      BY <2>13, <3>0 DEF WriteStatus, NextDelivery, Held, TypeOK, RunShape
    <3>3. \A q \in Syncers \ {s} : Held(q) = {}
      <4>1. \A q \in Syncers \ {s} : pc[q] = "idle"
        BY <3>0 DEF HeldInv
      <4> QED
        BY <4>1 DEF RunShape, Held
    <3>4. \A q \in Runs \ {s} : current[s] \notin Held(q)
      BY <2>b, <3>2, <3>3
    <3>5. \A d \in Deliveries \ {current[s]} : status'[d] = status[d]
      BY <2>13 DEF WriteStatus, TypeOK
    <3>6. \A q \in Runs : \A d \in Held(q)' : d \in Held(q) /\ status'[d] = status[d]
      <4> HIDE DEF Held
      <4> QED
        BY <2>a, <3>1, <3>2, <3>4, <3>5
    <3>7. syncLock' = syncLock /\ \A q \in Syncers : pc'[q] # "idle" => pc[q] # "idle"
      BY <2>13, <3>0 DEF WriteStatus, NextDelivery, Goto, TypeOK
    <3> HIDE DEF Held
    <3> QED
      BY <3>6, <3>7 DEF HeldInv
  <2>14. ASSUME NEW r \in Runs, FinishJob(r) \/ Crash(r) PROVE HeldInv'
    <3>1. LeaveJob(r) /\ status' = status
      BY <2>14 DEF FinishJob, Crash
    <3>2. Held(r)' = {} /\ \A q \in Runs \ {r} : Held(q)' = Held(q)
      BY <3>1 DEF LeaveJob, NextDelivery, Held, TypeOK
    <3>3. \A s \in Syncers : pc'[s] # "idle" => syncLock' = s
      BY <3>1 DEF LeaveJob, NextDelivery, Goto, HeldInv, TypeOK
    <3> HIDE DEF Held
    <3> QED
      BY <3>1, <3>2, <3>3 DEF HeldInv
  <2>15. ASSUME NEW d \in Deliveries, AdminRetry(d) PROVE HeldInv'
    <3>1. UNCHANGED <<pc, todo, current, syncLock>> /\ status[d] = "failed"
      BY <2>15 DEF AdminRetry
    <3>2. \A e \in Deliveries : status[e] # "failed" => status'[e] = status[e]
      BY <2>15 DEF AdminRetry, TypeOK
    <3>3. \A q \in Runs : Held(q)' = Held(q)
      BY <3>1 DEF Held
    <3> HIDE DEF Held
    <3> QED
      BY <2>a, <3>1, <3>2, <3>3 DEF HeldInv, Polled
  <2>16. ASSUME NEW d \in Deliveries, MessageProgress(d) PROVE HeldInv'
    BY <2>16 DEF MessageProgress, HeldInv, Held
  <2>17. CASE LoseDispatchLock
    BY <2>17 DEF LoseDispatchLock, HeldInv, Held
  <2>18. CASE UNCHANGED vars
    BY <2>18 DEF vars, HeldInv, Held
  <2> QED
    BY <2>1, <2>2, <2>4, <2>5, <2>7, <2>8, <2>9, <2>10, <2>11, <2>12, <2>13, <2>14, <2>15,
       <2>16, <2>17, <2>18 DEF Next, DispatchStep, SyncStep
<1> QED
  BY <1>1, <1>2, TypeCorrect, PTL DEF Spec

-----------------------------------------------------------------------------

\* The number of times a guest is sent a reminder never exceeds the number of
\* times it was asked for: by its rule, and by operators.
THEOREM SendsBounded == Spec => []SentOnceUnlessRetried
<1> USE ReminderAssumption DEF Runs
<1>1. Init => SendsInv
  BY DEF Init, SendsInv
<1>2. TypeOK /\ RunShape /\ HeldInv /\ SendsInv /\ [Next]_vars => SendsInv'
  <2> SUFFICES ASSUME TypeOK, RunShape, HeldInv, SendsInv, [Next]_vars
               PROVE  SendsInv'
    OBVIOUS
  <2> USE DEF tableVars, worldVars, lockVars, runVars, boundVars
  <2>a. \A r \in Dispatchers : \A d \in todo[r] :
          d \in Deliveries /\ status[d] = "processing" /\ d # NoDelivery
    BY DEF HeldInv, Held, TypeOK
  <2>1. ASSUME NEW r \in Dispatchers, AcquireDispatchLock(r) \/ CreateDueDeliveries(r)
        PROVE  SendsInv'
    <3>1. UNCHANGED <<todo, current, sends, retried>>
      BY <2>1 DEF AcquireDispatchLock, CreateDueDeliveries
    <3>2. \A d \in Deliveries : status'[d] \in {"absent", "pending"} => status[d] \in {"absent", "pending"}
      BY <2>1 DEF AcquireDispatchLock, CreateDueDeliveries, TypeOK
    <3>3. \A q \in Dispatchers : pc'[q] = "payload" => pc[q] = "payload"
      BY <2>1 DEF AcquireDispatchLock, CreateDueDeliveries, Goto, TypeOK
    <3> QED
      BY <3>1, <3>2, <3>3 DEF SendsInv
  <2>2. ASSUME NEW r \in Dispatchers, ClaimDeliveries(r) PROVE SendsInv'
    <3>1. PICK claimed \in SUBSET Claimable :
            /\ status' = [d \in Deliveries |-> IF d \in claimed THEN "processing" ELSE status[d]]
            /\ todo' = [todo EXCEPT ![r] = claimed]
      BY <2>2 DEF ClaimDeliveries
    <3>2. \A d \in claimed : d \in Deliveries /\ sends[d] <= retried[d]
      BY DEF Claimable, SendsInv
    <3> QED
      BY <2>2, <3>1, <3>2 DEF ClaimDeliveries, Goto, SendsInv, TypeOK
  <2>3. ASSUME NEW r \in Dispatchers, NEW d \in Deliveries, LoadPayload(r, d) PROVE SendsInv'
    <3>1. sends[d] <= retried[d]
      BY <2>3 DEF LoadPayload, SendsInv
    <3> QED
      BY <2>3, <3>1 DEF LoadPayload, Goto, SendsInv, TypeOK
  <2>4. ASSUME NEW r \in Dispatchers, pc[r] = "payload", current[r] \in Deliveries,
               sends' = [sends EXCEPT ![current[r]] = @ + 1],
               pc'[r] # "payload", \A q \in Dispatchers \ {r} : pc'[q] = pc[q],
               UNCHANGED <<status, todo, current, retried>>
        PROVE  SendsInv'
    <3> DEFINE d == current[r]
    <3>1. sends[d] <= retried[d] /\ sends[d] \in Nat /\ retried[d] \in Nat
      BY <2>4 DEF SendsInv, TypeOK
    <3>2. d \in Held(r) /\ status[d] = "processing"
      BY <2>4 DEF Held, HeldInv
    <3>3. \A q \in Dispatchers : d \notin todo[q]
      BY <3>2 DEF HeldInv, Held, RunShape
    <3>4. \A q \in Dispatchers \ {r} : current[q] # d
      BY <2>4, <3>2 DEF HeldInv, Held
    <3>5. \A e \in Deliveries \ {d} : sends'[e] = sends[e]
      BY <2>4 DEF TypeOK
    <3>6. sends'[d] = sends[d] + 1
      BY <2>4 DEF TypeOK
    <3>7. \A e \in Deliveries : sends'[e] <= 1 + retried'[e]
      BY <2>4, <3>1, <3>5, <3>6 DEF SendsInv
    <3>8. \A e \in Deliveries : status'[e] \in {"absent", "pending"} => sends'[e] <= retried'[e]
      BY <2>4, <3>2, <3>5 DEF SendsInv
    <3>9. \A q \in Dispatchers : \A e \in todo'[q] : sends'[e] <= retried'[e]
      BY <2>4, <2>a, <3>3, <3>5 DEF SendsInv
    <3>10. \A q \in Dispatchers : pc'[q] = "payload" => sends'[current'[q]] <= retried'[current'[q]]
      <4> SUFFICES ASSUME NEW q \in Dispatchers, pc'[q] = "payload"
                   PROVE  sends[current[q]] <= retried[current[q]] /\ current[q] \in Deliveries \ {d}
        BY <2>4, <3>5
      <4>1. q # r /\ pc[q] = "payload"
        BY <2>4
      <4> QED
        BY <3>4, <4>1 DEF SendsInv, RunShape, TypeOK
    <3> QED
      BY <3>7, <3>8, <3>9, <3>10 DEF SendsInv
  <2>5. ASSUME NEW r \in Dispatchers, UNCHANGED <<sends, retried, todo, current>>, pc'[r] # "payload",
               \A q \in Dispatchers \ {r} : pc'[q] = pc[q], status' = status
        PROVE  SendsInv'
    BY <2>5 DEF SendsInv
  <2>6. ASSUME NEW r \in Dispatchers, SendEvent(r) PROVE SendsInv'
    <3>1. /\ pc[r] = "payload" /\ current[r] \in Deliveries
          /\ pc'[r] # "payload" /\ \A q \in Dispatchers \ {r} : pc'[q] = pc[q]
          /\ UNCHANGED <<status, todo, current, retried>>
      BY <2>6 DEF SendEvent, Goto, TypeOK, RunShape
    <3>2. sends' = [sends EXCEPT ![current[r]] = @ + 1] \/ sends' = sends
      BY <2>6 DEF SendEvent
    <3> QED
      BY <2>4, <2>5, <3>1, <3>2
  <2>7. ASSUME NEW r \in Dispatchers, SendWhatsApp(r) PROVE SendsInv'
    <3>1. /\ pc[r] = "payload" /\ current[r] \in Deliveries
          /\ UNCHANGED <<status, todo, current, retried>>
      BY <2>7 DEF SendWhatsApp, TypeOK, RunShape
    <3>2. pc' = [pc EXCEPT ![r] = "accepted"] \/ pc' = [pc EXCEPT ![r] = "failing"]
      BY <2>7 DEF SendWhatsApp, Goto
    <3>3. pc'[r] # "payload" /\ \A q \in Dispatchers \ {r} : pc'[q] = pc[q]
      BY <3>2 DEF TypeOK
    <3>4. sends' = [sends EXCEPT ![current[r]] = @ + 1] \/ sends' = sends
      BY <2>7 DEF SendWhatsApp
    <3> QED
      BY <2>4, <2>5, <3>1, <3>3, <3>4
  <2>8. ASSUME NEW r \in Runs, NEW st \in Status \ {"absent", "pending"}, current[r] \in Deliveries,
               status' = [status EXCEPT ![current[r]] = st],
               \A q \in Dispatchers \ {r} : pc'[q] = pc[q] /\ current'[q] = current[q],
               pc'[r] # "payload", UNCHANGED <<todo, sends, retried>>
        PROVE  SendsInv'
    BY <2>8 DEF SendsInv, TypeOK
  <2>9. ASSUME NEW r \in Runs, NextDelivery(r, "batch") \/ NextDelivery(r, "listed")
        PROVE  /\ \A q \in Dispatchers \ {r} : pc'[q] = pc[q] /\ current'[q] = current[q]
               /\ pc'[r] # "payload"
    BY <2>9 DEF NextDelivery, Goto, TypeOK
  <2>10. \A r \in Runs : reply[r] # "none" => Stored(reply[r]) \in Status \ {"absent", "pending"}
    BY DEF Stored, TypeOK, MessageStatus, Status
  <2>11. ASSUME NEW r \in Dispatchers, MarkAccepted(r) PROVE SendsInv'
    <3>0. current[r] \in Deliveries /\ UNCHANGED <<todo, sends, retried>>
      BY <2>11 DEF MarkAccepted, TypeOK, RunShape
    <3>1. CASE Goto(r, "failing") /\ UNCHANGED <<tableVars, current, reply>>
      BY <2>5, <3>0, <3>1 DEF Goto, TypeOK
    <3>2. CASE current[r] \in WhatsApp /\ status' = [status EXCEPT ![current[r]] = Stored(reply[r])]
               /\ NextDelivery(r, "batch")
      <4>1. Stored(reply[r]) \in Status \ {"absent", "pending"}
        BY <2>10, <2>11, <3>2 DEF MarkAccepted, RunShape
      <4> QED
        BY <2>8, <2>9, <3>0, <3>2, <4>1
    <3>3. CASE status' = [status EXCEPT ![current[r]] = "sent"] /\ NextDelivery(r, "batch")
      BY <2>8, <2>9, <3>0, <3>3 DEF Status
    <3> QED
      BY <2>11, <3>1, <3>2, <3>3 DEF MarkAccepted
  <2>12. ASSUME NEW r \in Dispatchers, MarkFailed(r) PROVE SendsInv'
    <3>1. current[r] \in Deliveries
      BY <2>12 DEF MarkFailed, TypeOK, RunShape
    <3> QED
      BY <2>8, <2>9, <2>12, <3>1 DEF MarkFailed, Status
  <2>13. ASSUME NEW s \in Syncers, WriteStatus(s) PROVE SendsInv'
    <3>1. current[s] \in Deliveries /\ Stored(reply[s]) \in Status \ {"absent", "pending"}
      BY <2>10, <2>13 DEF WriteStatus, TypeOK, RunShape
    <3> QED
      BY <2>8, <2>9, <2>13, <3>1 DEF WriteStatus
  <2>14. ASSUME NEW s \in Syncers,
                \/ AcquireSyncLock(s) \/ ListDue(s)
                \/ \E d \in Deliveries : GetMessage(s, d) \/ GetMessageFails(s, d)
         PROVE  SendsInv'
    <3>1. /\ UNCHANGED <<status, sends, retried>>
          /\ \A r \in Dispatchers : pc'[r] = pc[r] /\ todo'[r] = todo[r] /\ current'[r] = current[r]
      BY <2>14 DEF AcquireSyncLock, ListDue, GetMessage, GetMessageFails, Goto, TypeOK
    <3> QED
      BY <3>1 DEF SendsInv
  <2>15. ASSUME NEW r \in Runs, FinishJob(r) \/ Crash(r) PROVE SendsInv'
    <3>1. LeaveJob(r) /\ UNCHANGED <<status, sends, retried>>
      BY <2>15 DEF FinishJob, Crash
    <3>2. \A q \in Runs \ {r} : pc'[q] = pc[q] /\ todo'[q] = todo[q] /\ current'[q] = current[q]
      BY <3>1 DEF LeaveJob, NextDelivery, Goto, TypeOK
    <3>3. todo'[r] = {} /\ pc'[r] = "idle"
      BY <3>1 DEF LeaveJob, NextDelivery, Goto, TypeOK
    <3> QED
      BY <3>1, <3>2, <3>3 DEF SendsInv
  <2>16. ASSUME NEW d \in Deliveries, AdminRetry(d) PROVE SendsInv'
    <3>1. /\ retried' = [retried EXCEPT ![d] = @ + 1]
          /\ status' = [status EXCEPT ![d] = "pending"]
          /\ UNCHANGED <<pc, todo, current, sends>>
      BY <2>16 DEF AdminRetry
    <3>2. \A e \in Deliveries : /\ retried[e] \in Nat /\ sends[e] \in Nat
                                /\ retried'[e] = IF e = d THEN retried[e] + 1 ELSE retried[e]
      BY <3>1 DEF TypeOK
    <3>3. \A q \in Dispatchers : pc[q] = "payload" => current[q] \in Deliveries
      BY DEF RunShape, TypeOK
    <3> QED
      BY <2>a, <3>1, <3>2, <3>3 DEF SendsInv, TypeOK
  <2>17. ASSUME NEW d \in Deliveries, MessageProgress(d) PROVE SendsInv'
    BY <2>17 DEF MessageProgress, SendsInv
  <2>18. CASE LoseDispatchLock \/ UNCHANGED vars
    BY <2>18 DEF LoseDispatchLock, vars, SendsInv
  <2> QED
    BY <2>1, <2>2, <2>3, <2>6, <2>7, <2>11, <2>12, <2>13, <2>14, <2>15, <2>16, <2>17, <2>18
       DEF Next, DispatchStep, SyncStep
<1>3. SendsInv => SentOnceUnlessRetried
  BY DEF SendsInv, SentOnceUnlessRetried
<1> QED
  BY <1>1, <1>2, <1>3, TypeCorrect, DeliveriesHeldOnce, PTL DEF Spec

-----------------------------------------------------------------------------

\* The reconcile job and the dispatch job, under two locks and with UPDATEs by
\* id alone, do not step on each other's deliveries.
THEOREM ReconcileKeepsOut == Spec => DispatchUndisturbed
<1> DEFINE Undisturbed ==
      \A d \in Deliveries :
        /\ status[d] = "pending" => status'[d] \in {"pending", "processing"}
        /\ status[d] = "processing" /\ status'[d] # "processing" =>
             \E r \in Dispatchers : current[r] = d /\ current'[r] = NoDelivery
<1> USE ReminderAssumption DEF Runs
<1>1. TypeOK /\ RunShape /\ HeldInv /\ [Next]_vars => [Undisturbed]_vars
  <2> SUFFICES ASSUME TypeOK, RunShape, HeldInv, Next
               PROVE  Undisturbed
    OBVIOUS
  <2> USE DEF tableVars, worldVars, lockVars, runVars, boundVars
  <2>1. ASSUME NEW r \in Dispatchers, CreateDueDeliveries(r) \/ ClaimDeliveries(r) PROVE Undisturbed
    BY <2>1 DEF CreateDueDeliveries, ClaimDeliveries, Claimable, TypeOK
  <2>2. ASSUME NEW r \in Dispatchers, NEW st, current[r] \in Deliveries, NextDelivery(r, "batch"),
               status' = [status EXCEPT ![current[r]] = st]
        PROVE  Undisturbed
    <3>1. status[current[r]] = "processing" /\ current'[r] = NoDelivery
      BY <2>2 DEF HeldInv, Held, NextDelivery, TypeOK
    <3> QED
      BY <2>2, <3>1 DEF TypeOK
  <2>3. ASSUME NEW r \in Dispatchers, MarkAccepted(r) \/ MarkFailed(r) PROVE Undisturbed
    <3>1. current[r] \in Deliveries
      BY <2>3 DEF MarkAccepted, MarkFailed, TypeOK, RunShape
    <3>2. \/ status' = status
          \/ NextDelivery(r, "batch") /\ \E st : status' = [status EXCEPT ![current[r]] = st]
      BY <2>3 DEF MarkAccepted, MarkFailed
    <3>3. CASE status' = status
      BY <3>3
    <3> QED
      BY <2>2, <3>1, <3>2, <3>3
  <2>4. ASSUME NEW s \in Syncers, WriteStatus(s) PROVE Undisturbed
    <3>1. status[current[s]] \in Polled
      BY <2>4 DEF WriteStatus, HeldInv, Held, RunShape
    <3> QED
      BY <2>4, <3>1 DEF WriteStatus, Polled, TypeOK
  <2>5. ASSUME NEW d \in Deliveries, AdminRetry(d) PROVE Undisturbed
    BY <2>5 DEF AdminRetry, TypeOK
  <2>6. CASE UNCHANGED status
    BY <2>6
  <2> QED
    BY <2>1, <2>3, <2>4, <2>5, <2>6 DEF Next, DispatchStep, SyncStep, AcquireDispatchLock,
       LoadPayload, SendEvent, SendWhatsApp, FinishJob, AcquireSyncLock, ListDue, GetMessage,
       GetMessageFails, MessageProgress, Crash, LoseDispatchLock
<1> QED
  BY <1>1, TypeCorrect, DeliveriesHeldOnce, PTL DEF Spec, DispatchUndisturbed

-----------------------------------------------------------------------------
(* The deliveries are a claim queue.  The state of an item is read off the      *)
(* status column, its owner off what the runs of the dispatch job hold.         *)

\* What the reconcile job polls, and writes back, are WhatsApp deliveries.
LEMMA PolledAreWhatsApp == Spec => [](\A s \in Syncers : Held(s) \subseteq WhatsApp)
<1> DEFINE Inv == \A s \in Syncers : Held(s) \subseteq WhatsApp
<1> USE ReminderAssumption DEF Runs
<1>1. Init => Inv
  BY DEF Init, Held
<1>2. TypeOK /\ RunShape /\ Inv /\ [Next]_vars => Inv'
  <2> SUFFICES ASSUME TypeOK, RunShape, Inv, [Next]_vars, NEW s \in Syncers
               PROVE  Held(s)' \subseteq WhatsApp
    OBVIOUS
  <2> USE DEF tableVars, worldVars, lockVars, runVars, boundVars
  <2>1. CASE ListDue(s)
    BY <2>1 DEF ListDue, Held, TypeOK, RunShape
  <2>2. ASSUME NEW d \in Deliveries, GetMessage(s, d) \/ GetMessageFails(s, d)
        PROVE  Held(s)' \subseteq WhatsApp
    BY <2>2 DEF GetMessage, GetMessageFails, Held, TypeOK
  <2>3. CASE WriteStatus(s) \/ FinishJob(s) \/ Crash(s)
    BY <2>3 DEF WriteStatus, FinishJob, Crash, LeaveJob, NextDelivery, Held, TypeOK
  <2>4. CASE todo'[s] = todo[s] /\ current'[s] = current[s]
    BY <2>4 DEF Held
  <2>5. ASSUME NEW r \in Dispatchers, DispatchStep(r)
        PROVE  todo'[s] = todo[s] /\ current'[s] = current[s]
    BY <2>5 DEF DispatchStep, CreateDueDeliveries, ClaimDeliveries, LoadPayload, SendEvent, SendWhatsApp,
       MarkAccepted, MarkFailed, FinishJob, LeaveJob, NextDelivery, TypeOK
  <2>6. ASSUME NEW q \in Syncers \ {s}, SyncStep(q)
        PROVE  todo'[s] = todo[s] /\ current'[s] = current[s]
    BY <2>6 DEF SyncStep, ListDue, GetMessage, GetMessageFails, WriteStatus, FinishJob, LeaveJob,
       NextDelivery, TypeOK
  <2>7. ASSUME NEW r \in Runs \ {s}, Crash(r)
        PROVE  todo'[s] = todo[s] /\ current'[s] = current[s]
    BY <2>7 DEF Crash, LeaveJob, NextDelivery, TypeOK
  <2>8. CASE UNCHANGED <<todo, current>>
    BY <2>4, <2>8
  <2>9. CASE \/ \E r \in Dispatchers : AcquireDispatchLock(r)
             \/ \E q \in Syncers : AcquireSyncLock(q)
             \/ \E d \in Deliveries : AdminRetry(d) \/ MessageProgress(d)
             \/ LoseDispatchLock
             \/ UNCHANGED vars
    BY <2>8, <2>9 DEF AcquireDispatchLock, AcquireSyncLock, AdminRetry, MessageProgress,
       LoseDispatchLock, vars
  <2>10. ASSUME NEW q \in Syncers, SyncStep(q) PROVE Held(s)' \subseteq WhatsApp
    <3>1. CASE q = s
      BY <2>1, <2>2, <2>3, <2>10, <3>1 DEF SyncStep
    <3> QED
      BY <2>4, <2>6, <2>10, <3>1
  <2>11. ASSUME NEW r \in Runs, Crash(r) PROVE Held(s)' \subseteq WhatsApp
    BY <2>3, <2>4, <2>7, <2>11
  <2> QED
    BY <2>4, <2>5, <2>9, <2>10, <2>11 DEF Next
<1> HIDE DEF Inv
<1>3. Spec => []Inv
  BY <1>1, <1>2, TypeCorrect, PTL DEF Spec
<1> QED
  BY <1>3 DEF Inv

\* No two dispatching runs hold one delivery, so its owner is the run that does.
LEMMA OwnerHolds ==
  ASSUME HeldInv, NEW d \in Deliveries
  PROVE  /\ \A r \in Dispatchers : d \in Held(r) => QueueOwner[d] = r
         /\ (\A r \in Dispatchers : d \notin Held(r)) => QueueOwner[d] = NoRun
<1>1. ASSUME NEW r \in Dispatchers, d \in Held(r) PROVE QueueOwner[d] = r
  <2>1. \A q \in Dispatchers : d \in Held(q) => q = r
    BY <1>1 DEF HeldInv
  <2> HIDE DEF Held
  <2>2. (CHOOSE q \in Dispatchers : d \in Held(q)) = r
    BY <1>1, <2>1
  <2> QED
    BY <1>1, <2>2 DEF QueueOwner
<1>2. (\A r \in Dispatchers : d \notin Held(r)) => QueueOwner[d] = NoRun
  BY DEF QueueOwner
<1> QED
  BY <1>1, <1>2

\* What one dispatching run takes or gives up changes the owner of that alone.
LEMMA OwnersFollow ==
  ASSUME HeldInv, HeldInv', NEW r \in Dispatchers,
         \A q \in Dispatchers \ {r} : Held(q)' = Held(q)
  PROVE  \A d \in Deliveries :
           QueueOwner'[d] = IF d \in Held(r)' THEN r
                            ELSE IF d \in Held(r) THEN NoRun ELSE QueueOwner[d]
<1> SUFFICES ASSUME NEW d \in Deliveries
             PROVE  QueueOwner'[d] = IF d \in Held(r)' THEN r
                                     ELSE IF d \in Held(r) THEN NoRun ELSE QueueOwner[d]
  OBVIOUS
<1>1. /\ \A q \in Dispatchers : d \in Held(q) => QueueOwner[d] = q
      /\ (\A q \in Dispatchers : d \notin Held(q)) => QueueOwner[d] = NoRun
  BY OwnerHolds
<1>2. /\ \A q \in Dispatchers : d \in Held(q)' => QueueOwner'[d] = q
      /\ (\A q \in Dispatchers : d \notin Held(q)') => QueueOwner'[d] = NoRun
  <2>1. \A q, p \in Dispatchers : d \in Held(q)' /\ d \in Held(p)' => q = p
    BY DEF HeldInv
  <2> HIDE DEF Held
  <2>2. \A q \in Dispatchers : d \in Held(q)' => (CHOOSE p \in Dispatchers : d \in Held(p)') = q
    BY <2>1
  <2> QED
    BY <2>2 DEF QueueOwner
<1>3. \A q \in Dispatchers \ {r} : d \in Held(r) => d \notin Held(q)
  BY DEF HeldInv
<1> HIDE DEF Held
<1>4. CASE d \in Held(r)'
  BY <1>2, <1>4
<1>5. CASE d \notin Held(r)' /\ d \in Held(r)
  <2>1. \A q \in Dispatchers : d \notin Held(q)'
    BY <1>3, <1>5
  <2> QED
    BY <1>2, <1>5, <2>1
<1>6. CASE d \notin Held(r)' /\ d \notin Held(r)
  <2>1. \A q \in Dispatchers : d \in Held(q)' <=> d \in Held(q)
    BY <1>6
  <2> QED
    BY <1>1, <1>2, <1>6, <2>1
<1> QED
  BY <1>4, <1>5, <1>6

\* Every behaviour of the two jobs, of Messenger and of the operators is, step by
\* step, a behaviour of a claim queue: whatever overlaps, a delivery is handed to
\* one run at a time, is settled by that run, is stranded if the run dies, and is
\* handed out again only by an operator; Messenger can take back a success.
THEOREM DeliveriesAreAQueue == Spec => ImplementsQueue
<1> DEFINE Polling == \A s \in Syncers : Held(s) \subseteq WhatsApp
           Inv == TypeOK /\ RunShape /\ HeldInv /\ Polling
<1> USE ReminderAssumption DEF Runs
<1>1. Init => Queue!Init
  <2> SUFFICES ASSUME Init PROVE Queue!Init
    OBVIOUS
  <2>1. \A r \in Dispatchers : Held(r) = {}
    BY DEF Init, Held
  <2>2. QueueOwner = [d \in Deliveries |-> NoRun]
    BY <2>1 DEF QueueOwner
  <2>3. QueueState = [d \in Deliveries |-> "absent"]
    BY DEF QueueState, Init
  <2> QED
    BY <2>2, <2>3 DEF Queue!Init
<1>2. Inv /\ Inv' /\ [Next]_vars => [Queue!Next]_(Queue!vars)
  <2> SUFFICES ASSUME Inv, Inv', [Next]_vars
               PROVE  Queue!Next \/ (QueueState' = QueueState /\ QueueOwner' = QueueOwner)
    BY DEF Queue!vars
  <2> USE DEF tableVars, worldVars, lockVars, runVars, boundVars
  <2> DEFINE Goal == Queue!Next \/ (QueueState' = QueueState /\ QueueOwner' = QueueOwner)
  <2>a. ASSUME status' = status PROVE QueueState' = QueueState
    BY <2>a DEF QueueState
  <2>b. ASSUME \A r \in Dispatchers : Held(r)' = Held(r) PROVE QueueOwner' = QueueOwner
    <3> HIDE DEF Held
    <3> QED
      BY <2>b DEF QueueOwner
  <2>c. ASSUME todo' = todo, current' = current PROVE QueueOwner' = QueueOwner
    BY <2>c, <2>b DEF Held
  <2>d. ASSUME \A q \in Dispatchers : todo'[q] = todo[q] /\ current'[q] = current[q]
        PROVE  QueueOwner' = QueueOwner
    BY <2>d, <2>b DEF Held
  <2>1. CASE UNCHANGED <<status, todo, current>>
    BY <2>1, <2>a, <2>c
  <2>2. ASSUME NEW r \in Dispatchers, CreateDueDeliveries(r) PROVE Goal
    <3>1. PICK due \in SUBSET {d \in Deliveries : status[d] = "absent"} :
            status' = [d \in Deliveries |-> IF d \in due THEN "pending" ELSE status[d]]
      BY <2>2 DEF CreateDueDeliveries
    <3>2. due \in SUBSET Deliveries /\ \A d \in due : QueueState[d] = "absent"
      BY DEF QueueState
    <3>3. QueueState' = [d \in Deliveries |-> IF d \in due THEN "ready" ELSE QueueState[d]]
      BY <3>1 DEF QueueState
    <3>4. QueueOwner' = QueueOwner
      BY <2>2, <2>c DEF CreateDueDeliveries
    <3> QED
      BY <3>2, <3>3, <3>4 DEF Queue!Next, Queue!Add
  <2>3. ASSUME NEW r \in Dispatchers, ClaimDeliveries(r) PROVE Goal
    <3>1. PICK claimed \in SUBSET Claimable :
            /\ status' = [d \in Deliveries |-> IF d \in claimed THEN "processing" ELSE status[d]]
            /\ todo' = [todo EXCEPT ![r] = claimed]
      BY <2>3 DEF ClaimDeliveries
    <3>2. claimed \in SUBSET Deliveries /\ \A d \in claimed : status[d] = "pending"
      BY DEF Claimable
    <3>3. Held(r) = {} /\ Held(r)' = claimed
      BY <2>3, <3>1, <3>2 DEF ClaimDeliveries, Held, TypeOK, RunShape
    <3>4. \A q \in Dispatchers \ {r} : Held(q)' = Held(q)
      BY <2>3, <3>1 DEF ClaimDeliveries, Held, TypeOK
    <3>5. \A d \in Deliveries : QueueOwner[d] # r
      <4> SUFFICES ASSUME NEW d \in Deliveries PROVE QueueOwner[d] # r
        OBVIOUS
      <4>1. /\ \A q \in Dispatchers : d \in Held(q) => QueueOwner[d] = q
            /\ (\A q \in Dispatchers : d \notin Held(q)) => QueueOwner[d] = NoRun
        BY OwnerHolds
      <4> HIDE DEF Held
      <4> QED
        BY <3>3, <4>1
    <3>6. \A d \in claimed : QueueState[d] = "ready"
      BY <3>2 DEF QueueState
    <3>7. QueueState' = [d \in Deliveries |-> IF d \in claimed THEN "claimed" ELSE QueueState[d]]
      BY <3>1 DEF QueueState
    <3>8. QueueOwner' = [d \in Deliveries |-> IF d \in claimed THEN r ELSE QueueOwner[d]]
      <4>1. \A d \in Deliveries : QueueOwner'[d] = IF d \in claimed THEN r ELSE QueueOwner[d]
        BY <3>3, <3>4, OwnersFollow
      <4> QED
        BY <4>1 DEF QueueOwner
    <3> QED
      BY <3>2, <3>5, <3>6, <3>7, <3>8 DEF Queue!Next, Queue!Claim
  <2>4. ASSUME NEW r \in Dispatchers, NEW d \in Deliveries, LoadPayload(r, d) PROVE Goal
    <3>1. current[r] = NoDelivery /\ status' = status
      BY <2>4 DEF LoadPayload, RunShape
    <3>2. \A q \in Dispatchers : Held(q)' = Held(q)
      BY <2>4, <3>1 DEF LoadPayload, TypeOK, Held
    <3> QED
      BY <2>a, <2>b, <3>1, <3>2
  <2>5. ASSUME NEW r \in Dispatchers, NEW st \in Status \ {"absent", "pending", "processing"},
               NextDelivery(r, "batch"), todo' = todo, current[r] \in Deliveries,
               status' = [status EXCEPT ![current[r]] = st]
        PROVE  Goal
    <3> DEFINE d == current[r]
               outcome == IF st = "failed" THEN "failed" ELSE "done"
    <3>1. d \in Held(r) /\ Held(r)' = Held(r) \ {d}
      BY <2>5 DEF NextDelivery, Goto, TypeOK, RunShape, Held
    <3>2. \A q \in Dispatchers \ {r} : Held(q)' = Held(q)
      BY <2>5 DEF NextDelivery, TypeOK, Held
    <3>3. QueueState' = [QueueState EXCEPT ![d] = outcome]
      BY <2>5 DEF QueueState, TypeOK
    <3>4. /\ QueueOwner[d] = r
          /\ \A e \in Held(r) \cap Deliveries : QueueOwner[e] = r
      BY <2>5, <3>1, OwnerHolds
    <3>5. QueueOwner' = [QueueOwner EXCEPT ![d] = NoRun]
      <4>1. \A e \in Deliveries : QueueOwner'[e] = IF e \in Held(r)' THEN r
                                  ELSE IF e \in Held(r) THEN NoRun ELSE QueueOwner[e]
        BY <3>2, OwnersFollow
      <4> HIDE DEF Held, d
      <4>2. \A e \in Deliveries : QueueOwner'[e] = IF e = d THEN NoRun ELSE QueueOwner[e]
        BY <3>1, <3>4, <4>1
      <4> QED
        BY <4>2 DEF QueueOwner
    <3>6. outcome \in {"ready", "done", "failed"}
      OBVIOUS
    <3> HIDE DEF outcome
    <3>7. Queue!Settle(r, d, outcome)
      BY <3>3, <3>4, <3>5 DEF Queue!Settle
    <3> QED
      BY <2>5, <3>6, <3>7 DEF Queue!Next
  <2>6. ASSUME NEW r \in Dispatchers, MarkAccepted(r) PROVE Goal
    <3>1. current[r] \in Deliveries /\ todo' = todo
      BY <2>6 DEF MarkAccepted, TypeOK, RunShape
    <3>2. CASE UNCHANGED <<status, current>>
      BY <2>1, <3>1, <3>2
    <3>3. CASE NextDelivery(r, "batch") /\ current[r] \in WhatsApp
               /\ status' = [status EXCEPT ![current[r]] = Stored(reply[r])]
      <4>1. Stored(reply[r]) \in Status \ {"absent", "pending", "processing"}
        BY <2>6, <3>3 DEF MarkAccepted, Stored, RunShape, TypeOK, MessageStatus, Status
      <4> QED
        BY <2>5, <3>1, <3>3, <4>1
    <3>4. CASE NextDelivery(r, "batch") /\ status' = [status EXCEPT ![current[r]] = "sent"]
      <4>1. "sent" \in Status \ {"absent", "pending", "processing"}
        BY DEF Status
      <4> QED
        BY <2>5, <3>1, <3>4, <4>1
    <3> QED
      BY <2>6, <3>2, <3>3, <3>4 DEF MarkAccepted
  <2>7. ASSUME NEW r \in Dispatchers, MarkFailed(r) PROVE Goal
    <3>1. /\ NextDelivery(r, "batch") /\ todo' = todo /\ current[r] \in Deliveries
          /\ status' = [status EXCEPT ![current[r]] = "failed"]
      BY <2>7 DEF MarkFailed, TypeOK, RunShape
    <3>2. "failed" \in Status \ {"absent", "pending", "processing"}
      BY DEF Status
    <3> QED
      BY <2>5, <3>1, <3>2
  <2>8. ASSUME NEW r \in Dispatchers, LeaveJob(r), status' = status PROVE Goal
    <3>1. Held(r)' = {} /\ \A q \in Dispatchers \ {r} : Held(q)' = Held(q)
      BY <2>8 DEF LeaveJob, NextDelivery, TypeOK, Held
    <3>2. \A d \in Deliveries : QueueOwner'[d] = IF d \in Held(r) THEN NoRun ELSE QueueOwner[d]
      <4>1. \A d \in Deliveries : QueueOwner'[d] = IF d \in Held(r)' THEN r
                                  ELSE IF d \in Held(r) THEN NoRun ELSE QueueOwner[d]
        BY <3>1, OwnersFollow
      <4> HIDE DEF Held
      <4> QED
        BY <3>1, <4>1
    <3>3. \A d \in Deliveries : d \in Held(r) <=> QueueOwner[d] = r
      <4> SUFFICES ASSUME NEW d \in Deliveries PROVE d \in Held(r) <=> QueueOwner[d] = r
        OBVIOUS
      <4>1. /\ \A q \in Dispatchers : d \in Held(q) => QueueOwner[d] = q
            /\ (\A q \in Dispatchers : d \notin Held(q)) => QueueOwner[d] = NoRun
        BY OwnerHolds
      <4> HIDE DEF Held
      <4> QED
        BY <4>1
    <3>4. QueueOwner' = [d \in Deliveries |-> IF QueueOwner[d] = r THEN NoRun ELSE QueueOwner[d]]
      <4> HIDE DEF Held
      <4>1. \A d \in Deliveries : QueueOwner'[d] = IF QueueOwner[d] = r THEN NoRun ELSE QueueOwner[d]
        BY <3>2, <3>3
      <4> QED
        BY <4>1 DEF QueueOwner
    <3>5. Queue!Abandon(r)
      BY <2>8, <2>a, <3>4 DEF Queue!Abandon
    <3> QED
      BY <3>5 DEF Queue!Next
  <2>9. ASSUME NEW s \in Syncers, LeaveJob(s), status' = status PROVE Goal
    <3>1. \A q \in Dispatchers : todo'[q] = todo[q] /\ current'[q] = current[q]
      BY <2>9 DEF LeaveJob, NextDelivery, TypeOK
    <3> QED
      BY <2>9, <2>a, <2>d, <3>1
  <2>10. ASSUME NEW s \in Syncers, ListDue(s) PROVE Goal
    <3>1. \A q \in Dispatchers : todo'[q] = todo[q] /\ current'[q] = current[q]
      BY <2>10 DEF ListDue, TypeOK
    <3> QED
      BY <2>10, <2>a, <2>d, <3>1 DEF ListDue
  <2>11. ASSUME NEW s \in Syncers, NEW d \in Deliveries, GetMessage(s, d) \/ GetMessageFails(s, d)
         PROVE  Goal
    <3>1. \A q \in Dispatchers : todo'[q] = todo[q] /\ current'[q] = current[q]
      BY <2>11 DEF GetMessage, GetMessageFails, TypeOK
    <3> QED
      BY <2>11, <2>a, <2>d, <3>1 DEF GetMessage, GetMessageFails
  <2>12. ASSUME NEW s \in Syncers, WriteStatus(s) PROVE Goal
    <3> DEFINE d == current[s]
    <3>1. d \in Deliveries /\ status[d] \in Polled /\ status' = [status EXCEPT ![d] = Stored(reply[s])]
      BY <2>12 DEF WriteStatus, HeldInv, Held, RunShape, TypeOK
    <3>2. QueueOwner' = QueueOwner
      <4>1. \A q \in Dispatchers : todo'[q] = todo[q] /\ current'[q] = current[q]
        BY <2>12 DEF WriteStatus, NextDelivery, TypeOK
      <4> QED
        BY <2>12, <2>d, <4>1
    <3>3. Stored(reply[s]) \in Status \ {"absent", "pending", "processing"}
      BY <2>12 DEF WriteStatus, Stored, RunShape, TypeOK, MessageStatus, Status
    <3>4. CASE Stored(reply[s]) = "failed"
      <4>1. QueueState[d] = "done" /\ QueueState' = [QueueState EXCEPT ![d] = "failed"]
        BY <3>1, <3>4 DEF QueueState, Polled, TypeOK
      <4>2. d \in WhatsApp
        BY <2>12, <3>1 DEF Held
      <4> QED
        BY <3>1, <3>2, <4>1, <4>2 DEF Queue!Next, Queue!Revoke
    <3>5. CASE Stored(reply[s]) # "failed"
      <4>1. QueueState' = QueueState
        BY <3>1, <3>3, <3>5 DEF QueueState, Polled, TypeOK
      <4> QED
        BY <3>2, <4>1
    <3> QED
      BY <3>4, <3>5
  <2>13. ASSUME NEW d \in Deliveries, AdminRetry(d) PROVE Goal
    <3>1. QueueState[d] = "failed" /\ QueueState' = [QueueState EXCEPT ![d] = "ready"]
      BY <2>13 DEF AdminRetry, QueueState, TypeOK
    <3>2. QueueOwner' = QueueOwner
      BY <2>13, <2>c DEF AdminRetry
    <3> QED
      BY <3>1, <3>2 DEF Queue!Next, Queue!Requeue
  <2>14. ASSUME NEW r \in Runs, FinishJob(r) \/ Crash(r) PROVE Goal
    BY <2>14, <2>8, <2>9 DEF FinishJob, Crash
  <2>15. CASE \/ \E r \in Dispatchers : AcquireDispatchLock(r) \/ SendEvent(r) \/ SendWhatsApp(r)
              \/ \E s \in Syncers : AcquireSyncLock(s)
              \/ \E d \in Deliveries : MessageProgress(d)
              \/ LoseDispatchLock
    BY <2>15, <2>1 DEF AcquireDispatchLock, SendEvent, SendWhatsApp, AcquireSyncLock, MessageProgress,
       LoseDispatchLock
  <2>16. CASE UNCHANGED vars
    BY <2>16, <2>1 DEF vars
  <2> QED
    BY <2>2, <2>3, <2>4, <2>6, <2>7, <2>10, <2>11, <2>12, <2>13, <2>14, <2>15, <2>16
    DEF Next, DispatchStep, SyncStep
<1> QED
  BY <1>1, <1>2, TypeCorrect, DeliveriesHeldOnce, PolledAreWhatsApp, PTL
  DEF Spec, ImplementsQueue, Queue!Spec

=============================================================================
