--------------------- MODULE RegiondoWebhookInboxProofs ---------------------
(***************************************************************************)
(* What RegiondoWebhookInbox guarantees for every number of runners,       *)
(* bookings, versions, attempts and faults.                                *)
(***************************************************************************)
EXTENDS RegiondoWebhookInbox, TLAPS

\* The imports under other locks touch neither the events nor the runs.
LEMMA ElsewhereLeaves ==
  ASSUME NEW i \in Importers, Elsewhere(i)
  PROVE  UNCHANGED <<provider, status, attempts, available, createdAt, inserts, retried,
                     lock, pc, batch, current, snapshot, faults, lockLosses>>
BY DEF Elsewhere, FetchElsewhere, ImportElsewhere, GiveUpElsewhere, providerVars, eventVars,
       runnerVars, boundVars

\* What the importers hold, and what the history says of overtaken imports, keep
\* their types.
LEMMA ImportersTypes ==
  ASSUME TypeOK, RunnerShape, [Next]_vars
  PROVE  ImportersTypeOK'
<1> USE DEF ImportersTypeOK, providerVars, eventVars, runnerVars, bookingVars, boundVars
<1>0. ImportersTypeOK
  BY DEF TypeOK
<1>1. ASSUME UNCHANGED bookingVars, overtaken' \in SUBSET overtaken PROVE ImportersTypeOK'
  BY <1>0, <1>1
<1>2. ASSUME NEW r \in Runners, ImportBooking(r) PROVE ImportersTypeOK'
  <2>1. CASE UNCHANGED bookingVars
    BY <1>1, <1>2, <2>1 DEF ImportBooking
  <2>2. CASE /\ Store(current[r].booking, snapshot[r], r \in overtaken)
             /\ elsewhere' = OvertakenBy(current[r].booking)
    <3>1. current[r].booking \in Bookings
      BY <1>2, InboxAssumption DEF ImportBooking, RunnerShape, TypeOK, Events
    <3>2. elsewhere' \in [Importers -> [booking : Bookings \cup {NoBooking},
            fetched : SUBSET Halves, snapshot : Snapshot, overtaken : BOOLEAN]]
      BY <1>0, <2>2 DEF OvertakenBy
    <3>4. \A j \in Importers : elsewhere'[j].fetched # {} => elsewhere'[j].booking \in Bookings
      BY <1>0, <2>2 DEF OvertakenBy
    <3>3. overtaken' = overtaken /\ late' \in SUBSET Bookings
      BY <1>0, <1>2, <2>2, <3>1 DEF ImportBooking, Store
    <3> QED
      BY <1>0, <3>2, <3>3, <3>4
  <2> QED
    BY <1>2, <2>1, <2>2 DEF ImportBooking
<1>3. ASSUME NEW i \in Importers, NEW b \in Bookings, NEW half \in Halves,
             FetchElsewhere(i, b, half)
      PROVE  ImportersTypeOK'
  <2>1. provider[b] \in 0..MaxVersion /\ elsewhere[i].snapshot \in Snapshot
        /\ elsewhere[i].fetched \in SUBSET Halves /\ elsewhere[i].overtaken \in BOOLEAN
    BY <1>0 DEF TypeOK
  <2>2. [elsewhere[i].snapshot EXCEPT ![half] = provider[b]] \in Snapshot
    BY <2>1 DEF Snapshot, Halves
  <2>3. elsewhere' \in [Importers -> [booking : Bookings \cup {NoBooking},
          fetched : SUBSET Halves, snapshot : Snapshot, overtaken : BOOLEAN]]
    BY <1>0, <1>3, <2>1, <2>2 DEF FetchElsewhere
  <2>4. \A j \in Importers : elsewhere'[j].fetched # {} => elsewhere'[j].booking \in Bookings
    BY <1>0, <1>3 DEF FetchElsewhere
  <2> QED
    BY <1>0, <1>3, <2>3, <2>4 DEF FetchElsewhere
<1>4. ASSUME NEW i \in Importers, ImportElsewhere(i) PROVE ImportersTypeOK'
  <2> DEFINE b == elsewhere[i].booking
  <2>1. EmptyHanded \in [booking : Bookings \cup {NoBooking}, fetched : SUBSET Halves,
                         snapshot : Snapshot, overtaken : BOOLEAN]
    BY InboxAssumption DEF EmptyHanded, NoSnapshot, Snapshot, TypeOK
  <2>2. elsewhere' \in [Importers -> [booking : Bookings \cup {NoBooking},
          fetched : SUBSET Halves, snapshot : Snapshot, overtaken : BOOLEAN]]
    BY <1>0, <1>4, <2>1 DEF ImportElsewhere, OvertakenBy
  <2>3. late' \subseteq Bookings
    BY <1>0, <1>4 DEF ImportElsewhere, Store, Halves
  <2>4. overtaken' \in SUBSET Runners
    BY <1>0, <1>4 DEF ImportElsewhere
  <2>5. \A j \in Importers : elsewhere'[j].fetched # {} => elsewhere'[j].booking \in Bookings
    BY <1>0, <1>4 DEF ImportElsewhere, OvertakenBy, EmptyHanded
  <2> QED
    BY <2>2, <2>3, <2>4, <2>5
<1>5. ASSUME NEW i \in Importers, GiveUpElsewhere(i) PROVE ImportersTypeOK'
  <2>1. EmptyHanded \in [booking : Bookings \cup {NoBooking}, fetched : SUBSET Halves,
                         snapshot : Snapshot, overtaken : BOOLEAN]
    BY InboxAssumption DEF EmptyHanded, NoSnapshot, Snapshot, TypeOK
  <2>2. EmptyHanded.fetched = {}
    BY DEF EmptyHanded
  <2> QED
    BY <1>0, <1>5, <2>1, <2>2 DEF GiveUpElsewhere
<1>6. ASSUME NEW r \in Runners, AcquireLock(r) \/ Progress(r) \/ AbortJob(r) \/ Crash(r),
             ~ImportBooking(r)
      PROVE  ImportersTypeOK'
  BY <1>1, <1>6 DEF AcquireLock, Progress, ClaimEvents, FetchSupplierBookings, FetchPurchase,
     RebuildConsumptions, MarkProcessed, MarkRetry, MarkDeadLetter, NextEvent, FinishJob,
     AbortJob, Crash, LeaveJob
<1>7. ASSUME \/ \E b \in Bookings : ProviderChange(b)
             \/ \E posted \in SUBSET Events : EnqueueWebhook(posted)
             \/ \E e \in Events : BackoffElapses(e) \/ AdminRetry(e)
             \/ LoseLock \/ UNCHANGED vars
      PROVE  ImportersTypeOK'
  BY <1>1, <1>7 DEF ProviderChange, EnqueueWebhook, BackoffElapses, AdminRetry, LoseLock, vars
<1> QED
  BY <1>2, <1>3, <1>4, <1>5, <1>6, <1>7 DEF Next, Progress, Elsewhere

\* Every variable of the inbox keeps its type (the columns of the event rows,
\* the lock, what each run of the job remembers), and a run has a current
\* event exactly while it works on one.
THEOREM TypeCorrect == Spec => [](TypeOK /\ RunnerShape)
<1> DEFINE Inv == TypeOK /\ RunnerShape
<1> USE InboxAssumption
<1>0. NoEvent \notin Events
  BY DEF Events
<1>1. Init => Inv
  <2>1. Init => TypeOK
    <3>1. Init => ImportersTypeOK
      BY DEF Init, ImportersTypeOK, EmptyHanded, Halves, Snapshot, NoSnapshot
    <3> QED
      BY <3>1 DEF Init, TypeOK, Status, PC, Snapshot, NoSnapshot
  <2>2. Init => RunnerShape
    BY DEF Init, RunnerShape
  <2> QED
    BY <2>1, <2>2
<1>2. Inv /\ [Next]_vars => Inv'
  <2> SUFFICES ASSUME TypeOK, RunnerShape, [Next]_vars
               PROVE  TypeOK' /\ RunnerShape'
    OBVIOUS
  <2>0. ImportersTypeOK'
    BY ImportersTypes
  <2> USE <2>0 DEF TypeOK, RunnerShape, providerVars, eventVars, runnerVars, bookingVars, boundVars
  <2>1. ASSUME NEW b \in Bookings, ProviderChange(b) PROVE Inv'
    BY <2>1 DEF ProviderChange
  <2>2. ASSUME NEW posted \in SUBSET Events, EnqueueWebhook(posted) PROVE Inv'
    BY <2>2 DEF EnqueueWebhook, Status
  <2>3. ASSUME NEW e \in Events, BackoffElapses(e) PROVE Inv'
    BY <2>3 DEF BackoffElapses
  <2>4. ASSUME NEW e \in Events, AdminRetry(e) PROVE Inv'
    BY <2>4 DEF AdminRetry, Status
  <2>5. ASSUME NEW r \in Runners, AcquireLock(r) PROVE Inv'
    BY <2>5 DEF AcquireLock, PC
  <2>6. ASSUME NEW r \in Runners, ClaimEvents(r) PROVE Inv'
    <3>1. TypeOK'
      BY <2>6 DEF ClaimEvents, OldestClaimable, Claimable, Status, PC
    <3>2. RunnerShape'
      <4>1. current[r] = NoEvent /\ current' = current
        BY <2>6 DEF ClaimEvents
      <4>2. batch' \in [Runners -> SUBSET Events] /\ \A s \in Runners \ {r} : batch'[s] = batch[s]
        BY <3>1, <2>6 DEF ClaimEvents
      <4>3. pc' = [pc EXCEPT ![r] = "batch"]
        BY <2>6 DEF ClaimEvents
      <4> QED
        BY <1>0, <4>1, <4>2, <4>3
    <3> QED
      BY <3>1, <3>2
  <2>7. ASSUME NEW r \in Runners, NEW e \in Events, FetchSupplierBookings(r, e) PROVE Inv'
    <3>1. provider[e.booking] \in 0..MaxVersion
      BY DEF Events
    <3>2. snapshot' \in [Runners -> Snapshot]
      BY <2>7, <3>1 DEF FetchSupplierBookings, NoSnapshot, Snapshot
    <3>3. PICK next \in {"supplier", "retryable", "fatal"} : pc' = [pc EXCEPT ![r] = next]
      BY <2>7 DEF FetchSupplierBookings
    <3>4. batch' = [batch EXCEPT ![r] = @ \ {e}] /\ current' = [current EXCEPT ![r] = e]
      BY <2>7 DEF FetchSupplierBookings
    <3>6. TypeOK'
      BY <2>7, <3>2, <3>3, <3>4 DEF FetchSupplierBookings, PC
    <3>7. RunnerShape'
      BY <1>0, <3>3, <3>4 DEF PC
    <3> QED
      BY <3>6, <3>7
  <2>8. ASSUME NEW r \in Runners, FetchPurchase(r) PROVE Inv'
    <3>1. current[r] \in Events
      BY <2>8 DEF FetchPurchase
    <3>2. provider[current[r].booking] \in 0..MaxVersion
      BY <3>1 DEF Events
    <3>3. snapshot' \in [Runners -> Snapshot]
      BY <2>8, <3>2 DEF FetchPurchase, Snapshot
    <3> QED
      BY <2>8, <3>3 DEF FetchPurchase, PC
  <2>9. ASSUME NEW r \in Runners, ImportBooking(r) PROVE Inv'
    BY <2>9 DEF ImportBooking, Store, PC
  <2>10. ASSUME NEW r \in Runners, RebuildConsumptions(r) PROVE Inv'
    BY <2>10 DEF RebuildConsumptions, PC
  <2>11. ASSUME NEW r \in Runners, MarkProcessed(r) PROVE Inv'
    <3>1. CASE NextEvent(r) /\ status' = [status EXCEPT ![current[r]] = "processed"]
      <4>1. TypeOK'
        BY <2>11, <3>1 DEF MarkProcessed, NextEvent, PC, Status, Snapshot, NoSnapshot
      <4>2. RunnerShape'
        BY <1>0, <2>11, <3>1 DEF MarkProcessed, NextEvent, PC
      <4> QED
        BY <4>1, <4>2
    <3>2. CASE pc' = [pc EXCEPT ![r] = "fatal"] /\ UNCHANGED <<status, current, snapshot, overtaken>>
      BY <2>11, <3>2 DEF MarkProcessed, PC
    <3> QED
      BY <2>11, <3>1, <3>2 DEF MarkProcessed
  <2>12. ASSUME NEW r \in Runners, MarkRetry(r) PROVE Inv'
    <3>1. TypeOK'
      BY <2>12 DEF MarkRetry, MayRetry, NextEvent, PC, Status, Snapshot, NoSnapshot
    <3>2. RunnerShape'
      BY <1>0, <2>12 DEF MarkRetry, MayRetry, NextEvent, PC
    <3> QED
      BY <3>1, <3>2
  <2>13. ASSUME NEW r \in Runners, MarkDeadLetter(r) PROVE Inv'
    <3>1. TypeOK'
      BY <2>13 DEF MarkDeadLetter, NextEvent, PC, Status, Snapshot, NoSnapshot
    <3>2. RunnerShape'
      BY <1>0, <2>13 DEF MarkDeadLetter, NextEvent, PC
    <3> QED
      BY <3>1, <3>2
  <2>14. ASSUME NEW r \in Runners, FinishJob(r) PROVE Inv'
    <3>1. TypeOK'
      BY <2>14 DEF FinishJob, LeaveJob, PC, Status, Snapshot, NoSnapshot
    <3>2. RunnerShape'
      BY <1>0, <2>14 DEF FinishJob, LeaveJob, PC
    <3> QED
      BY <3>1, <3>2
  <2>15. ASSUME NEW r \in Runners, AbortJob(r) \/ Crash(r) PROVE Inv'
    <3>1. LeaveJob(r) /\ faults' \in 0..MaxFaults
      BY <2>15 DEF AbortJob, Crash
    <3>2. UNCHANGED <<providerVars, eventVars, bookingVars, lockLosses>>
      BY <2>15 DEF AbortJob, Crash
    <3>3. TypeOK'
      BY <3>1, <3>2 DEF LeaveJob, PC, Snapshot, NoSnapshot
    <3>4. RunnerShape'
      BY <1>0, <3>1 DEF LeaveJob, PC
    <3> QED
      BY <3>3, <3>4
  <2>16. CASE LoseLock
    BY <2>16 DEF LoseLock
  <2>17. CASE UNCHANGED vars
    BY <2>17 DEF vars
  <2>18. ASSUME NEW i \in Importers, Elsewhere(i) PROVE Inv'
    <3>1. stored' \in [Bookings -> Snapshot]
      BY <2>18 DEF Elsewhere, FetchElsewhere, ImportElsewhere, GiveUpElsewhere, Store,
                   ImportersTypeOK
    <3> QED
      BY <2>18, <3>1, ElsewhereLeaves
  <2> QED
    BY <2>1, <2>2, <2>3, <2>4, <2>5, <2>6, <2>7, <2>8, <2>9, <2>10, <2>11, <2>12, <2>13,
       <2>14, <2>15, <2>16, <2>17, <2>18 DEF Next, Progress
<1>3. QED
  BY <1>1, <1>2, PTL DEF Spec

-----------------------------------------------------------------------------

\* No event is in the hands of two runs of the job, and what a run holds stays
\* "processing" until that run settles it, whatever happens to the advisory
\* lock: FOR UPDATE SKIP LOCKED and the status column carry the exclusion.
THEOREM ClaimsExclusive == Spec => []ExclusiveClaims
<1> DEFINE Shape == TypeOK /\ RunnerShape
<1>0. NoEvent \notin Events
  BY InboxAssumption DEF Events
<1>1. Init => ExclusiveClaims
  BY DEF Init, ExclusiveClaims, Owned
<1>2. Shape /\ ExclusiveClaims /\ [Next]_vars => ExclusiveClaims'
  <2> SUFFICES ASSUME TypeOK, RunnerShape, ExclusiveClaims, [Next]_vars
               PROVE  ExclusiveClaims'
    OBVIOUS
  <2> USE DEF ExclusiveClaims, Owned, providerVars, eventVars, runnerVars, boundVars
  <2>0. \A r \in Runners : Owned(r) \subseteq Events
    BY DEF TypeOK
  <2>1. ASSUME NEW b \in Bookings, ProviderChange(b) PROVE ExclusiveClaims'
    BY <2>1 DEF ProviderChange
  <2>2. ASSUME NEW posted \in SUBSET Events, EnqueueWebhook(posted) PROVE ExclusiveClaims'
    BY <2>0, <2>2 DEF EnqueueWebhook, TypeOK
  <2>3. ASSUME NEW e \in Events, BackoffElapses(e) \/ AdminRetry(e) PROVE ExclusiveClaims'
    <3>1. \A f \in Events : status[f] = "processing" => status'[f] = "processing"
      BY <2>3 DEF BackoffElapses, AdminRetry, TypeOK
    <3>2. UNCHANGED <<batch, current>>
      BY <2>3 DEF BackoffElapses, AdminRetry
    <3> QED
      BY <2>0, <3>1, <3>2
  <2>4. ASSUME NEW r \in Runners, AcquireLock(r) PROVE ExclusiveClaims'
    BY <2>4 DEF AcquireLock
  <2>5. ASSUME NEW r \in Runners, ClaimEvents(r) PROVE ExclusiveClaims'
    <3>1. PICK claimed \in SUBSET Claimable :
            /\ status' = [e \in Events |-> IF e \in claimed THEN "processing" ELSE status[e]]
            /\ batch' = [batch EXCEPT ![r] = claimed]
      BY <2>5 DEF ClaimEvents, OldestClaimable
    <3>2. current' = current /\ current[r] = NoEvent
      BY <2>5 DEF ClaimEvents, RunnerShape
    <3>3. \A e \in claimed : e \in Events /\ status[e] # "processing"
      BY DEF Claimable, TypeOK
    <3>4. Owned(r)' = claimed /\ \A s \in Runners \ {r} : Owned(s)' = Owned(s)
      BY <3>1, <3>2, <3>3 DEF TypeOK
    <3> QED
      BY <2>0, <3>1, <3>3, <3>4
  <2>6. ASSUME NEW r \in Runners, NEW e \in Events, FetchSupplierBookings(r, e)
        PROVE  ExclusiveClaims'
    <3>1. current[r] = NoEvent /\ e \in batch[r] /\ status' = status
      BY <2>6 DEF FetchSupplierBookings, RunnerShape
    <3>2. Owned(r)' = Owned(r)
      BY <1>0, <2>6, <3>1 DEF FetchSupplierBookings, TypeOK
    <3>3. \A s \in Runners \ {r} : Owned(s)' = Owned(s)
      BY <2>6 DEF FetchSupplierBookings, TypeOK
    <3> QED
      BY <3>1, <3>2, <3>3
  <2>7. ASSUME NEW r \in Runners,
               FetchPurchase(r) \/ ImportBooking(r) \/ RebuildConsumptions(r)
        PROVE  ExclusiveClaims'
    BY <2>7 DEF FetchPurchase, ImportBooking, RebuildConsumptions
  <2>8. ASSUME NEW r \in Runners, NEW st, NextEvent(r), batch' = batch, current[r] \in Events,
               status' = [status EXCEPT ![current[r]] = st]
        PROVE  ExclusiveClaims'
    <3>1. Owned(r)' = Owned(r) \ {current[r]}
      BY <1>0, <2>8 DEF NextEvent, TypeOK, RunnerShape
    <3>2. \A s \in Runners \ {r} : Owned(s)' = Owned(s) /\ current[r] \notin Owned(s)
      BY <1>0, <2>8 DEF NextEvent, TypeOK
    <3>3. \A s \in Runners : \A e \in Owned(s)' : e \in Owned(s) /\ e # current[r] /\ e \in Events
      <4> HIDE DEF Owned
      <4> QED
        BY <2>0, <3>1, <3>2
    <3>4. \A e \in Events : e # current[r] => status'[e] = status[e]
      BY <2>8 DEF TypeOK
    <3> HIDE DEF Owned
    <3> QED
      BY <3>3, <3>4
  <2>9. ASSUME NEW r \in Runners, MarkProcessed(r) PROVE ExclusiveClaims'
    <3>1. CASE UNCHANGED <<status, current>>
      BY <2>9, <3>1 DEF MarkProcessed
    <3>2. CASE NextEvent(r) /\ status' = [status EXCEPT ![current[r]] = "processed"]
      <4>1. batch' = batch /\ current[r] \in Events
        BY <2>9 DEF MarkProcessed, TypeOK, RunnerShape
      <4> QED
        BY <2>8, <3>2, <4>1
    <3> QED
      BY <2>9, <3>1, <3>2 DEF MarkProcessed
  <2>10. ASSUME NEW r \in Runners, MarkRetry(r) PROVE ExclusiveClaims'
    BY <2>8, <2>10 DEF MarkRetry, MayRetry, TypeOK, RunnerShape
  <2>11. ASSUME NEW r \in Runners, MarkDeadLetter(r) PROVE ExclusiveClaims'
    BY <2>8, <2>11 DEF MarkDeadLetter, TypeOK, RunnerShape
  <2>12. ASSUME NEW r \in Runners, FinishJob(r) \/ AbortJob(r) \/ Crash(r) PROVE ExclusiveClaims'
    <3>1. LeaveJob(r) /\ status' = status
      BY <2>12 DEF FinishJob, AbortJob, Crash
    <3>2. Owned(r)' = {} /\ \A s \in Runners \ {r} : Owned(s)' = Owned(s)
      BY <3>1 DEF LeaveJob, TypeOK
    <3> QED
      BY <3>1, <3>2
  <2>13. CASE LoseLock
    BY <2>13 DEF LoseLock
  <2>14. CASE UNCHANGED vars
    BY <2>14 DEF vars
  <2>15. ASSUME NEW i \in Importers, Elsewhere(i) PROVE ExclusiveClaims'
    BY <2>15, ElsewhereLeaves
  <2> QED
    BY <2>1, <2>2, <2>3, <2>4, <2>5, <2>6, <2>7, <2>9, <2>10, <2>11, <2>12, <2>13, <2>14, <2>15
       DEF Next, Progress
<1>3. QED
  BY <1>1, <1>2, TypeCorrect, PTL DEF Spec

-----------------------------------------------------------------------------

\* The attempt counter of an event never passes the configured maximum by more
\* than the number of times an operator requeued it.
THEOREM AttemptsAreBounded == Spec => []AttemptsBounded
<1> DEFINE Shape == TypeOK /\ RunnerShape
<1>1. Init => AttemptsInv
  BY InboxAssumption DEF Init, AttemptsInv
<1>2. Shape /\ ExclusiveClaims /\ AttemptsInv /\ [Next]_vars => AttemptsInv'
  <2> SUFFICES ASSUME TypeOK, RunnerShape, ExclusiveClaims, AttemptsInv, [Next]_vars
               PROVE  AttemptsInv'
    OBVIOUS
  <2> USE InboxAssumption
      DEF AttemptsInv, TypeOK, providerVars, eventVars, runnerVars, boundVars
  <2>1. ASSUME NEW b \in Bookings, ProviderChange(b) PROVE AttemptsInv'
    BY <2>1 DEF ProviderChange
  <2>2. ASSUME NEW posted \in SUBSET Events, EnqueueWebhook(posted) PROVE AttemptsInv'
    BY <2>2 DEF EnqueueWebhook
  <2>3. ASSUME NEW e \in Events, BackoffElapses(e) PROVE AttemptsInv'
    BY <2>3 DEF BackoffElapses
  <2>4. ASSUME NEW e \in Events, AdminRetry(e) PROVE AttemptsInv'
    BY <2>4 DEF AdminRetry
  <2>5. ASSUME NEW r \in Runners, AcquireLock(r) PROVE AttemptsInv'
    BY <2>5 DEF AcquireLock
  <2>6. ASSUME NEW r \in Runners, ClaimEvents(r) PROVE AttemptsInv'
    BY <2>6 DEF ClaimEvents, OldestClaimable, Claimable
  <2>7. ASSUME NEW r \in Runners, NEW e \in Events, FetchSupplierBookings(r, e)
        PROVE  AttemptsInv'
    BY <2>7 DEF FetchSupplierBookings
  <2>8. ASSUME NEW r \in Runners,
               FetchPurchase(r) \/ ImportBooking(r) \/ RebuildConsumptions(r)
        PROVE  AttemptsInv'
    BY <2>8 DEF FetchPurchase, ImportBooking, RebuildConsumptions
  <2>9. ASSUME NEW r \in Runners, MarkProcessed(r) PROVE AttemptsInv'
    BY <2>9 DEF MarkProcessed
  <2>10. ASSUME NEW r \in Runners, MarkRetry(r) PROVE AttemptsInv'
    BY <2>10 DEF MarkRetry, MayRetry
  <2>11. ASSUME NEW r \in Runners, MarkDeadLetter(r) PROVE AttemptsInv'
    BY <2>11 DEF MarkDeadLetter
  <2>12. ASSUME NEW r \in Runners, FinishJob(r) \/ AbortJob(r) \/ Crash(r) PROVE AttemptsInv'
    BY <2>12 DEF FinishJob, AbortJob, Crash
  <2>13. CASE LoseLock
    BY <2>13 DEF LoseLock
  <2>14. CASE UNCHANGED vars
    BY <2>14 DEF vars
  <2>15. ASSUME NEW i \in Importers, Elsewhere(i) PROVE AttemptsInv'
    BY <2>15, ElsewhereLeaves
  <2> QED
    BY <2>1, <2>2, <2>3, <2>4, <2>5, <2>6, <2>7, <2>8, <2>9, <2>10, <2>11, <2>12, <2>13, <2>14,
       <2>15 DEF Next, Progress
<1>3. AttemptsInv => AttemptsBounded
  BY DEF AttemptsInv, AttemptsBounded
<1>4. QED
  BY <1>1, <1>2, <1>3, TypeCorrect, ClaimsExclusive, PTL DEF Spec

-----------------------------------------------------------------------------

\* Nothing takes a processed event back: not a redelivery of its webhook, not an
\* operator, and not a run that still holds an event, although the mark
\* functions update by event_id alone.
THEOREM ProcessedStays == Spec => ProcessedIsFinal
<1> DEFINE Final == \A e \in Events : status[e] = "processed" => status'[e] = "processed"
<1>1. TypeOK /\ RunnerShape /\ ExclusiveClaims /\ [Next]_vars => Final
  <2> SUFFICES ASSUME TypeOK, RunnerShape, ExclusiveClaims, [Next]_vars,
                      NEW e \in Events, status[e] = "processed"
               PROVE  status'[e] = "processed"
    OBVIOUS
  <2> USE DEF TypeOK, providerVars, eventVars, runnerVars, boundVars
  <2>1. \A r \in Runners : current[r] # e
    BY InboxAssumption DEF ExclusiveClaims, Owned, Events
  <2>2. ASSUME NEW posted \in SUBSET Events, EnqueueWebhook(posted) PROVE status'[e] = "processed"
    BY <2>2 DEF EnqueueWebhook
  <2>3. ASSUME NEW f \in Events, BackoffElapses(f) \/ AdminRetry(f) PROVE status'[e] = "processed"
    BY <2>3 DEF BackoffElapses, AdminRetry
  <2>4. ASSUME NEW r \in Runners, ClaimEvents(r) PROVE status'[e] = "processed"
    BY <2>4 DEF ClaimEvents, OldestClaimable, Claimable
  <2>5. ASSUME NEW r \in Runners, MarkProcessed(r) \/ MarkRetry(r) \/ MarkDeadLetter(r)
        PROVE  status'[e] = "processed"
    BY <2>1, <2>5 DEF MarkProcessed, MarkRetry, MarkDeadLetter
  <2>6. CASE UNCHANGED status
    BY <2>6
  <2>7. ASSUME NEW r \in Runners,
               \/ AcquireLock(r) \/ \E f \in Events : FetchSupplierBookings(r, f)
               \/ FetchPurchase(r) \/ ImportBooking(r) \/ RebuildConsumptions(r)
               \/ FinishJob(r) \/ AbortJob(r) \/ Crash(r)
        PROVE  UNCHANGED status
    BY <2>7 DEF AcquireLock, FetchSupplierBookings, FetchPurchase, ImportBooking,
                RebuildConsumptions, FinishJob, AbortJob, Crash
  <2>8. (\E b \in Bookings : ProviderChange(b)) \/ LoseLock \/ UNCHANGED vars => UNCHANGED status
    BY DEF ProviderChange, LoseLock, vars
  <2>9. ASSUME NEW i \in Importers, Elsewhere(i) PROVE UNCHANGED status
    BY <2>9, ElsewhereLeaves
  <2> QED
    BY <2>2, <2>3, <2>4, <2>5, <2>6, <2>7, <2>8, <2>9 DEF Next, Progress
<1>2. QED
  BY <1>1, TypeCorrect, ClaimsExclusive, PTL DEF Spec, ProcessedIsFinal

-----------------------------------------------------------------------------

\* Lost sessions are only counted up, by the step that loses one.
LEMMA LossesCount ==
  ASSUME TypeOK, [Next]_vars, lockLosses' = 0
  PROVE  lockLosses = 0 /\ ~LoseLock
<1>1. lockLosses \in Nat
  BY InboxAssumption DEF TypeOK
<1>2. ~LoseLock
  BY <1>1 DEF LoseLock
<1>3. lockLosses' = lockLosses
  <2> USE DEF providerVars, eventVars, runnerVars, boundVars
  <2>1. ASSUME NEW r \in Runners, AcquireLock(r) \/ Progress(r) \/ AbortJob(r) \/ Crash(r)
        PROVE  lockLosses' = lockLosses
    BY <2>1 DEF AcquireLock, Progress, ClaimEvents, FetchSupplierBookings, FetchPurchase,
       ImportBooking, RebuildConsumptions, MarkProcessed, MarkRetry, MarkDeadLetter, FinishJob,
       AbortJob, Crash
  <2>2. ASSUME \/ \E b \in Bookings : ProviderChange(b)
               \/ \E posted \in SUBSET Events : EnqueueWebhook(posted)
               \/ \E e \in Events : BackoffElapses(e) \/ AdminRetry(e)
               \/ UNCHANGED vars
        PROVE  lockLosses' = lockLosses
    BY <2>2 DEF ProviderChange, EnqueueWebhook, BackoffElapses, AdminRetry, vars
  <2>3. ASSUME NEW i \in Importers, Elsewhere(i) PROVE lockLosses' = lockLosses
    BY <2>3, ElsewhereLeaves
  <2> QED
    BY <1>2, <2>1, <2>2, <2>3 DEF Next
<1> QED
  BY <1>2, <1>3

\* As long as PostgreSQL drops no session that holds it, the advisory lock makes
\* the runs of the job exclusive.
LEMMA LockExcludes == Spec => [](lockLosses = 0 => LockInv)
<1>1. Init => LockInv
  BY DEF Init, LockInv
<1>2. TypeOK /\ (lockLosses = 0 => LockInv) /\ [Next]_vars => (lockLosses = 0 => LockInv)'
  <2> SUFFICES ASSUME TypeOK, lockLosses = 0 => LockInv, [Next]_vars, lockLosses' = 0
               PROVE  LockInv'
    OBVIOUS
  <2> SUFFICES ASSUME LockInv, ~LoseLock PROVE LockInv'
    BY LossesCount
  <2> USE DEF LockInv, TypeOK, providerVars, eventVars, runnerVars, boundVars
  <2>1. ASSUME NEW r \in Runners, AcquireLock(r) PROVE LockInv'
    BY <2>1, InboxAssumption DEF AcquireLock
  <2>2. ASSUME NEW r \in Runners, pc[r] # "idle", lock' = lock, NEW next,
               pc' = [pc EXCEPT ![r] = next]
        PROVE  LockInv'
    BY <2>2
  <2>3. ASSUME NEW r \in Runners, Progress(r), ~FinishJob(r) PROVE LockInv'
    BY <2>2, <2>3 DEF Progress, ClaimEvents, FetchSupplierBookings, FetchPurchase, ImportBooking,
       RebuildConsumptions, MarkProcessed, MarkRetry, MarkDeadLetter, MayRetry, NextEvent
  <2>4. ASSUME NEW r \in Runners, FinishJob(r) \/ AbortJob(r) \/ Crash(r) PROVE LockInv'
    BY <2>4 DEF FinishJob, AbortJob, Crash, LeaveJob
  <2>6. ASSUME UNCHANGED <<lock, pc>> PROVE LockInv'
    BY <2>6
  <2>7. (\E b \in Bookings : ProviderChange(b)) => UNCHANGED <<lock, pc>>
    BY DEF ProviderChange
  <2>8. (\E posted \in SUBSET Events : EnqueueWebhook(posted)) => UNCHANGED <<lock, pc>>
    BY DEF EnqueueWebhook
  <2>9. (\E e \in Events : BackoffElapses(e) \/ AdminRetry(e)) => UNCHANGED <<lock, pc>>
    BY DEF BackoffElapses, AdminRetry
  <2>10. UNCHANGED vars => UNCHANGED <<lock, pc>>
    BY DEF vars
  <2>11. ASSUME NEW i \in Importers, Elsewhere(i) PROVE UNCHANGED <<lock, pc>>
    BY <2>11, ElsewhereLeaves
  <2> QED
    BY <2>1, <2>3, <2>4, <2>6, <2>7, <2>8, <2>9, <2>10, <2>11 DEF Next
<1>3. QED
  BY <1>1, <1>2, TypeCorrect, PTL DEF Spec

\* What is stored, fetched or announced counts versions.
LEMMA Versions ==
  ASSUME TypeOK
  PROVE  /\ \A e \in Events : e.booking \in Bookings /\ e.version \in Nat
         /\ \A b \in Bookings : provider[b] \in Nat
         /\ \A b \in Bookings, half \in Halves : stored[b][half] \in Nat
         /\ \A r \in Runners, half \in Halves : snapshot[r][half] \in Nat
         /\ \A i \in Importers, half \in Halves : elsewhere[i].snapshot[half] \in Nat
<1>1. \A s \in Snapshot, half \in Halves : s[half] \in Nat
  BY DEF Snapshot, Halves
<1> QED
  BY <1>1 DEF TypeOK, ImportersTypeOK, Events

\* The event of a run is under way, and Regiondo has reached its version.
LEMMA CurrentIsReal ==
  ASSUME TypeOK, RunnerShape, ExclusiveClaims, BehindProvider, NEW r \in Runners,
         pc[r] \notin {"idle", "locked", "batch"}
  PROVE  /\ current[r] \in Events
         /\ current[r].booking \in Bookings
         /\ current[r].version \in Nat
         /\ status[current[r]] = "processing"
         /\ current[r].version <= provider[current[r].booking]
<1>1. current[r] \in Events /\ current[r] # NoEvent
  BY DEF TypeOK, RunnerShape
<1>2. status[current[r]] = "processing"
  BY <1>1 DEF ExclusiveClaims, Owned
<1> QED
  BY <1>1, <1>2 DEF BehindProvider, Events

\* A step that stores nothing, fetches nothing and marks nothing processed.
LEMMA QuietKeepsVersions ==
  ASSUME TypeOK, RunnerShape, ExclusiveClaims, VersionInv, AllReflected,
         UNCHANGED <<stored, late, elsewhere>>,
         \A b \in Bookings : provider'[b] \in Nat /\ provider[b] <= provider'[b],
         \A e \in Events : status'[e] = "processed" => status[e] = "processed",
         \A e \in Events : status'[e] # "absent" =>
           status[e] # "absent" \/ e.version <= provider[e.booking],
         \A r \in Runners :
           \/ pc'[r] \notin {"supplier", "hydrated", "imported", "rebuilt"}
           \/ /\ current'[r] = current[r] /\ snapshot'[r] = snapshot[r]
              /\ r \in overtaken' <=> r \in overtaken
              /\ pc'[r] = pc[r] \/ (pc[r] = "imported" /\ pc'[r] = "rebuilt")
  PROVE  VersionInv' /\ AllReflected'
<1>0. \A b, half, v : Covers(b, half, v) => Covers(b, half, v)'
  BY DEF Covers
<1>1. BehindProvider'
  BY Versions DEF VersionInv, BehindProvider, Halves
<1>2. RunsCover'
  <2> SUFFICES ASSUME NEW r \in Runners,
                      pc'[r] \in {"supplier", "hydrated", "imported", "rebuilt"}
               PROVE  /\ pc'[r] \in {"supplier", "hydrated"} => RunCovers(r, "supplier")'
                      /\ pc'[r] = "hydrated" => RunCovers(r, "purchase")'
                      /\ pc'[r] \in {"imported", "rebuilt"} /\ current'[r].booking \notin late'
                           => Reflected(current[r])'
    BY DEF RunsCover
  <2>1. /\ current'[r] = current[r] /\ snapshot'[r] = snapshot[r]
        /\ r \in overtaken' <=> r \in overtaken
        /\ pc'[r] = pc[r] \/ (pc[r] = "imported" /\ pc'[r] = "rebuilt")
    OBVIOUS
  <2>2. current[r].booking \in Bookings
    BY <2>1, CurrentIsReal DEF VersionInv
  <2>3. ASSUME NEW half \in Halves, RunCovers(r, half) PROVE RunCovers(r, half)'
    <3>1. snapshot[r][half] <= provider'[current[r].booking]
      BY <2>2, <2>3, Versions DEF RunCovers
    <3> QED
      BY <1>0, <2>1, <2>3, <3>1 DEF RunCovers
  <2> QED
    BY <2>1, <2>3 DEF VersionInv, RunsCover, Reflected, Halves
<1>3. ImportersCover'
  <2> SUFFICES ASSUME NEW i \in Importers, NEW half \in elsewhere[i].fetched
               PROVE  ImporterCovers(i, half)'
    BY DEF ImportersCover
  <2>1. half \in Halves
    BY DEF TypeOK, ImportersTypeOK
  <2>2. ImporterCovers(i, half)
    BY DEF VersionInv, ImportersCover
  <2>3. elsewhere[i].snapshot[half] <= provider'[elsewhere[i].booking]
    BY <2>1, <2>2, Versions DEF ImporterCovers
  <2>4. \A r \in Runners : pc'[r] \in {"imported", "rebuilt"} =>
           pc[r] \in {"imported", "rebuilt"} /\ current'[r] = current[r]
    OBVIOUS
  <2> QED
    BY <1>0, <2>2, <2>3, <2>4 DEF ImporterCovers
<1>4. AllReflected'
  BY DEF AllReflected, Reflected
<1> QED
  BY <1>1, <1>2, <1>3, <1>4 DEF VersionInv

\* An import of booking b from under another lock.  Unless it was overtaken its
\* snapshot covers what is stored and what was announced; the runs and importers
\* that fetched the booking before it are overtaken.
LEMMA ImportElsewhereKeepsVersions ==
  ASSUME TypeOK, RunnerShape, ExclusiveClaims, VersionInv, AllReflected,
         NEW i \in Importers, ImportElsewhere(i)
  PROVE  VersionInv' /\ AllReflected'
<1> DEFINE hand == elsewhere[i]
           b == hand.booking
<1>0. UNCHANGED <<provider, status, pc, current, snapshot>>
  BY ElsewhereLeaves DEF Elsewhere
<1>1. /\ hand.fetched = Halves
      /\ Store(b, hand.snapshot, hand.overtaken)
      /\ elsewhere' = [OvertakenBy(b) EXCEPT ![i] = EmptyHanded]
      /\ overtaken' = overtaken \cup
           {r \in Runners : pc[r] \in {"supplier", "hydrated"} /\ current[r].booking = b}
  BY DEF ImportElsewhere
<1>2. \A half \in Halves : ImporterCovers(i, half)
  BY <1>1 DEF VersionInv, ImportersCover
<1>3. b \in Bookings
  BY <1>2 DEF ImporterCovers, Halves
<1>4. /\ stored'[b] = hand.snapshot
      /\ \A c \in Bookings \ {b} : stored'[c] = stored[c] /\ (c \in late' <=> c \in late)
      /\ b \in late' <=> hand.overtaken
  BY <1>1, <1>3 DEF Store, TypeOK, ImportersTypeOK
<1>5. /\ elsewhere'[i] = EmptyHanded
      /\ \A j \in Importers \ {i} :
           /\ elsewhere[j].booking = b => elsewhere'[j].overtaken
           /\ elsewhere[j].booking # b => elsewhere'[j].overtaken = elsewhere[j].overtaken
           /\ elsewhere'[j].booking = elsewhere[j].booking
           /\ elsewhere'[j].fetched = elsewhere[j].fetched
           /\ elsewhere'[j].snapshot = elsewhere[j].snapshot
  BY <1>1 DEF OvertakenBy, TypeOK, ImportersTypeOK
<1> HIDE DEF hand, b
<1>6. \A c \in Bookings \ {b} : \A half, v : Covers(c, half, v) => Covers(c, half, v)'
  BY <1>0, <1>4 DEF Covers
<1>7. BehindProvider'
  <2>1. \A half \in Halves : stored'[b][half] <= provider[b]
    BY <1>2, <1>4 DEF ImporterCovers, hand, b
  <2> QED
    BY <1>0, <1>4, <2>1 DEF VersionInv, BehindProvider, Halves
<1>8. \A e \in Events : e.booking = b /\ b \notin late' /\ status[e] = "processed" => Reflected(e)'
  <2>1. ASSUME ~hand.overtaken, NEW e \in Events, e.booking = b, status[e] = "processed"
        PROVE  Reflected(e)'
    <3>1. \A half \in Halves : e.version <= hand.snapshot[half]
      BY <2>1, <1>2 DEF ImporterCovers, Covers, hand, b
    <3> QED
      BY <2>1, <3>1, <1>4 DEF Reflected, Halves
  <2> QED
    BY <1>4, <2>1
<1>9. AllReflected'
  BY <1>0, <1>4, <1>8, Versions DEF AllReflected, Reflected
<1>10. RunsCover'
  <2> SUFFICES ASSUME NEW r \in Runners,
                      pc[r] \in {"supplier", "hydrated", "imported", "rebuilt"}
               PROVE  /\ pc[r] \in {"supplier", "hydrated"} => RunCovers(r, "supplier")'
                      /\ pc[r] = "hydrated" => RunCovers(r, "purchase")'
                      /\ pc[r] \in {"imported", "rebuilt"} /\ current[r].booking \notin late'
                           => Reflected(current[r])'
    BY <1>0 DEF RunsCover
  <2>1. current[r].booking \in Bookings
    BY CurrentIsReal DEF VersionInv
  <2>2. ASSUME NEW half, RunCovers(r, half), pc[r] \in {"supplier", "hydrated"}
        PROVE  RunCovers(r, half)'
    <3>1. r \notin overtaken' => r \notin overtaken /\ current[r].booking # b
      BY <1>1, <2>2 DEF b
    <3> QED
      BY <1>0, <1>6, <2>1, <2>2, <3>1 DEF RunCovers
  <2>3. ASSUME pc[r] \in {"imported", "rebuilt"}, current[r].booking \notin late'
        PROVE  Reflected(current[r])'
    <3>1. CASE current[r].booking = b
      <4>1. ~hand.overtaken
        BY <2>3, <3>1, <1>4
      <4>2. \A half \in Halves : current[r].version <= hand.snapshot[half]
        BY <1>2, <2>3, <3>1, <4>1 DEF ImporterCovers, hand, b
      <4> QED
        BY <1>0, <1>4, <3>1, <4>2 DEF Reflected, Halves
    <3>2. CASE current[r].booking # b
      BY <1>0, <1>4, <2>1, <2>3, <3>2 DEF VersionInv, RunsCover, Reflected
    <3> QED
      BY <3>1, <3>2
  <2> QED
    BY <2>2, <2>3 DEF VersionInv, RunsCover
<1>11. ImportersCover'
  <2> SUFFICES ASSUME NEW j \in Importers, NEW half \in elsewhere'[j].fetched
               PROVE  ImporterCovers(j, half)'
    BY DEF ImportersCover
  <2>1. j # i
    BY <1>5 DEF EmptyHanded
  <2>2. ImporterCovers(j, half)
    BY <1>5, <2>1 DEF VersionInv, ImportersCover
  <2>3. ~elsewhere'[j].overtaken => ~elsewhere[j].overtaken /\ elsewhere[j].booking # b
    BY <1>5, <2>1
  <2> QED
    BY <1>0, <1>5, <1>6, <2>1, <2>2, <2>3 DEF ImporterCovers
<1> QED
  BY <1>7, <1>9, <1>10, <1>11 DEF VersionInv

\* An importer fetches one half: the newest there is.
LEMMA FetchElsewhereKeepsVersions ==
  ASSUME TypeOK, RunnerShape, ExclusiveClaims, VersionInv, AllReflected,
         NEW i \in Importers, NEW b \in Bookings, NEW got \in Halves, FetchElsewhere(i, b, got)
  PROVE  VersionInv' /\ AllReflected'
<1>0. UNCHANGED <<provider, status, pc, current, snapshot, stored, late, overtaken>>
  BY DEF FetchElsewhere, providerVars, eventVars, runnerVars, boundVars
<1>1. /\ elsewhere'[i].booking = b
      /\ elsewhere'[i].fetched = elsewhere[i].fetched \cup {got}
      /\ elsewhere'[i].snapshot = [elsewhere[i].snapshot EXCEPT ![got] = provider[b]]
      /\ elsewhere'[i].overtaken = elsewhere[i].overtaken
      /\ \A j \in Importers \ {i} : elsewhere'[j] = elsewhere[j]
      /\ elsewhere[i].booking \in {NoBooking, b}
  BY DEF FetchElsewhere, TypeOK, ImportersTypeOK
<1>2. elsewhere[i].snapshot \in Snapshot /\ elsewhere[i].fetched \subseteq Halves
  BY DEF TypeOK, ImportersTypeOK
<1>3. /\ elsewhere'[i].snapshot[got] = provider[b]
      /\ \A half \in Halves \ {got} : elsewhere'[i].snapshot[half] = elsewhere[i].snapshot[half]
  BY <1>1, <1>2 DEF Snapshot, Halves
<1>4. \A c, half, v : Covers(c, half, v) <=> Covers(c, half, v)'
  BY <1>0 DEF Covers
<1>5. ImporterCovers(i, got)'
  <2>1. Covers(b, got, provider[b])
    <3>1. stored[b][got] <= provider[b]
      BY DEF VersionInv, BehindProvider, Halves
    <3>2. \A e \in Events : e.booking = b /\ status[e] = "processed" => e.version <= provider[b]
      BY DEF VersionInv, BehindProvider
    <3> QED
      BY <3>1, <3>2 DEF Covers
  <2>2. \A r \in Runners : pc[r] \in {"imported", "rebuilt"} /\ current[r].booking = b
          => current[r].version <= provider[b]
    BY CurrentIsReal DEF VersionInv
  <2>3. provider[b] <= provider[b]
    BY Versions
  <2> QED
    BY <1>0, <1>1, <1>3, <1>4, <2>1, <2>2, <2>3 DEF ImporterCovers
<1>6. ASSUME NEW half \in elsewhere[i].fetched, half # got PROVE ImporterCovers(i, half)'
  <2>1. ImporterCovers(i, half) /\ half \in Halves
    BY <1>2 DEF VersionInv, ImportersCover
  <2>2. elsewhere[i].booking = b
    BY <1>1, <2>1, InboxAssumption DEF ImporterCovers
  <2> QED
    BY <1>0, <1>1, <1>3, <1>4, <1>6, <2>1, <2>2 DEF ImporterCovers
<1>7. ASSUME NEW j \in Importers \ {i}, NEW half \in elsewhere[j].fetched
      PROVE  ImporterCovers(j, half)'
  <2>1. ImporterCovers(j, half)
    BY DEF VersionInv, ImportersCover
  <2> QED
    BY <1>0, <1>1, <1>4, <2>1 DEF ImporterCovers
<1>8. ImportersCover'
  BY <1>1, <1>5, <1>6, <1>7 DEF ImportersCover
<1>9. BehindProvider' /\ AllReflected'
  BY <1>0 DEF VersionInv, BehindProvider, AllReflected, Reflected
<1>10. RunsCover'
  BY <1>0, <1>4 DEF VersionInv, RunsCover, RunCovers, Reflected
<1> QED
  BY <1>8, <1>9, <1>10 DEF VersionInv

\* A run of the inbox stores its snapshot.  While the lock is kept no other run
\* is under way; the importers that have the booking in hand are overtaken.
LEMMA ImportBookingKeepsVersions ==
  ASSUME TypeOK, RunnerShape, ExclusiveClaims, LockInv, VersionInv, AllReflected,
         NEW r \in Runners, ImportBooking(r)
  PROVE  VersionInv' /\ AllReflected'
<1> DEFINE b == current[r].booking
<1>0. UNCHANGED <<provider, status, snapshot, current, overtaken>> /\ pc[r] = "hydrated"
  BY DEF ImportBooking, providerVars, eventVars
<1>1. CASE UNCHANGED bookingVars /\ pc' = [pc EXCEPT ![r] = "fatal"]
  BY <1>0, <1>1, QuietKeepsVersions, Versions DEF bookingVars, TypeOK
<1>2. CASE /\ Store(b, snapshot[r], r \in overtaken)
           /\ elsewhere' = OvertakenBy(b)
           /\ pc' = [pc EXCEPT ![r] = "imported"]
  <2>1. b \in Bookings /\ current[r] \in Events
    BY <1>0, CurrentIsReal DEF VersionInv
  <2>2. /\ pc'[r] = "imported"
        /\ \A s \in Runners \ {r} : pc'[s] = "idle"
    BY <1>0, <1>2 DEF LockInv, TypeOK
  <2>3. /\ stored'[b] = snapshot[r]
        /\ \A c \in Bookings \ {b} : stored'[c] = stored[c] /\ (c \in late' <=> c \in late)
        /\ b \in late' <=> r \in overtaken
    BY <1>2, <2>1 DEF Store, TypeOK, ImportersTypeOK
  <2>4. \A j \in Importers :
          /\ elsewhere[j].booking = b => elsewhere'[j].overtaken
          /\ elsewhere[j].booking # b => elsewhere'[j].overtaken = elsewhere[j].overtaken
          /\ elsewhere'[j].booking = elsewhere[j].booking
          /\ elsewhere'[j].fetched = elsewhere[j].fetched
          /\ elsewhere'[j].snapshot = elsewhere[j].snapshot
    BY <1>2 DEF OvertakenBy, TypeOK, ImportersTypeOK
  <2>5. \A half \in Halves : RunCovers(r, half)
    BY <1>0 DEF VersionInv, RunsCover, Halves
  <2> HIDE DEF b
  <2>6. BehindProvider'
    <3>1. \A half \in Halves : stored'[b][half] <= provider[b]
      BY <2>3, <2>5 DEF RunCovers, b
    <3> QED
      BY <1>0, <2>3, <3>1 DEF VersionInv, BehindProvider, Halves
  <2>7. AllReflected'
    <3> SUFFICES ASSUME NEW e \in Events, status[e] = "processed", e.booking \notin late'
                 PROVE  Reflected(e)'
      BY <1>0 DEF AllReflected
    <3>1. CASE e.booking = b
      <4>1. \A half \in Halves : e.version <= snapshot[r][half]
        BY <2>3, <2>5, <3>1 DEF RunCovers, Covers, b
      <4> QED
        BY <2>3, <3>1, <4>1 DEF Reflected, Halves
    <3>2. CASE e.booking # b
      BY <2>3, <3>2, Versions DEF AllReflected, Reflected
    <3> QED
      BY <3>1, <3>2
  <2>8. RunsCover'
    <3>1. Reflected(current[r])'
      <4>1. \A half \in Halves : current[r].version <= snapshot[r][half]
        BY <2>5 DEF RunCovers
      <4> QED
        BY <1>0, <2>3, <4>1 DEF Reflected, Halves, b
    <3> QED
      BY <1>0, <2>2, <3>1 DEF RunsCover
  <2>9. ImportersCover'
    <3> SUFFICES ASSUME NEW j \in Importers, NEW half \in elsewhere[j].fetched
                 PROVE  ImporterCovers(j, half)'
      BY <2>4 DEF ImportersCover
    <3>1. ImporterCovers(j, half)
      BY DEF VersionInv, ImportersCover
    <3>2. CASE elsewhere[j].booking = b
      BY <1>0, <2>4, <3>1, <3>2 DEF ImporterCovers
    <3>3. CASE elsewhere[j].booking # b
      <4>0. stored'[elsewhere[j].booking] = stored[elsewhere[j].booking]
        BY <2>3, <3>1, <3>3 DEF ImporterCovers
      <4>1. \A c, v : c = elsewhere[j].booking /\ Covers(c, half, v) => Covers(c, half, v)'
        BY <1>0, <4>0 DEF Covers
      <4>2. \A s \in Runners :
              pc'[s] \in {"imported", "rebuilt"} /\ current'[s].booking = elsewhere[j].booking
                => FALSE
        BY <1>0, <2>2, <3>3 DEF b
      <4> QED
        BY <1>0, <2>4, <3>1, <3>3, <4>1, <4>2 DEF ImporterCovers
    <3> QED
      BY <3>2, <3>3
  <2> QED
    BY <2>6, <2>7, <2>8, <2>9 DEF VersionInv
<1> QED
  BY <1>1, <1>2 DEF ImportBooking

\* A run marks its event, which it imported and which every importer that was not
\* overtaken covers.
LEMMA MarkProcessedKeepsVersions ==
  ASSUME TypeOK, RunnerShape, ExclusiveClaims, LockInv, VersionInv, AllReflected,
         NEW r \in Runners, MarkProcessed(r)
  PROVE  VersionInv' /\ AllReflected'
<1>0. UNCHANGED <<provider, stored, late, elsewhere>> /\ pc[r] = "rebuilt"
  BY DEF MarkProcessed, providerVars, bookingVars
<1>1. CASE pc' = [pc EXCEPT ![r] = "fatal"] /\ UNCHANGED <<status, current, snapshot, overtaken>>
  BY <1>0, <1>1, QuietKeepsVersions, Versions DEF TypeOK
<1>2. CASE NextEvent(r) /\ status' = [status EXCEPT ![current[r]] = "processed"]
  <2>1. current[r] \in Events /\ status[current[r]] = "processing"
        /\ current[r].version <= provider[current[r].booking]
    BY <1>0, CurrentIsReal DEF VersionInv
  <2>2. /\ status'[current[r]] = "processed"
        /\ \A e \in Events \ {current[r]} : status'[e] = status[e]
    BY <1>2, <2>1 DEF TypeOK
  <2>3. \A s \in Runners : pc'[s] \in {"idle", "batch"}
    BY <1>0, <1>2 DEF NextEvent, LockInv, TypeOK
  <2>4. BehindProvider'
    BY <1>0, <2>1, <2>2 DEF VersionInv, BehindProvider
  <2>5. AllReflected'
    BY <1>0, <2>2 DEF VersionInv, RunsCover, AllReflected, Reflected
  <2>6. RunsCover'
    BY <2>3 DEF RunsCover
  <2>7. ImportersCover'
    <3> SUFFICES ASSUME NEW j \in Importers, NEW half \in elsewhere[j].fetched
                 PROVE  ImporterCovers(j, half)'
      BY <1>0 DEF ImportersCover
    <3>1. ImporterCovers(j, half)
      BY DEF VersionInv, ImportersCover
    <3>2. ASSUME ~elsewhere[j].overtaken
          PROVE  Covers(elsewhere[j].booking, half, elsewhere[j].snapshot[half])'
      BY <1>0, <2>1, <2>2, <3>1, <3>2 DEF ImporterCovers, Covers
    <3> QED
      BY <1>0, <2>3, <3>1, <3>2 DEF ImporterCovers
  <2> QED
    BY <2>4, <2>5, <2>6, <2>7 DEF VersionInv
<1> QED
  BY <1>1, <1>2 DEF MarkProcessed

\* A run fetches a half of its snapshot: the newest there is.
LEMMA FetchKeepsVersions ==
  ASSUME TypeOK, RunnerShape, ExclusiveClaims, VersionInv, AllReflected,
         NEW r \in Runners, (\E e \in Events : FetchSupplierBookings(r, e)) \/ FetchPurchase(r)
  PROVE  VersionInv' /\ AllReflected'
<1>0. UNCHANGED <<provider, status, stored, late, elsewhere, overtaken>>
  BY DEF FetchSupplierBookings, FetchPurchase, providerVars, eventVars, bookingVars
<1>1. \A b, half, v : Covers(b, half, v) <=> Covers(b, half, v)'
  BY <1>0 DEF Covers
<1>2. \A b \in Bookings, half \in Halves : Covers(b, half, provider[b])
  BY DEF VersionInv, BehindProvider, Covers, Halves
<1>3. \A s \in Runners \ {r} :
        pc'[s] = pc[s] /\ current'[s] = current[s] /\ snapshot'[s] = snapshot[s]
  BY DEF FetchSupplierBookings, FetchPurchase, TypeOK
<1>4. pc'[r] \notin {"imported", "rebuilt"}
  BY DEF FetchSupplierBookings, FetchPurchase, TypeOK
<1>5. \A s \in Runners \ {r} : \A half \in Halves : RunCovers(s, half) => RunCovers(s, half)'
  BY <1>0, <1>1, <1>3 DEF RunCovers
<1>6. /\ pc'[r] \in {"supplier", "hydrated"} => RunCovers(r, "supplier")'
      /\ pc'[r] = "hydrated" => RunCovers(r, "purchase")'
  <2>1. ASSUME NEW e \in Events, FetchSupplierBookings(r, e)
        PROVE  pc'[r] # "hydrated" /\ RunCovers(r, "supplier")'
    <3>1. status[e] = "processing"
      BY <2>1 DEF FetchSupplierBookings, ExclusiveClaims, Owned
    <3>2. e.version <= provider[e.booking] /\ e.booking \in Bookings
      BY <3>1, Versions DEF VersionInv, BehindProvider
    <3>3. current'[r] = e /\ snapshot'[r]["supplier"] = provider[e.booking]
      BY <2>1 DEF FetchSupplierBookings, TypeOK
    <3>4. Covers(e.booking, "supplier", provider[e.booking])'
      BY <1>0, <1>1, <1>2, <3>2 DEF Halves
    <3>5. provider[e.booking] <= provider[e.booking]
      BY <3>2, Versions
    <3> QED
      BY <2>1, <1>0, <3>2, <3>3, <3>4, <3>5 DEF FetchSupplierBookings, RunCovers, TypeOK
  <2>2. CASE FetchPurchase(r)
    <3>1. /\ pc[r] = "supplier" /\ current'[r] = current[r]
          /\ snapshot'[r]["supplier"] = snapshot[r]["supplier"]
          /\ snapshot'[r]["purchase"] = provider[current[r].booking]
      BY <2>2 DEF FetchPurchase, TypeOK
    <3>2. RunCovers(r, "supplier")
      BY <3>1 DEF VersionInv, RunsCover
    <3>3. RunCovers(r, "supplier")'
      BY <1>0, <1>1, <3>1, <3>2 DEF RunCovers
    <3>4. current[r].booking \in Bookings /\ current[r].version <= provider[current[r].booking]
      BY <3>1, CurrentIsReal DEF VersionInv
    <3>5. Covers(current[r].booking, "purchase", provider[current[r].booking])'
      BY <1>0, <1>1, <1>2, <3>1, <3>4 DEF Halves
    <3>6. provider[current[r].booking] <= provider[current[r].booking]
      BY <3>4, Versions
    <3>7. RunCovers(r, "purchase")'
      BY <1>0, <3>1, <3>4, <3>5, <3>6 DEF RunCovers
    <3> QED
      BY <3>3, <3>7
  <2> QED
    BY <2>1, <2>2
<1>7. RunsCover'
  BY <1>0, <1>3, <1>4, <1>5, <1>6 DEF VersionInv, RunsCover, Reflected, Halves
<1>8. BehindProvider' /\ AllReflected'
  BY <1>0 DEF VersionInv, BehindProvider, AllReflected, Reflected
<1>9. ImportersCover'
  <2> SUFFICES ASSUME NEW j \in Importers, NEW half \in elsewhere[j].fetched
               PROVE  ImporterCovers(j, half)'
    BY <1>0 DEF ImportersCover
  <2>1. ImporterCovers(j, half)
    BY DEF VersionInv, ImportersCover
  <2> QED
    BY <1>0, <1>1, <1>3, <1>4, <2>1 DEF ImporterCovers
<1> QED
  BY <1>7, <1>8, <1>9 DEF VersionInv

\* The heart of the ordering argument: while the lock is kept, what a run or an
\* importer fetched, and nobody overtook, is no older than its event, than what is
\* stored and than what was processed, up to the moment it is written.
LEMMA VersionsOrdered == Spec => [](lockLosses = 0 => VersionInv /\ AllReflected)
<1> DEFINE Inv == VersionInv /\ AllReflected
           Known == TypeOK /\ RunnerShape /\ ExclusiveClaims /\ (lockLosses = 0 => LockInv)
<1>1. Init => Inv
  BY DEF Init, VersionInv, BehindProvider, RunsCover, ImportersCover, AllReflected, NoSnapshot,
         EmptyHanded, Events
<1>2. Known /\ (lockLosses = 0 => Inv) /\ [Next]_vars => (lockLosses = 0 => Inv)'
  <2> SUFFICES ASSUME TypeOK, RunnerShape, ExclusiveClaims, lockLosses = 0 => LockInv,
                      lockLosses = 0 => Inv, [Next]_vars, lockLosses' = 0
               PROVE  Inv'
    OBVIOUS
  <2> SUFFICES ASSUME LockInv, VersionInv, AllReflected, ~LoseLock PROVE Inv'
    BY LossesCount
  <2>0. ASSUME UNCHANGED <<stored, late, elsewhere, provider>>,
               \A e \in Events : status'[e] = "processed" => status[e] = "processed",
               \A e \in Events : status'[e] # "absent" =>
                 status[e] # "absent" \/ e.version <= provider[e.booking],
               \A r \in Runners :
                 \/ pc'[r] \notin {"supplier", "hydrated", "imported", "rebuilt"}
                 \/ /\ current'[r] = current[r] /\ snapshot'[r] = snapshot[r]
                    /\ r \in overtaken' <=> r \in overtaken
                    /\ pc'[r] = pc[r] \/ (pc[r] = "imported" /\ pc'[r] = "rebuilt")
        PROVE  Inv'
    <3>1. \A b \in Bookings : provider'[b] \in Nat /\ provider[b] <= provider'[b]
      BY <2>0, Versions
    <3> QED
      BY <2>0, <3>1, QuietKeepsVersions
  <2> USE DEF providerVars, eventVars, runnerVars, bookingVars, boundVars
  <2>1. ASSUME NEW b \in Bookings, ProviderChange(b) PROVE Inv'
    <3>1. \A c \in Bookings : provider'[c] \in Nat /\ provider[c] <= provider'[c]
      BY <2>1, Versions DEF ProviderChange, TypeOK
    <3> QED
      BY <2>1, <3>1, QuietKeepsVersions DEF ProviderChange
  <2>2. ASSUME NEW posted \in SUBSET Events, EnqueueWebhook(posted) PROVE Inv'
    BY <2>0, <2>2 DEF EnqueueWebhook, TypeOK
  <2>3. ASSUME NEW e \in Events, BackoffElapses(e) \/ AdminRetry(e) PROVE Inv'
    BY <2>0, <2>3 DEF BackoffElapses, AdminRetry, TypeOK
  <2>4. ASSUME NEW r \in Runners, AcquireLock(r) PROVE Inv'
    BY <2>0, <2>4 DEF AcquireLock, TypeOK
  <2>5. ASSUME NEW r \in Runners, ClaimEvents(r) PROVE Inv'
    BY <2>0, <2>5 DEF ClaimEvents, OldestClaimable, Claimable, TypeOK
  <2>6. ASSUME NEW r \in Runners, NEW e \in Events, FetchSupplierBookings(r, e) PROVE Inv'
    BY <2>6, FetchKeepsVersions
  <2>7. ASSUME NEW r \in Runners, FetchPurchase(r) PROVE Inv'
    BY <2>7, FetchKeepsVersions
  <2>8. ASSUME NEW r \in Runners, ImportBooking(r) PROVE Inv'
    BY <2>8, ImportBookingKeepsVersions
  <2>9. ASSUME NEW r \in Runners, RebuildConsumptions(r) PROVE Inv'
    BY <2>0, <2>9 DEF RebuildConsumptions, TypeOK
  <2>10. ASSUME NEW r \in Runners, MarkProcessed(r) PROVE Inv'
    BY <2>10, MarkProcessedKeepsVersions
  <2>11. ASSUME NEW r \in Runners, MarkRetry(r) \/ MarkDeadLetter(r) PROVE Inv'
    <3>1. UNCHANGED <<provider, stored, late, elsewhere>> /\ NextEvent(r)
          /\ pc[r] \in {"retryable", "fatal"}
      BY <2>11 DEF MarkRetry, MarkDeadLetter, MayRetry
    <3>2. current[r] \in Events /\ status[current[r]] = "processing"
      BY <3>1, CurrentIsReal DEF VersionInv
    <3>3. \A e \in Events : status'[e] = status[e] \/ (e = current[r] /\ status'[e] # "processed")
      BY <2>11, <3>2 DEF MarkRetry, MarkDeadLetter, TypeOK
    <3>4. \A s \in Runners :
            \/ pc'[s] = "batch"
            \/ /\ pc'[s] = pc[s] /\ current'[s] = current[s] /\ snapshot'[s] = snapshot[s]
               /\ s \in overtaken' <=> s \in overtaken
      BY <3>1 DEF NextEvent, TypeOK
    <3> QED
      BY <2>0, <3>1, <3>2, <3>3, <3>4
  <2>12. ASSUME NEW r \in Runners, FinishJob(r) \/ AbortJob(r) \/ Crash(r) PROVE Inv'
    <3>1. LeaveJob(r) /\ UNCHANGED <<provider, status, stored, late, elsewhere>>
      BY <2>12 DEF FinishJob, AbortJob, Crash
    <3>2. \A s \in Runners :
            \/ pc'[s] = "idle"
            \/ /\ pc'[s] = pc[s] /\ current'[s] = current[s] /\ snapshot'[s] = snapshot[s]
               /\ s \in overtaken' <=> s \in overtaken
      BY <3>1 DEF LeaveJob, TypeOK
    <3> QED
      BY <2>0, <3>1, <3>2
  <2>13. CASE UNCHANGED vars
    BY <2>0, <2>13 DEF vars
  <2>14. ASSUME NEW i \in Importers, NEW b \in Bookings, NEW half \in Halves,
                FetchElsewhere(i, b, half)
         PROVE  Inv'
    BY <2>14, FetchElsewhereKeepsVersions
  <2>15. ASSUME NEW i \in Importers, ImportElsewhere(i) PROVE Inv'
    BY <2>15, ImportElsewhereKeepsVersions
  <2>16. ASSUME NEW i \in Importers, GiveUpElsewhere(i) PROVE Inv'
    <3>1. UNCHANGED <<provider, status, pc, current, snapshot, overtaken, stored, late>>
      BY <2>16 DEF GiveUpElsewhere
    <3>2. \A j \in Importers : elsewhere'[j] = elsewhere[j] \/ elsewhere'[j].fetched = {}
      BY <2>16 DEF GiveUpElsewhere, EmptyHanded, TypeOK, ImportersTypeOK
    <3>3. \A b, half, v : Covers(b, half, v) <=> Covers(b, half, v)'
      BY <3>1 DEF Covers
    <3>4. ImportersCover'
      BY <3>1, <3>2, <3>3 DEF VersionInv, ImportersCover, ImporterCovers
    <3>5. RunsCover'
      BY <3>1, <3>3 DEF VersionInv, RunsCover, RunCovers, Reflected
    <3> QED
      BY <3>1, <3>4, <3>5 DEF VersionInv, BehindProvider, AllReflected, Reflected
  <2> QED
    BY <2>1, <2>2, <2>3, <2>4, <2>5, <2>6, <2>7, <2>8, <2>9, <2>10, <2>11, <2>12, <2>13, <2>14,
       <2>15, <2>16 DEF Next, Progress, Elsewhere
<1>3. QED
  BY <1>1, <1>2, TypeCorrect, ClaimsExclusive, LockExcludes, PTL DEF Spec

\* While the lock is kept, an event marked processed is reflected in both halves
\* of the stored booking, unless the last import of the booking was overtaken by
\* one under another lock.
THEOREM ProcessedAreReflected == Spec => []ProcessedReflected
<1>1. (lockLosses = 0 => VersionInv /\ AllReflected) => ProcessedReflected
  BY DEF ProcessedReflected
<1>2. QED
  BY <1>1, VersionsOrdered, PTL

\* While the lock is kept, no import takes a booking back to an older snapshot but
\* one that an import under another lock overtook between its fetch and its write.
THEOREM ImportsNeverStale == Spec => NoStaleImport
<1> DEFINE Grows == \A b \in Bookings : \/ b \in late'
                                        \/ /\ stored'[b].supplier >= stored[b].supplier
                                           /\ stored'[b].purchase >= stored[b].purchase
<1>1. TypeOK /\ RunnerShape /\ (lockLosses = 0 => VersionInv /\ AllReflected) /\ [Next]_vars =>
        (lockLosses = 0 => Grows)
  <2> SUFFICES ASSUME TypeOK, RunnerShape, VersionInv, [Next]_vars PROVE Grows
    OBVIOUS
  <2> USE DEF providerVars, eventVars, runnerVars, bookingVars, boundVars
  <2>0. \A b \in Bookings, half \in Halves : stored[b][half] \in Nat
    BY Versions
  <2>1. CASE UNCHANGED stored
    BY <2>0, <2>1 DEF Halves
  <2>2. ASSUME NEW b \in Bookings, NEW taken \in Snapshot, NEW isLate, Store(b, taken, isLate),
               ~isLate => \A half \in Halves : stored[b][half] <= taken[half]
        PROVE  Grows
    <3> SUFFICES ASSUME NEW c \in Bookings, c \notin late'
                 PROVE  \A half \in Halves : stored'[c][half] >= stored[c][half]
      BY DEF Halves
    <3>1. CASE c = b
      <4>1. ~isLate /\ stored'[c] = taken
        BY <2>2, <3>1 DEF Store, TypeOK
      <4>2. \A half \in Halves : taken[half] \in Nat
        BY DEF Snapshot, Halves
      <4> QED
        BY <2>0, <2>2, <3>1, <4>1, <4>2
    <3>2. CASE c # b
      <4>1. stored'[c] = stored[c]
        BY <2>2, <3>2 DEF Store, TypeOK
      <4> QED
        BY <2>0, <4>1
    <3> QED
      BY <3>1, <3>2
  <2>3. ASSUME NEW r \in Runners, ImportBooking(r), ~UNCHANGED stored PROVE Grows
    <3>1. pc[r] = "hydrated" /\ Store(current[r].booking, snapshot[r], r \in overtaken)
      BY <2>3 DEF ImportBooking
    <3>2. current[r].booking \in Bookings /\ snapshot[r] \in Snapshot
      BY <3>1 DEF RunnerShape, TypeOK, Events
    <3>3. r \notin overtaken =>
            \A half \in Halves : stored[current[r].booking][half] <= snapshot[r][half]
      BY <3>1 DEF VersionInv, RunsCover, RunCovers, Covers, Halves
    <3> QED
      BY <2>2, <3>1, <3>2, <3>3
  <2>4. ASSUME NEW i \in Importers, ImportElsewhere(i) PROVE Grows
    <3> DEFINE hand == elsewhere[i]
    <3>1. hand.fetched = Halves /\ Store(hand.booking, hand.snapshot, hand.overtaken)
      BY <2>4 DEF ImportElsewhere
    <3>2. \A half \in Halves : ImporterCovers(i, half)
      BY <3>1 DEF VersionInv, ImportersCover
    <3>3. hand.booking \in Bookings /\ hand.snapshot \in Snapshot
      BY <3>2 DEF ImporterCovers, Halves, TypeOK, ImportersTypeOK
    <3>4. ~hand.overtaken => \A half \in Halves : stored[hand.booking][half] <= hand.snapshot[half]
      BY <3>2 DEF ImporterCovers, Covers
    <3> HIDE DEF hand
    <3> QED
      BY <2>2, <3>1, <3>3, <3>4
  <2>5. ASSUME NEW r \in Runners, AcquireLock(r) \/ Progress(r) \/ AbortJob(r) \/ Crash(r),
               ~ImportBooking(r)
        PROVE  UNCHANGED stored
    BY <2>5 DEF AcquireLock, Progress, ClaimEvents, FetchSupplierBookings, FetchPurchase,
       RebuildConsumptions, MarkProcessed, MarkRetry, MarkDeadLetter, FinishJob, AbortJob, Crash
  <2>6. ASSUME \/ \E b \in Bookings : ProviderChange(b)
               \/ \E posted \in SUBSET Events : EnqueueWebhook(posted)
               \/ \E e \in Events : BackoffElapses(e) \/ AdminRetry(e)
               \/ \E i \in Importers : Elsewhere(i) /\ ~ImportElsewhere(i)
               \/ LoseLock \/ UNCHANGED vars
        PROVE  UNCHANGED stored
    BY <2>6 DEF ProviderChange, EnqueueWebhook, BackoffElapses, AdminRetry, Elsewhere,
       FetchElsewhere, GiveUpElsewhere, LoseLock, vars
  <2> QED
    BY <2>1, <2>3, <2>4, <2>5, <2>6 DEF Next, Progress
<1>2. QED
  BY <1>1, TypeCorrect, VersionsOrdered, PTL DEF Spec, NoStaleImport

-----------------------------------------------------------------------------
(* The inbox implements ClaimQueue.  The mapping reads the state of an item    *)
(* off the status column and its owner off what the runners hold.              *)

\* With exclusive claims the owner of an event is the one runner that holds it.
LEMMA OwnerIsHolder ==
  ASSUME TypeOK, ExclusiveClaims, NEW e \in Events
  PROVE  /\ \A r \in Runners : e \in Owned(r) => QueueOwner[e] = r
         /\ (\A r \in Runners : e \notin Owned(r)) => QueueOwner[e] = NoRunner
<1>1. ASSUME NEW r \in Runners, e \in Owned(r) PROVE QueueOwner[e] = r
  <2>1. \A s \in Runners : e \in Owned(s) => s = r
    BY <1>1 DEF ExclusiveClaims
  <2> HIDE DEF Owned
  <2>2. (CHOOSE s \in Runners : e \in Owned(s)) = r
    BY <1>1, <2>1
  <2> QED
    BY <1>1, <2>2 DEF QueueOwner
<1>2. (\A r \in Runners : e \notin Owned(r)) => QueueOwner[e] = NoRunner
  BY DEF QueueOwner
<1> QED
  BY <1>1, <1>2

\* Every behaviour of the inbox is, step by step, a behaviour of a claim queue:
\* the code hands an event to one run at a time, a run claims only when it has
\* nothing left, a settled event comes back only by an operator's hand, and a
\* run that dies strands what it had claimed.
THEOREM InboxImplementsQueue == Spec => ImplementsQueue
<1> DEFINE Inv == TypeOK /\ RunnerShape /\ ExclusiveClaims
<1> USE InboxAssumption
<1>0. NoEvent \notin Events
  BY DEF Events
<1>1. Init => Queue!Init
  <2> SUFFICES ASSUME Init PROVE Queue!Init
    OBVIOUS
  <2>1. \A r \in Runners : Owned(r) = {}
    BY DEF Init, Owned
  <2>2. QueueOwner = [e \in Events |-> NoRunner]
    BY <2>1 DEF QueueOwner
  <2>3. QueueState = [e \in Events |-> "absent"]
    BY DEF QueueState, Init
  <2> QED
    BY <2>2, <2>3 DEF Queue!Init
<1>2. Inv /\ Inv' /\ [Next]_vars => [Queue!Next]_(Queue!vars)
  <2> SUFFICES ASSUME Inv, Inv', [Next]_vars
               PROVE  Queue!Next \/ (QueueState' = QueueState /\ QueueOwner' = QueueOwner)
    BY DEF Queue!vars
  <2> USE DEF providerVars, eventVars, runnerVars, boundVars
  <2> DEFINE Goal == Queue!Next \/ (QueueState' = QueueState /\ QueueOwner' = QueueOwner)
  <2>a. \A e \in Events, r \in Runners : e \in Owned(r) => QueueOwner[e] = r
    BY OwnerIsHolder
  <2>b. \A e \in Events : (\A r \in Runners : e \notin Owned(r)) => QueueOwner[e] = NoRunner
    BY OwnerIsHolder
  <2>c. \A r \in Runners : Owned(r) \subseteq Events
    BY DEF TypeOK, Owned
  <2>d. ASSUME status' = status PROVE QueueState' = QueueState
    BY <2>d DEF QueueState
  <2>e. ASSUME \A r \in Runners : Owned(r)' = Owned(r) PROVE QueueOwner' = QueueOwner
    <3> HIDE DEF Owned
    <3> QED
      BY <2>e DEF QueueOwner
  <2>f. ASSUME batch' = batch, current' = current PROVE QueueOwner' = QueueOwner
    BY <2>f, <2>e DEF Owned
  <2>1. ASSUME NEW b \in Bookings, ProviderChange(b) PROVE Goal
    BY <2>1, <2>d, <2>f DEF ProviderChange
  <2>2. ASSUME NEW posted \in SUBSET Events, EnqueueWebhook(posted) PROVE Goal
    <3> DEFINE new == {e \in posted : status[e] = "absent"}
    <3>1. /\ status' = [e \in Events |-> IF e \in new THEN "pending" ELSE status[e]]
          /\ new \in SUBSET Events
      BY <2>2 DEF EnqueueWebhook
    <3>2. \A e \in new : QueueState[e] = "absent"
      BY <3>1 DEF QueueState
    <3>3. QueueState' = [e \in Events |-> IF e \in new THEN "ready" ELSE QueueState[e]]
      BY <3>1 DEF QueueState
    <3>4. QueueOwner' = QueueOwner
      BY <2>2, <2>f DEF EnqueueWebhook
    <3> QED
      BY <3>1, <3>2, <3>3, <3>4 DEF Queue!Next, Queue!Add
  <2>3. ASSUME NEW e \in Events, BackoffElapses(e) PROVE Goal
    BY <2>3, <2>d, <2>f DEF BackoffElapses
  <2>4. ASSUME NEW e \in Events, AdminRetry(e) PROVE Goal
    <3>1. /\ status[e] \in {"retrying", "dead_letter"}
          /\ status' = [status EXCEPT ![e] = "retrying"]
          /\ QueueOwner' = QueueOwner
      BY <2>4, <2>f DEF AdminRetry
    <3>2. CASE status[e] = "retrying"
      <4>1. status' = status
        BY <3>1, <3>2 DEF TypeOK
      <4> QED
        BY <2>d, <3>1, <4>1
    <3>3. CASE status[e] = "dead_letter"
      <4>1. QueueState[e] = "failed"
        BY <3>3 DEF QueueState
      <4>2. QueueState' = [QueueState EXCEPT ![e] = "ready"]
        BY <3>1 DEF QueueState, TypeOK
      <4> QED
        BY <3>1, <4>1, <4>2 DEF Queue!Next, Queue!Requeue
    <3> QED
      BY <3>1, <3>2, <3>3
  <2>5. ASSUME NEW r \in Runners, AcquireLock(r) PROVE Goal
    BY <2>5, <2>d, <2>f DEF AcquireLock
  <2>6. ASSUME NEW r \in Runners, ClaimEvents(r) PROVE Goal
    <3>1. PICK claimed \in SUBSET Claimable :
            /\ status' = [e \in Events |-> IF e \in claimed THEN "processing" ELSE status[e]]
            /\ batch' = [batch EXCEPT ![r] = claimed]
      BY <2>6 DEF ClaimEvents, OldestClaimable
    <3>2. claimed \in SUBSET Events /\ \A e \in claimed : status[e] \in {"pending", "retrying"}
      BY DEF Claimable, TypeOK
    <3>3. Owned(r) = {} /\ Owned(r)' = claimed
      BY <1>0, <2>6, <3>1, <3>2 DEF ClaimEvents, Owned, TypeOK, RunnerShape
    <3>4. \A s \in Runners \ {r} : Owned(s)' = Owned(s)
      BY <2>6, <3>1 DEF ClaimEvents, Owned, TypeOK
    <3>5. \A e \in Events : QueueOwner[e] # r
      <4> SUFFICES ASSUME NEW e \in Events PROVE QueueOwner[e] # r
        OBVIOUS
      <4> HIDE DEF Owned
      <4>1. CASE \E s \in Runners : e \in Owned(s)
        BY <2>a, <3>3, <4>1
      <4>2. CASE \A s \in Runners : e \notin Owned(s)
        BY <2>b, <4>2
      <4> QED
        BY <4>1, <4>2
    <3>6. \A e \in claimed : QueueState[e] = "ready"
      BY <3>2 DEF QueueState
    <3>7. QueueState' = [e \in Events |-> IF e \in claimed THEN "claimed" ELSE QueueState[e]]
      BY <3>1 DEF QueueState
    <3>8. QueueOwner' = [e \in Events |-> IF e \in claimed THEN r ELSE QueueOwner[e]]
      <4> SUFFICES ASSUME NEW e \in Events
                   PROVE  QueueOwner'[e] = IF e \in claimed THEN r ELSE QueueOwner[e]
        BY DEF QueueOwner
      <4>1. /\ \A s \in Runners : e \in Owned(s)' => QueueOwner'[e] = s
            /\ (\A s \in Runners : e \notin Owned(s)') => QueueOwner'[e] = NoRunner
        <5>1. \A s \in Runners, t \in Runners : e \in Owned(s)' /\ e \in Owned(t)' => s = t
          BY DEF ExclusiveClaims
        <5> HIDE DEF Owned
        <5>2. \A s \in Runners : e \in Owned(s)' => (CHOOSE t \in Runners : e \in Owned(t)') = s
          BY <5>1
        <5> QED
          BY <5>2 DEF QueueOwner
      <4> HIDE DEF Owned
      <4>2. CASE e \in claimed
        BY <3>3, <4>1, <4>2
      <4>3. CASE e \notin claimed /\ \E s \in Runners : e \in Owned(s)
        BY <2>a, <3>3, <3>4, <4>1, <4>3
      <4>4. CASE e \notin claimed /\ \A s \in Runners : e \notin Owned(s)
        BY <2>b, <3>3, <3>4, <4>1, <4>4
      <4> QED
        BY <4>2, <4>3, <4>4
    <3> QED
      BY <3>2, <3>5, <3>6, <3>7, <3>8 DEF Queue!Next, Queue!Claim
  <2>7. ASSUME NEW r \in Runners, NEW e \in Events, FetchSupplierBookings(r, e) PROVE Goal
    <3>1. current[r] = NoEvent /\ e \in batch[r] /\ status' = status
      BY <2>7 DEF FetchSupplierBookings, RunnerShape
    <3>2. \A s \in Runners : Owned(s)' = Owned(s)
      BY <1>0, <2>7, <3>1 DEF FetchSupplierBookings, TypeOK, Owned
    <3> QED
      BY <2>d, <2>e, <3>1, <3>2
  <2>8. ASSUME NEW r \in Runners,
               FetchPurchase(r) \/ ImportBooking(r) \/ RebuildConsumptions(r)
        PROVE  Goal
    BY <2>8, <2>d, <2>f DEF FetchPurchase, ImportBooking, RebuildConsumptions
  <2>9. ASSUME NEW r \in Runners, NEW st \in {"processed", "retrying", "dead_letter"},
               NextEvent(r), batch' = batch, current[r] \in Events,
               status' = [status EXCEPT ![current[r]] = st]
        PROVE  Goal
    <3> DEFINE e == current[r]
               outcome == CASE st = "retrying" -> "ready" [] st = "processed" -> "done"
                            [] OTHER -> "failed"
    <3>1. e \in Owned(r) /\ Owned(r)' = Owned(r) \ {e}
      BY <1>0, <2>9 DEF NextEvent, TypeOK, RunnerShape, Owned
    <3>2. \A s \in Runners \ {r} : Owned(s)' = Owned(s) /\ e \notin Owned(s)
      BY <1>0, <2>9 DEF NextEvent, TypeOK, RunnerShape, Owned, ExclusiveClaims
    <3>3. QueueState' = [QueueState EXCEPT ![e] = outcome]
      BY <2>9 DEF QueueState, TypeOK
    <3>4. QueueOwner[e] = r
      BY <2>9, <2>a, <3>1
    <3>5. QueueOwner' = [QueueOwner EXCEPT ![e] = NoRunner]
      <4>1. \A f \in Events \ {e}, s \in Runners : f \in Owned(s)' <=> f \in Owned(s)
        BY <3>1, <3>2
      <4>2. \A s \in Runners : e \notin Owned(s)'
        BY <3>1, <3>2
      <4> HIDE DEF Owned, e
      <4> SUFFICES ASSUME NEW f \in Events
                   PROVE  QueueOwner'[f] = IF f = e THEN NoRunner ELSE QueueOwner[f]
        BY DEF QueueOwner
      <4>3. CASE f = e
        BY <4>2, <4>3 DEF QueueOwner
      <4>4. CASE f # e
        BY <4>1, <4>4 DEF QueueOwner
      <4> QED
        BY <4>3, <4>4
    <3>6. outcome \in {"ready", "done", "failed"}
      OBVIOUS
    <3> HIDE DEF outcome
    <3>7. Queue!Settle(r, e, outcome)
      BY <3>3, <3>4, <3>5 DEF Queue!Settle
    <3> QED
      BY <2>9, <3>6, <3>7 DEF Queue!Next
  <2>10. ASSUME NEW r \in Runners, MarkProcessed(r) PROVE Goal
    <3>1. CASE UNCHANGED <<status, current>>
      BY <2>10, <2>d, <2>f, <3>1 DEF MarkProcessed
    <3>2. CASE NextEvent(r) /\ status' = [status EXCEPT ![current[r]] = "processed"]
      <4>1. batch' = batch /\ current[r] \in Events
        BY <2>10 DEF MarkProcessed, TypeOK, RunnerShape
      <4> QED
        BY <2>9, <3>2, <4>1
    <3> QED
      BY <2>10, <3>1, <3>2 DEF MarkProcessed
  <2>11. ASSUME NEW r \in Runners, MarkRetry(r) PROVE Goal
    <3>1. /\ NextEvent(r) /\ batch' = batch /\ current[r] \in Events
          /\ status' = [status EXCEPT ![current[r]] = "retrying"]
      BY <2>11 DEF MarkRetry, MayRetry, TypeOK, RunnerShape
    <3> QED
      BY <2>9, <3>1
  <2>12. ASSUME NEW r \in Runners, MarkDeadLetter(r) PROVE Goal
    <3>1. /\ NextEvent(r) /\ batch' = batch /\ current[r] \in Events
          /\ status' = [status EXCEPT ![current[r]] = "dead_letter"]
      BY <2>12 DEF MarkDeadLetter, TypeOK, RunnerShape
    <3> QED
      BY <2>9, <3>1
  <2>13. ASSUME NEW r \in Runners, FinishJob(r) \/ AbortJob(r) \/ Crash(r) PROVE Goal
    <3>1. LeaveJob(r) /\ status' = status
      BY <2>13 DEF FinishJob, AbortJob, Crash
    <3>2. Owned(r)' = {} /\ \A s \in Runners \ {r} : Owned(s)' = Owned(s)
      BY <3>1 DEF LeaveJob, TypeOK, Owned
    <3>3. QueueOwner' = [e \in Events |-> IF QueueOwner[e] = r THEN NoRunner ELSE QueueOwner[e]]
      <4> SUFFICES ASSUME NEW e \in Events
                   PROVE  QueueOwner'[e] = IF QueueOwner[e] = r THEN NoRunner ELSE QueueOwner[e]
        BY DEF QueueOwner
      <4>1. CASE e \in Owned(r)
        <5>1. \A s \in Runners : e \notin Owned(s)'
          BY <3>2, <4>1 DEF ExclusiveClaims
        <5> HIDE DEF Owned
        <5>2. QueueOwner'[e] = NoRunner
          BY <5>1 DEF QueueOwner
        <5> QED
          BY <2>a, <4>1, <5>2
      <4>2. CASE e \notin Owned(r)
        <5> HIDE DEF Owned
        <5>1. \A s \in Runners : e \in Owned(s)' <=> e \in Owned(s)
          BY <3>2, <4>2
        <5>2. QueueOwner'[e] = QueueOwner[e]
          BY <5>1 DEF QueueOwner
        <5>3. QueueOwner[e] # r
          BY <2>a, <2>b, <4>2
        <5> QED
          BY <5>2, <5>3
      <4> QED
        BY <4>1, <4>2
    <3>4. QueueState' = QueueState
      BY <2>d, <3>1
    <3> QED
      BY <3>3, <3>4 DEF Queue!Next, Queue!Abandon
  <2>14. CASE LoseLock
    BY <2>14, <2>d, <2>f DEF LoseLock
  <2>15. CASE UNCHANGED vars
    BY <2>15, <2>d, <2>f DEF vars
  <2>16. ASSUME NEW i \in Importers, Elsewhere(i) PROVE Goal
    BY <2>16, <2>d, <2>f, ElsewhereLeaves
  <2> QED
    BY <2>1, <2>2, <2>3, <2>4, <2>5, <2>6, <2>7, <2>8, <2>10, <2>11, <2>12, <2>13, <2>14, <2>15,
       <2>16 DEF Next, Progress
<1>3. QED
  BY <1>1, <1>2, TypeCorrect, ClaimsExclusive, PTL DEF Spec, ImplementsQueue, Queue!Spec

=============================================================================
