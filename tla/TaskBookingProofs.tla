-------------------------- MODULE TaskBookingProofs --------------------------
(***************************************************************************)
(* What TaskBookingAttempts guarantees for every number of tasks, request  *)
(* handlers, recovery runs, operator edits and crashes.                    *)
(***************************************************************************)
EXTENDS TaskBookingAttempts, TLAPS

\* Every column and every program counter of the booking saga keeps its type,
\* and a worker is on a task only while it has something to do for it, with the
\* attempt of that task in the database.
THEOREM TypeCorrect == Spec => [](TypeOK /\ WorkerShape)
<1> DEFINE Inv == TypeOK /\ WorkerShape
<1> USE TaskBookingAssumption
<1>1. Init => Inv
  <2>1. Init => TypeOK
    BY DEF Init, TypeOK, Status, PC, Bookings
  <2>2. Init => WorkerShape
    BY DEF Init, WorkerShape
  <2> QED
    BY <2>1, <2>2
<1>2. Inv /\ [Next]_vars => Inv'
  <2> SUFFICES ASSUME TypeOK, WorkerShape, [Next]_vars
               PROVE  TypeOK' /\ WorkerShape'
    OBVIOUS
  <2> USE DEF attemptVars, taskVars, providerVars, workerVars, boundVars
  <2>1. ASSUME NEW h \in Handlers, NEW t \in Tasks, CreateBooking(h, t) PROVE Inv'
    <3>1. TypeOK'
      BY <2>1 DEF CreateBooking, Touch, Goto, TypeOK, Status, PC, Workers
    <3>2. WorkerShape'
      BY <2>1 DEF CreateBooking, Touch, Goto, TypeOK, WorkerShape, Workers
    <3> QED
      BY <3>1, <3>2
  <2>2. ASSUME NEW h \in Handlers, SubmitPurchase(h) PROVE Inv'
    <3>0. h \in Workers /\ target[h] \in Tasks
      BY <2>2 DEF SubmitPurchase, TypeOK, WorkerShape, Workers
    <3>1. TypeOK'
      BY <2>2, <3>0 DEF SubmitPurchase, Goto, TypeOK, PC
    <3>2. WorkerShape'
      BY <2>2, <3>0 DEF SubmitPurchase, Goto, TypeOK, WorkerShape
    <3> QED
      BY <3>1, <3>2
  <2>3. ASSUME NEW h \in Handlers, StorePurchase(h) PROVE Inv'
    <3>0. h \in Workers /\ target[h] \in Tasks
      BY <2>3 DEF StorePurchase, TypeOK, WorkerShape, Workers
    <3>1. TypeOK'
      BY <2>3, <3>0 DEF StorePurchase, Goto, Touch, TypeOK, PC, Status
    <3>2. WorkerShape'
      BY <2>3, <3>0 DEF StorePurchase, Goto, TypeOK, WorkerShape
    <3> QED
      BY <3>1, <3>2
  <2>4. ASSUME NEW w \in Workers, BeginRecovery(w) PROVE Inv'
    <3>0. target[w] \in Tasks
      BY <2>4 DEF BeginRecovery, TypeOK, WorkerShape
    <3>1. TypeOK'
      BY <2>4, <3>0 DEF BeginRecovery, Leave, Goto, Touch, TypeOK, PC
    <3>2. WorkerShape'
      BY <2>4, <3>0 DEF BeginRecovery, Leave, Goto, TypeOK, WorkerShape
    <3> QED
      BY <3>1, <3>2
  <2>5. ASSUME NEW w \in Workers, NEW t \in Tasks, ImportSnapshot(w, t) PROVE Inv'
    <3>1. TypeOK'
      BY <2>5 DEF ImportSnapshot, Goto, TypeOK, PC, Bookings
    <3>2. WorkerShape'
      BY <2>5 DEF ImportSnapshot, Goto, TypeOK, WorkerShape
    <3> QED
      BY <3>1, <3>2
  <2>6. ASSUME NEW w \in Workers, ImportFails(w) PROVE Inv'
    BY <2>6 DEF ImportFails, Goto, TypeOK, WorkerShape, PC
  <2>7. ASSUME NEW w \in Workers, CompleteAttempt(w) PROVE Inv'
    <3>0. target[w] \in Tasks
      BY <2>7 DEF CompleteAttempt, TypeOK, WorkerShape
    <3>1. Own(target[w]) \in Bookings
      BY <3>0 DEF Bookings
    <3>2. TypeOK'
      BY <2>7, <3>0, <3>1 DEF CompleteAttempt, Leave, Goto, Touch, TypeOK, PC, Status
    <3>3. WorkerShape'
      BY <2>7, <3>0 DEF CompleteAttempt, Leave, Goto, TypeOK, WorkerShape
    <3> QED
      BY <3>2, <3>3
  <2>8. ASSUME NEW w \in Workers, MarkFailure(w) PROVE Inv'
    <3>0. target[w] \in Tasks
      BY <2>8 DEF MarkFailure, TypeOK, WorkerShape
    <3>1. TypeOK'
      BY <2>8, <3>0 DEF MarkFailure, Leave, Goto, Touch, TypeOK, PC, Status
    <3>2. WorkerShape'
      BY <2>8, <3>0 DEF MarkFailure, Leave, Goto, TypeOK, WorkerShape
    <3> QED
      BY <3>1, <3>2
  <2>9. ASSUME NEW j \in Jobs, StartJob(j) PROVE Inv'
    <3>0. PICK c \in SUBSET Recoverable : todo' = [todo EXCEPT ![j] = c]
      BY <2>9 DEF StartJob, LeastRecent
    <3>1. c \in SUBSET Tasks /\ \A t \in c : attempt[t] # "none"
      BY <3>0 DEF Recoverable, TypeOK
    <3>2. TypeOK'
      BY <2>9, <3>0, <3>1 DEF StartJob, Goto, TypeOK, PC, Workers
    <3>3. WorkerShape'
      BY <2>9, <3>0, <3>1 DEF StartJob, Goto, TypeOK, WorkerShape, Workers
    <3> QED
      BY <3>2, <3>3
  <2>10. ASSUME NEW j \in Jobs, NextCandidate(j) PROVE Inv'
    <3>1. TypeOK'
      BY <2>10 DEF NextCandidate, Goto, TypeOK, PC, Workers
    <3>2. WorkerShape'
      BY <2>10 DEF NextCandidate, Goto, TypeOK, WorkerShape, Workers
    <3> QED
      BY <3>1, <3>2
  <2>11. ASSUME NEW t \in Tasks, SaveTask(t) PROVE Inv'
    <3>0. NoBooking \in Bookings \cup {NoBooking} /\ OtherBookings \subseteq Bookings
      BY DEF Bookings
    <3>1. TypeOK'
      BY <2>11, <3>0 DEF SaveTask, TypeOK
    <3>2. WorkerShape'
      BY <2>11 DEF SaveTask, WorkerShape
    <3> QED
      BY <3>1, <3>2
  <2>12. ASSUME NEW t \in Tasks, DeleteOrRestoreTask(t) PROVE Inv'
    BY <2>12 DEF DeleteOrRestoreTask, TypeOK, WorkerShape
  <2>13. ASSUME NEW w \in Workers, Crash(w) PROVE Inv'
    BY <2>13 DEF Crash, Goto, TypeOK, WorkerShape, PC
  <2>14. CASE UNCHANGED vars
    BY <2>14 DEF vars, TypeOK, WorkerShape
  <2>15. ASSUME NEW t \in Tasks, ImportElsewhere(t) PROVE Inv'
    BY <2>15 DEF ImportElsewhere, TypeOK, WorkerShape, Bookings
  <2> QED
    BY <2>1, <2>2, <2>3, <2>4, <2>5, <2>6, <2>7, <2>8, <2>9, <2>10, <2>11, <2>12, <2>13, <2>14,
       <2>15
    DEF Next, HandlerStep, RecoveryStep
<1> QED
  BY <1>1, <1>2, PTL DEF Spec

\* The claim on the purchase that the INSERT of the attempt makes under the
\* lock of the task row: no step hands it to a second worker, and nothing
\* removes an attempt.
LEMMA PurchaseClaimed ==
  Spec => [](PurchaseInv /\ AtMostOnePurchase)
<1> DEFINE Inv == PurchaseInv /\ AtMostOnePurchase
<1>1. Init => Inv
  BY DEF Init, PurchaseInv, AtMostOnePurchase
<1>2. TypeOK /\ WorkerShape /\ Inv /\ [Next]_vars => Inv'
  <2> SUFFICES ASSUME TypeOK, WorkerShape, Inv, [Next]_vars
               PROVE  Inv'
    OBVIOUS
  <2> USE DEF attemptVars, taskVars, providerVars, workerVars, boundVars, PurchaseInv,
              AtMostOnePurchase
  <2>1. ASSUME NEW h \in Handlers, NEW t \in Tasks, CreateBooking(h, t) PROVE Inv'
    <3>0. h \in Workers
      BY DEF Workers
    <3>1. CASE attempt[t] # "none"
      BY <2>1, <3>0, <3>1 DEF CreateBooking, Goto, TypeOK
    <3>2. CASE attempt[t] = "none"
      <4>1. /\ attempt' = [attempt EXCEPT ![t] = "submitting"]
            /\ pc' = [pc EXCEPT ![h] = "purchase"]
            /\ target' = [target EXCEPT ![h] = t]
            /\ UNCHANGED <<submissions, orders>>
        BY <2>1, <3>2 DEF CreateBooking, Goto
      <4>2. submissions[t] = 0
        BY <3>2
      <4>3. \A w \in Workers : target[w] # t
        BY <3>2 DEF WorkerShape
      <4> QED
        BY <3>0, <4>1, <4>2, <4>3 DEF TypeOK
    <3> QED
      BY <3>1, <3>2
  <2>2. ASSUME NEW h \in Handlers, SubmitPurchase(h) PROVE Inv'
    <3>0. h \in Workers /\ target[h] \in Tasks
      BY <2>2 DEF SubmitPurchase, TypeOK, WorkerShape, Workers
    <3>1. /\ submissions' = [submissions EXCEPT ![target[h]] = @ + 1]
          /\ orders' = orders \/ orders' = [orders EXCEPT ![target[h]] = @ + 1]
          /\ UNCHANGED <<attempt, target>>
      BY <2>2 DEF SubmitPurchase
    <3>2. /\ pc' \in [Workers -> PC]
          /\ pc'[h] # "purchase"
          /\ \A w \in Workers \ {h} : pc'[w] = pc[w]
      BY <2>2, <3>0 DEF SubmitPurchase, Goto, TypeOK, PC
    <3>3. submissions[target[h]] = 0 /\ attempt[target[h]] # "none"
      BY <2>2, <3>0 DEF SubmitPurchase, WorkerShape
    <3>4. \A w \in Workers \ {h} : ~(pc[w] = "purchase" /\ target[w] = target[h])
      BY <2>2, <3>0 DEF SubmitPurchase
    <3> QED
      BY <3>0, <3>1, <3>2, <3>3, <3>4 DEF TypeOK
  <2>3. ASSUME NEW h \in Handlers, StorePurchase(h) PROVE Inv'
    BY <2>3 DEF StorePurchase, Goto, TypeOK, WorkerShape, Workers
  <2>4. ASSUME NEW w \in Workers, BeginRecovery(w) PROVE Inv'
    BY <2>4 DEF BeginRecovery, Leave, Goto, TypeOK, WorkerShape
  <2>5. ASSUME NEW w \in Workers, NEW t \in Tasks, ImportSnapshot(w, t) PROVE Inv'
    BY <2>5 DEF ImportSnapshot, Goto, TypeOK
  <2>6. ASSUME NEW w \in Workers, ImportFails(w) PROVE Inv'
    BY <2>6 DEF ImportFails, Goto, TypeOK
  <2>7. ASSUME NEW w \in Workers, CompleteAttempt(w) PROVE Inv'
    BY <2>7 DEF CompleteAttempt, Leave, Goto, TypeOK, WorkerShape
  <2>8. ASSUME NEW w \in Workers, MarkFailure(w) PROVE Inv'
    BY <2>8 DEF MarkFailure, Leave, Goto, TypeOK, WorkerShape
  <2>9. ASSUME NEW j \in Jobs, StartJob(j) PROVE Inv'
    BY <2>9 DEF StartJob, Goto, TypeOK, Workers
  <2>10. ASSUME NEW j \in Jobs, NextCandidate(j) PROVE Inv'
    BY <2>10 DEF NextCandidate, Goto, TypeOK, Workers
  <2>11. ASSUME NEW t \in Tasks, SaveTask(t) PROVE Inv'
    BY <2>11 DEF SaveTask
  <2>12. ASSUME NEW t \in Tasks, DeleteOrRestoreTask(t) PROVE Inv'
    BY <2>12 DEF DeleteOrRestoreTask
  <2>13. ASSUME NEW w \in Workers, Crash(w) PROVE Inv'
    BY <2>13, TaskBookingAssumption DEF Crash, Goto, TypeOK
  <2>14. CASE UNCHANGED vars
    BY <2>14 DEF vars
  <2>15. ASSUME NEW t \in Tasks, ImportElsewhere(t) PROVE Inv'
    BY <2>15 DEF ImportElsewhere
  <2> QED
    BY <2>1, <2>2, <2>3, <2>4, <2>5, <2>6, <2>7, <2>8, <2>9, <2>10, <2>11, <2>12, <2>13, <2>14,
       <2>15
    DEF Next, HandlerStep, RecoveryStep
<1> QED
  BY <1>1, <1>2, TypeCorrect, PTL DEF Spec

\* However many requests, recovery runs, crashes, ambiguous answers, deletions
\* and restores: POST /checkout/purchase is sent at most once for a task.
THEOREM PurchasedOnce == Spec => []AtMostOnePurchase
BY PurchaseClaimed, PTL

\* Every order at Regiondo has its attempt row in the database, also when the
\* process died before it read the answer.
THEOREM OrdersTracked == Spec => []NoUntrackedOrder
<1>1. TypeOK /\ PurchaseInv => NoUntrackedOrder
  BY DEF TypeOK, PurchaseInv, NoUntrackedOrder
<1> QED
  BY <1>1, PurchaseClaimed, TypeCorrect, PTL

\* The saga links a task that has no booking and never replaces a link that an
\* operator made after the purchase was submitted.
THEOREM OperatorLinksKept == Spec => SagaKeepsOperatorLink
<1> DEFINE Kept == \A t \in Tasks :
                     primary[t] # NoBooking /\ primary'[t] # primary[t] => edits' # edits
<1>1. TypeOK /\ WorkerShape /\ [Next]_vars => [Kept]_vars
  <2> SUFFICES ASSUME TypeOK, WorkerShape, Next
               PROVE  Kept
    OBVIOUS
  <2> USE DEF attemptVars, taskVars, providerVars, workerVars, boundVars
  <2>1. ASSUME NEW w \in Workers, CompleteAttempt(w) PROVE Kept
    <3>1. target[w] \in Tasks
      BY <2>1 DEF CompleteAttempt, TypeOK, WorkerShape
    <3>2. CASE UNCHANGED primary
      BY <3>2
    <3>3. CASE primary[target[w]] \in {NoBooking, Own(target[w])}
               /\ primary' = [primary EXCEPT ![target[w]] = Own(target[w])]
      BY <3>1, <3>3 DEF TypeOK
    <3> QED
      BY <2>1, <3>2, <3>3 DEF CompleteAttempt
  <2>2. ASSUME NEW t \in Tasks, SaveTask(t) PROVE Kept
    BY <2>2 DEF SaveTask, TypeOK
  <2>3. CASE UNCHANGED primary
    BY <2>3
  <2> QED
    BY <2>1, <2>2, <2>3 DEF Next, HandlerStep, RecoveryStep, CreateBooking, SubmitPurchase,
       StorePurchase, BeginRecovery, ImportSnapshot, ImportFails, MarkFailure, StartJob,
       NextCandidate, DeleteOrRestoreTask, ImportElsewhere, Crash
<1> QED
  BY <1>1, TypeCorrect, PTL DEF Spec, SagaKeepsOperatorLink

=============================================================================
