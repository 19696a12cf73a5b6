\* Two clicks, a recovery run, operators and crashes at one task; two tasks that
\* compete for a recovery run of limit one.  Two bookings in the inbox and one job
\* run that dies or aborts.  A WhatsApp reminder, an operator retry, and what
\* Messenger makes of it.
SPECIFICATION MCSpec
CONSTANTS
  h1 = h1
  h2 = h2
  t1 = t1
  t2 = t2
  Handlers = {h1, h2}
  Tasks = {t1, t2}
  Jobs = {j1}
  NoTask = NoTask
  OtherBookings = {x}
  NoBooking = NoBooking
  JobLimit = 1
  MaxEdits = 2
  MaxCrashes = 2
  Booked = {b1, b2}
  Runners = {r1}
  NoRunner = NoRunner
  NoEvent = NoEvent
  MaxAttempts = 2
  MaxVersion = 1
  MaxAdminRetries = 1
  MaxFaults = 1
  Sent = {t1}
  Dispatchers = {r1}
  Syncers = {s1}
  NoRun = NoRun
  NoDelivery = NoDelivery
  BatchSize = 2
  MaxRetries = 1
INVARIANTS AtMostOnePurchase NoUntrackedOrder
PROPERTIES
  SagaKeepsOperatorLink
  StoredPurchasesSettle
  AcceptedEventsSettleOrAreLeft
  OutcomesReported
