\* One job run may die: an accepted event can stay behind for ever.
SPECIFICATION FairSpec
CONSTANTS
  r1 = r1
  r2 = r2
  Bookings = {b1}
  Runners <- MCRunners
  Importers = {}
  NoRunner = NoRunner
  NoBooking = NoBooking
  NoEvent = NoEvent
  MaxAttempts = 2
  BatchSize = 2
  MaxVersion = 1
  MaxAdminRetries = 1
  MaxFaults = 1
  MaxLockLosses = 1
PROPERTY AcceptedEventsSettle
