\* The interesting cases of each part, see README.
SPECIFICATION MCSpec
CONSTANTS
  Columns = {c1}
  Titles = {x}
  Tasks = {t1, t2}
  Requests = {r1, r2}
  NoColumn = NoColumn
  NoTitle = NoTitle
  NoTask = NoTask
  Messages = {m1, m2}
  SupportMessages = {m2}
  Payloads = {h1, h2}
  NoMessage = NoMessage
  NoPayload = NoPayload
  Linkable <- MCLinkable
  Sorted <- MCSorted
  LinkedTasks = {t1, t2}
  Savers = {r1, r2}
  NoBooking = NoBooking
  Rows = {1, 2, 3}
  Micros = 2
  MaxTime = 2
  MaxLimit = 2
  Reserving = {h1, h2}
  Resources = {a1}
  Rebuilds = {r1, r2}
  Capacity <- MCCapacity
  Slots <- MCSlots
  MaxNeed = 1
  MaxNow = 2
  Purchased = {1, 2}
  Overlap = 1
  Lookback = 1
  FullLookback = 1
  PageSize = 1
  Lag = 1
  Days = 2
  Callers = {r1, r2}
  Throttle = 2
  MaxRetries = 1
  BaseDelay = 1
  MaxDelay = 3
  MaxAttempts = 2
  Patience = 4
  MaxClock = 6
CHECK_DEADLOCK FALSE
SYMMETRY Symmetry
INVARIANTS
  IntakeOnce
  GroupsSavedWhole
  EveryRowListedOnce
  CapacityNeverExceeded
  CursorLeavesNothing
  RequestsArePaced
  TakenOrdersAreHandedOver
