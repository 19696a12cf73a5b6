\* One caller; the request of its purchase runs into its timeout.
SPECIFICATION Spec
CONSTANTS
  Callers = {r1}
  Throttle = 1
  MaxRetries = 1
  BaseDelay = 1
  MaxDelay = 2
  MaxAttempts = 2
  Patience = 2
  MaxTime = 4
CHECK_DEADLOCK FALSE
INVARIANT TimedOutPurchasesAreHandedOver
