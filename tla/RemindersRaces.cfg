\* An e-mail and a WhatsApp reminder; the jobs overlap, a run dies, a lock is lost.
SPECIFICATION Spec
CONSTANTS
  r1 = r1
  r2 = r2
  s1 = s1
  s2 = s2
  Deliveries = {mail, wa}
  WhatsApp = {wa}
  Dispatchers <- MCDispatchers
  Syncers <- MCSyncers
  NoRun = NoRun
  NoDelivery = NoDelivery
  BatchSize = 2
  MaxRetries = 1
  MaxFaults = 1
  MaxLockLosses = 1
SYMMETRY RunSymmetry
INVARIANT SentOnceUnlessRetried
PROPERTIES DispatchUndisturbed ImplementsQueue
