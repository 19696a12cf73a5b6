\* The inbox: two runs may overlap after a lock loss; one fault; one operator
\* retry; or an importer under another lock.  The copy of a catalog of two products that changes twice.  Dates around
\* two changes of the clock, in half hours.  Two deployments of three releases.
SPECIFICATION MCSpec
CONSTANTS
  r1 = r1
  r2 = r2
  Bookings = {b1}
  Runners <- MCRunners
  Importers = {i1}
  NoRunner = NoRunner
  NoBooking = NoBooking
  NoEvent = NoEvent
  MaxAttempts = 2
  BatchSize = 2
  MaxVersion = 2
  MaxAdminRetries = 1
  MaxFaults = 1
  MaxLockLosses = 1
  Products = {1, 2}
  Variants = {v1, v2}
  Options = {o1}
  NoProduct = NoProduct
  PageSize = 1
  MaxChanges = 2
  Winter = 2
  Summer = 4
  ToSummer = 8
  ToWinter = 18
  Times <- MCTimes
  Unread = Unread
  NoDate = NoDate
  Deployments = {r1, r2}
  NoDeployment = NoDeployment
  Files <- MCFiles
  Checksums = {"a", "b"}
  Releases <- MCReleases
SYMMETRY RunnerSymmetry
INVARIANTS
  TypeOK
  ExclusiveClaims
  AttemptsBounded
  ProcessedReflected
  CatalogMirrored
  DatesKeepTheirClock
  SchemaFollowsReleases
PROPERTIES ProcessedIsFinal NoStaleImport ImplementsQueue
