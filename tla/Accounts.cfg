\* Racing requests of clients, of admins at the roles, and of staff at the login.
SPECIFICATION MCSpec
CONSTANTS
  Clients = {c1, c2}
  Sessions = {s1, s2}
  Codes = {k1, k2}
  Resets = {x1}
  Requests = {r1, r2}
  GroupIds = {g1}
  Invites = {i1}
  Anyone = Anyone
  NoOne = NoOne
  NoRow = NoRow
  NoGroup = NoGroup
  NoInvite = NoInvite
  MaxRotations = 1
  MaxChanges = 7
  Keys <- MCKeys
  SystemKeys <- MCSystemKeys
  Names <- MCNames
  Payloads <- MCPayloads
  Users = {u1}
  NoName = NoName
  NoKey = NoKey
  Sales = Sales
  NoSession = NoSession
  Window = 2
  Block = 3
  MaxAttempts = 3
  MaxTime = 8
  MaxTokens = 4
CHECK_DEADLOCK FALSE
INVARIANTS
  TokensAcceptedOnce
  SurvivorsAreNewer
  GroupsAdmitAsInvited
  EffectiveIsOneSave
  FailuresBounded
PROPERTY LoggedOutStaysOut
