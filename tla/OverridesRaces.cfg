\* Two saves, an import, a manual sync, a resolution and a change at Regiondo.
SPECIFICATION MCSpec
CONSTANTS
  v1 = v1
  v2 = v2
  Fields = {contact, location}
  Contact = contact
  Location = location
  Composite = {contact}
  Values <- MCValues
  Null = Null
  NoLocation = NoLocation
  FallbackLocation = Fallback
  NoChange = NoChange
  NoSnapshot = NoSnapshot
  MaxRequests = 2
  Editors = {e1}
  Importers = {i1}
  Syncs = {s1}
  MaxEdits = 2
  MaxProviderEdits = 1
  MaxResolutions = 1
INVARIANTS OneActiveRequest RequestsAreGuarded GuardsTraceToRequests RequestsAreReal
PROPERTY ReconciledEventually
