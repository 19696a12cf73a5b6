\* One save of the contact, and an import that keeps running.
SPECIFICATION MCSpec
CONSTANTS
  v1 = v1
  v2 = v2
  Fields = {contact, location}
  Contact = contact
  Location = location
  Composite = {contact}
  Values <- MCValues
  Null = Null
  NoLocation = NoLocation
  FallbackLocation = Fallback
  NoChange = NoChange
  NoSnapshot = NoSnapshot
  MaxRequests = 1
  Editors = {e1}
  Importers = {i1}
  Syncs = {}
  MaxEdits = 1
  MaxProviderEdits = 1
  MaxResolutions = 0
PROPERTY MatchedRequestsComplete
