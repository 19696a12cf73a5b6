-------------------------- MODULE BookingOverrides --------------------------
(***************************************************************************)
(* One booking that lives at Regiondo and is edited in the dashboard.  An  *)
(* edit cannot be written back: it changes the local row, is kept as a     *)
(* change request until Regiondo shows the wanted value, and guards its    *)
(* fields (local_override_fields) against the imports that run meanwhile.  *)
(*                                                                         *)
(* The first statement of a transaction that touches the booking takes its *)
(* row lock, and the transaction is one step from there to its commit.     *)
(* That statement joins booking_admin_metadata, which it does not lock:    *)
(* when it waits for the lock, the metadata it returns is that of the      *)
(* moment it started, so its start is a step of its own.                   *)
(***************************************************************************)
EXTENDS Naturals, FiniteSets

CONSTANTS
  Fields,           \* the field groups a change request distinguishes
  Contact,          \* the group kept in the client's row, not in the booking's
  Location,         \* the group with a second guard, location_override
  Composite,        \* the groups whose value is an object: contact, payment, products
  Values,
  Null,             \* Regiondo names no location
  NoLocation,       \* the placeholder for "No location", chosen by an admin
  FallbackLocation, \* where a booking without a location lands: the only
                    \* location that sells its products, or a placeholder
  NoChange,         \* a change request does not mention the field
  NoSnapshot,       \* a resolution holds no provider values
  Editors,          \* PATCH requests of admins
  Importers,        \* imports by the inbox, the sync or the reconciliation
  Syncs,            \* manual syncs from Regiondo
  MaxRequests,      \* bound: rows of booking_change_requests
  MaxEdits,         \* bound: saved edits
  MaxProviderEdits, \* bound: changes made at Regiondo
  MaxResolutions    \* bound: change requests resolved by an admin

Transfers == Importers \cup Syncs

Requests == 1..MaxRequests

StoredValues == Values \cup {Null, NoLocation, FallbackLocation}

ASSUME OverridesAssumption ==
  /\ Importers \cap Syncs = {}
  /\ Contact \in Fields
  /\ Contact # Location
  /\ Composite \subseteq Fields
  /\ Null \notin Values \cup {NoLocation, FallbackLocation}
  /\ NoLocation # FallbackLocation
  /\ NoLocation \notin Values
  /\ NoChange \notin [from : StoredValues, to : StoredValues]
  /\ NoSnapshot \notin [Fields -> StoredValues]
  /\ {MaxRequests, MaxEdits, MaxProviderEdits, MaxResolutions} \subseteq Nat

VARIABLES
  provider,   \* what Regiondo holds
  row,        \* bookings, booking_products, payments; the client for Contact
  overrides,  \* booking_admin_metadata.local_override_fields
  noLocation, \* booking_admin_metadata.location_override = 'none'
  requests,   \* booking_change_requests
  editor,     \* each PATCH request: what its first statement read
  importer,   \* each import and sync: its snapshot and what its first statement read
  current,    \* syncs whose bookings.updated_at is still the latest
  edits, providerEdits, resolutions  \* bounded counters

actorVars == <<editor, importer, current>>
boundVars == <<edits, providerEdits, resolutions>>
metadataVars == <<overrides, noLocation>>
vars == <<provider, row, metadataVars, requests, actorVars, boundVars>>

-----------------------------------------------------------------------------

ProviderValues(f) == IF f = Location THEN Values \cup {Null} ELSE Values

InputValues(f) == IF f = Location THEN Values \cup {NoLocation} ELSE Values

ChangeSets == [Fields -> [from : StoredValues, to : StoredValues] \cup {NoChange}]

RequestRows ==
  [status : {"unused", "pending", "conflict", "completed", "cancelled"},
   changes : ChangeSets,
   seen : [Fields -> StoredValues] \cup {NoSnapshot},
   closedBy : {"nobody", "local_revert", "provider_sync", "manual_sync", "admin"}]

Unused == [status |-> "unused", changes |-> [f \in Fields |-> NoChange],
           seen |-> NoSnapshot, closedBy |-> "nobody"]

\* Nothing reads a closed request again.  What it asked for is kept where an
\* admin closed it, for GuardsTraceToRequests.
Closed(by) == [Unused EXCEPT !.status = "completed", !.closedBy = by]

Active(reqs) == {r \in Requests : reqs[r].status \in {"pending", "conflict"}}

Asked(req) == {f \in Fields : req.changes[f] # NoChange}

AskedByActive(reqs) == UNION {Asked(reqs[r]) : r \in Active(reqs)}

\* sawNone, sawOverrides: the metadata that the first statement of the
\* transaction joined to the booking it locked.
IdleEditor == [phase |-> "idle", sawNone |-> FALSE]

Transfer(phase, snapshot) ==
  [phase |-> phase, snapshot |-> snapshot, sawOverrides |-> {}, sawNone |-> FALSE]

IdleImporter == Transfer("idle", NoSnapshot)

TypeOK ==
  /\ provider \in [Fields -> StoredValues]
  /\ row \in [Fields -> StoredValues]
  /\ overrides \in SUBSET Fields
  /\ noLocation \in BOOLEAN
  /\ requests \in [Requests -> RequestRows]
  /\ editor \in [Editors ->
       [phase : {"idle", "saving"}, sawNone : BOOLEAN]]
  /\ importer \in [Transfers ->
       [phase : {"idle", "fetched", "importing", "applying"},
        snapshot : [Fields -> StoredValues] \cup {NoSnapshot},
        sawOverrides : SUBSET Fields, sawNone : BOOLEAN]]
  /\ \A i \in Transfers : importer[i].phase # "idle" => importer[i].snapshot # NoSnapshot
  /\ current \in SUBSET Syncs
  /\ edits \in Nat
  /\ providerEdits \in Nat
  /\ resolutions \in Nat

-----------------------------------------------------------------------------

\* What an import stores for a provider value.
Landed(f, v) == IF f = Location /\ v = Null THEN FallbackLocation ELSE v

\* A booking that was just imported and never edited.
Init ==
  /\ provider \in {p \in [Fields -> StoredValues] : \A f \in Fields : p[f] \in ProviderValues(f)}
  /\ row = [f \in Fields |-> Landed(f, provider[f])]
  /\ overrides = {}
  /\ noLocation = FALSE
  /\ requests = [r \in Requests |-> Unused]
  /\ editor = [e \in Editors |-> IdleEditor]
  /\ importer = [i \in Transfers |-> IdleImporter]
  /\ current = {}
  /\ edits = 0
  /\ providerEdits = 0
  /\ resolutions = 0

-----------------------------------------------------------------------------

\* Regiondo is changed there, by its own users.
ProviderEdit(f, v) ==
  /\ providerEdits < MaxProviderEdits
  /\ v # provider[f]
  /\ provider' = [provider EXCEPT ![f] = v]
  /\ providerEdits' = providerEdits + 1
  /\ UNCHANGED <<row, metadataVars, requests, actorVars, edits, resolutions>>

\* The first statement of a save starts: queryBookingForUpdate.
BeginSave(e) ==
  /\ editor[e].phase = "idle"
  /\ edits < MaxEdits
  /\ editor' = [editor EXCEPT ![e] =
                  [phase |-> "saving", sawNone |-> noLocation]]
  /\ UNCHANGED <<provider, row, metadataVars, requests, importer, current, boundVars>>

\* The groups that an input changes; the client's row stands for the contact,
\* whatever a change request holds of it.
ChangedFields(patch, sawNone) ==
  {f \in DOMAIN patch :
     patch[f] # row[f] \/ (f = Location /\ (patch[f] = NoLocation) # sawNone)}

\* comparableProviderValue is JSON.stringify, which follows the order of the keys.
\* Values from jsonb have their keys in the order of jsonb, values built from the
\* row, the input or the snapshot in that of the program, and for a composite
\* group the two differ.
SameJson(f, a, b, sameOrigin) == a = b /\ (f \in Composite => sameOrigin)

\* Mutants: what is back at its first value stays in the request; a request in
\* conflict is not found.
MergedKeepsReverts(req, changes) ==
  [status   |-> "pending",
   changes  |-> [f \in Fields |->
     IF changes[f] = NoChange THEN req.changes[f]
     ELSE IF req.changes[f] = NoChange THEN changes[f]
     ELSE [from |-> req.changes[f].from, to |-> changes[f].to]],
   seen     |-> NoSnapshot,
   closedBy |-> "nobody"]

\* The request keeps the value that Regiondo had and takes the new target; what
\* is back at the first is no longer asked for.  A change that is merged compares
\* a value from jsonb with one of the input; the others two of one kind.
Merged(req, changes) ==
  LET all == [f \in Fields |->
        IF changes[f] = NoChange THEN req.changes[f]
        ELSE IF req.changes[f] = NoChange THEN changes[f]
        ELSE [from |-> req.changes[f].from, to |-> changes[f].to]]
      merged == {f \in Asked(req) : changes[f] # NoChange}
      left == [f \in Fields |->
        IF all[f] # NoChange /\ SameJson(f, all[f].from, all[f].to, f \notin merged)
        THEN NoChange ELSE all[f]]
      reverted == \A f \in Fields : left[f] = NoChange
  IN  [status   |-> IF reverted THEN "completed" ELSE "pending",
       changes  |-> left,
       seen     |-> NoSnapshot,
       closedBy |-> IF reverted THEN "local_revert" ELSE "nobody"]

CreateOrMergePendingOnly(changes) ==
  LET fresh == Merged(Unused, changes)
      pending == {r \in Requests : requests[r].status = "pending"}
  IN  \/ \E r \in pending :
           requests' = [requests EXCEPT ![r] = Merged(requests[r], changes)]
      \/ /\ pending = {}
         /\ \E r \in Requests :
              /\ requests[r].status = "unused"
              /\ requests' = [requests EXCEPT ![r] = fresh]

\* createOrMergeBookingChangeRequest: the newest active request takes the edit.
CreateOrMerge(changes) ==
  LET fresh == Merged(Unused, changes)
  IN  \/ \E r \in Active(requests) :
           requests' = [requests EXCEPT ![r] = Merged(requests[r], changes)]
      \/ /\ Active(requests) = {}
         /\ Asked(fresh) = {}
         /\ UNCHANGED requests
      \/ /\ Active(requests) = {}
         /\ Asked(fresh) # {}
         /\ \E r \in Requests :
              /\ requests[r].status = "unused"
              /\ \A s \in 1..(r - 1) : requests[s].status # "unused"
              /\ requests' = [requests EXCEPT ![r] = fresh]

\* updateBookingRecordInTransaction, from the lock to the commit: a patch that
\* names no group changes the ops notes only.  location_override is written back
\* from what the first statement saw of it.
Save(e, patch) ==
  LET changed == ChangedFields(patch, editor[e].sawNone)
      changes == [f \in Fields |->
        IF f \in changed THEN [from |-> row[f], to |-> patch[f]] ELSE NoChange]
  IN  /\ editor[e].phase = "saving"
      /\ edits < MaxEdits
      /\ row' = [f \in Fields |-> IF f \in changed \ {Contact} THEN patch[f] ELSE row[f]]
      /\ IF changed = {} THEN UNCHANGED requests ELSE CreateOrMerge(changes)
      /\ overrides' = AskedByActive(requests')
      /\ noLocation' = IF Location \in DOMAIN patch THEN patch[Location] = NoLocation
                       ELSE editor[e].sawNone
      /\ current' = IF changed = {} THEN current ELSE {}
      /\ editor' = [editor EXCEPT ![e] = IdleEditor]
      /\ edits' = edits + 1
      /\ UNCHANGED <<provider, importer, providerEdits, resolutions>>

\* A save rolls back: an input is invalid, a statement fails, or the save named
\* the bookings.updated_at of its page (it need not) and the booking has moved on.
AbortSave(e) ==
  /\ editor[e].phase = "saving"
  /\ editor' = [editor EXCEPT ![e] = IdleEditor]
  /\ UNCHANGED <<provider, row, metadataVars, requests, importer, current, boundVars>>

-----------------------------------------------------------------------------

\* The webhook inbox, the sync or the reconciliation hydrates the order.
Fetch(i) ==
  /\ importer[i].phase = "idle"
  /\ importer' = [importer EXCEPT ![i] = Transfer("fetched", provider)]
  /\ UNCHANGED <<provider, row, metadataVars, requests, editor, current, boundVars>>

\* The first statement of an import starts: getExistingBookingOverrides.
BeginImport(i) ==
  /\ importer[i].phase = "fetched"
  /\ importer' = [importer EXCEPT ![i].phase = "importing",
                                  ![i].sawOverrides = overrides,
                                  ![i].sawNone = noLocation]
  /\ UNCHANGED <<provider, row, metadataVars, requests, editor, current, boundVars>>

\* The upsert: guarded groups keep the row's value.  The client is written in
\* any case; its guard only keeps the booking with the client.
Imported(values, guarded, none) ==
  [f \in Fields |->
     IF f # Contact /\ f \in guarded THEN row[f]
     ELSE IF f = Location /\ none THEN NoLocation
     ELSE Landed(f, values[f])]

\* The changes that a snapshot confirms: a fresh value against one from jsonb.
Matching(req, values) ==
  {f \in Asked(req) : SameJson(f, values[f], req.changes[f].to, FALSE)}

\* A value that Regiondo shows is neither the old one nor the wanted one.
Differing(req, values) ==
  {f \in Asked(req) : /\ ~SameJson(f, values[f], req.changes[f].from, FALSE)
                      /\ ~SameJson(f, values[f], req.changes[f].to, FALSE)}

\* Mutant: a request in conflict is left to the admin.
ReconciledUnlessConflict(req, values) ==
  IF req.status = "conflict" THEN req
  ELSE IF Matching(req, values) = Asked(req) THEN Closed("provider_sync")
  ELSE IF Differing(req, values) # {}
  THEN [req EXCEPT !.status = "conflict", !.seen = values]
  ELSE req

\* resolveBookingChangeRequests for one active request.
Reconciled(req, values) ==
  LET matching == Matching(req, values)
      left     == [f \in Fields |-> IF f \in matching THEN NoChange ELSE req.changes[f]]
      conflict == Differing(req, values) # {}
  IN  IF Asked(req) \ matching = {}
      THEN Closed("provider_sync")
      ELSE IF conflict
      THEN [req EXCEPT !.status = "conflict", !.changes = left, !.seen = values]
      ELSE IF matching # {} \/ req.status = "conflict"
      THEN [req EXCEPT !.status = "pending", !.changes = left, !.seen = NoSnapshot]
      ELSE req

\* Mutant: the request is reconciled, its guards are not.
CommitImportKeepsGuards(i) ==
  LET values == importer[i].snapshot IN
  /\ importer[i].phase = "importing"
  /\ row' = Imported(values, importer[i].sawOverrides, importer[i].sawNone)
  /\ requests' = [r \in Requests |->
       IF r \in Active(requests) THEN Reconciled(requests[r], values) ELSE requests[r]]
  /\ importer' = [importer EXCEPT ![i] = IdleImporter]
  /\ current' = {}
  /\ UNCHANGED <<provider, metadataVars, editor, boundVars>>

\* upsertNormalizedRegiondoBooking, from the lock to the commit.
CommitImport(i) ==
  LET values   == importer[i].snapshot
      matching == UNION {Matching(requests[r], values) : r \in Active(requests)}
  IN  /\ importer[i].phase = "importing"
      /\ row' = Imported(values, importer[i].sawOverrides, importer[i].sawNone)
      /\ requests' = [r \in Requests |->
           IF r \in Active(requests) THEN Reconciled(requests[r], values) ELSE requests[r]]
      /\ overrides' = overrides \ matching
      /\ noLocation' = (noLocation /\ Location \notin matching)
      /\ importer' = [importer EXCEPT ![i] = IdleImporter]
      /\ current' = {}
      /\ UNCHANGED <<provider, editor, boundVars>>

\* applyRegiondoBookingSync reads the group and the snapshot outside of its
\* transaction, and gives up when either has changed since the preview.
BeginManualSync(i) ==
  /\ importer[i].phase = "idle"
  /\ importer' = [importer EXCEPT ![i] = Transfer("applying", provider)]
  /\ current' = current \cup {i}
  /\ UNCHANGED <<provider, row, metadataVars, requests, editor, boundVars>>

\* Mutant: the guards are dropped and the requests stay open.
CommitManualSyncKeepsRequests(i) ==
  /\ importer[i].phase = "applying"
  /\ i \in current
  /\ row' = Imported(importer[i].snapshot, {}, FALSE)
  /\ overrides' = {}
  /\ noLocation' = FALSE
  /\ importer' = [importer EXCEPT ![i] = IdleImporter]
  /\ current' = {}
  /\ UNCHANGED <<provider, requests, editor, boundVars>>

\* Its transaction, when the version under the lock is still the one it read.
CommitManualSync(i) ==
  /\ importer[i].phase = "applying"
  /\ i \in current
  /\ row' = Imported(importer[i].snapshot, {}, FALSE)
  /\ overrides' = {}
  /\ noLocation' = FALSE
  /\ requests' = [r \in Requests |->
       IF r \in Active(requests)
       THEN Closed("manual_sync")
       ELSE requests[r]]
  /\ importer' = [importer EXCEPT ![i] = IdleImporter]
  /\ current' = {}
  /\ UNCHANGED <<provider, editor, boundVars>>

\* A provider error, a conflict or a rollback.
FailImport(i) ==
  /\ importer[i].phase # "idle"
  /\ importer' = [importer EXCEPT ![i] = IdleImporter]
  /\ current' = current \ {i}
  /\ UNCHANGED <<provider, row, metadataVars, requests, editor, boundVars>>

\* resolveBookingChangeRequestByAdmin: the request alone.  An admin who keeps
\* the request accepts what Regiondo showed as the value it starts from.
ResolveByAdmin(r, action) ==
  LET req == requests[r]
      reopened == [f \in Fields |->
        IF f \in Asked(req) /\ req.seen # NoSnapshot
        THEN [from |-> req.seen[f], to |-> req.changes[f].to]
        ELSE req.changes[f]]
  IN  /\ resolutions < MaxResolutions
      /\ r \in Active(requests)
      /\ requests' = [requests EXCEPT ![r] =
           CASE action = "keep_requested" ->
                  [req EXCEPT !.status = "pending", !.changes = reopened, !.seen = NoSnapshot]
             [] action = "accept_external" ->
                  [req EXCEPT !.status = "completed", !.seen = NoSnapshot, !.closedBy = "admin"]
             [] action = "cancel" ->
                  [req EXCEPT !.status = "cancelled", !.seen = NoSnapshot, !.closedBy = "admin"]]
      /\ resolutions' = resolutions + 1
      /\ UNCHANGED <<provider, row, metadataVars, actorVars, edits, providerEdits>>

-----------------------------------------------------------------------------

Patches ==
  {p \in UNION {[S -> Values \cup {NoLocation}] : S \in SUBSET Fields} :
     \A f \in DOMAIN p : p[f] \in InputValues(f)}

EditorNext(e) ==
  \/ BeginSave(e)
  \/ \E patch \in Patches : Save(e, patch)
  \/ AbortSave(e)

ImporterNext(i) == Fetch(i) \/ BeginImport(i) \/ CommitImport(i) \/ FailImport(i)

SyncNext(i) == BeginManualSync(i) \/ CommitManualSync(i) \/ FailImport(i)

Next ==
  \/ \E f \in Fields : \E v \in ProviderValues(f) : ProviderEdit(f, v)
  \/ \E e \in Editors : EditorNext(e)
  \/ \E i \in Importers : ImporterNext(i)
  \/ \E i \in Syncs : SyncNext(i)
  \/ \E r \in Requests, action \in {"accept_external", "keep_requested", "cancel"} :
       ResolveByAdmin(r, action)

Spec == Init /\ [][Next]_vars

\* The reconciliation keeps importing the booking, and not every attempt fails.
Fairness ==
  \A i \in Importers :
    WF_vars(Fetch(i)) /\ SF_vars(BeginImport(i)) /\ SF_vars(CommitImport(i))

FairSpec == Spec /\ Fairness

-----------------------------------------------------------------------------

\* A booking has one active change request: saves and imports meet at the
\* booking's row lock, admins only close requests or keep them open
\* (booking_change_requests has no unique index that would say so).
OneActiveRequest == Cardinality(Active(requests)) <= 1

\* What is still asked of Regiondo is guarded against imports, whichever of the
\* saves, imports, syncs and resolutions met.
RequestsAreGuarded == AskedByActive(requests) \subseteq overrides

\* A guard traces back to a request: an active one that asks for the field, or
\* one that an admin closed.  Reverts, imports and syncs leave no guard behind.
GuardsTraceToRequests ==
  \A f \in overrides : \E r \in Requests :
    /\ f \in Asked(requests[r])
    /\ r \in Active(requests) \/ requests[r].closedBy = "admin"

\* An active request asks for a change; a conflict names a third value that
\* Regiondo showed and that is neither the old value nor the wanted one.  Of a
\* composite group neither holds: its revert is not noticed, and every import
\* declares it a conflict, also when Regiondo shows the old or the wanted value.
RequestsAreReal ==
  \A r \in Active(requests) :
    LET req == requests[r] IN
    /\ Asked(req) # {}
    /\ \A f \in Asked(req) \ Composite : req.changes[f].from # req.changes[f].to
    /\ req.status = "conflict" =>
         /\ req.seen # NoSnapshot
         /\ \A f \in Asked(req) \ Composite : req.seen[f] # req.changes[f].to
         /\ \/ \E f \in Asked(req) : req.seen[f] # req.changes[f].from
            \/ Asked(req) \cap Composite # {}

\* Regiondo shows everything that is asked of it, of the given groups at least.
ShownOf(groups) ==
  \A r \in Active(requests) : \A f \in Asked(requests[r]) :
    f \in groups /\ provider[f] = requests[r].changes[f].to

ProviderAgrees == ShownOf(Fields)

\* Once Regiondo shows what is asked of it and nobody asks for more, the request
\* is closed by an import, whatever older snapshots are still under way.  That is
\* so when nothing composite is asked for.
ReconciledEventually ==
  (<>[]ShownOf(Fields \ Composite)) => <>[](Active(requests) = {})

\* The same of any group, as the tests of the repository expect it: an import that
\* shows the wanted values completes the request (resolveBookingChangeRequests).
MatchedRequestsComplete ==
  (<>[]ProviderAgrees) => <>[](Active(requests) = {})

\* The guards of a booking are the fields of its active request.
GuardsAreRequested == overrides = AskedByActive(requests)
=============================================================================
