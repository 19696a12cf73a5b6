----------------------- MODULE BookingOverridesProofs -----------------------
(***************************************************************************)
(* What BookingOverrides guarantees for every set of fields and values and *)
(* any number of saves, imports, syncs, resolutions and change requests.   *)
(***************************************************************************)
EXTENDS BookingOverrides, FiniteSetTheorems, TLAPS

-----------------------------------------------------------------------------

\* A change request that an edit was merged into is a change request.
LEMMA MergedType ==
  ASSUME NEW req \in RequestRows, NEW changes \in ChangeSets
  PROVE  Merged(req, changes) \in RequestRows
<1> DEFINE all == [f \in Fields |->
             IF changes[f] = NoChange THEN req.changes[f]
             ELSE IF req.changes[f] = NoChange THEN changes[f]
             ELSE [from |-> req.changes[f].from, to |-> changes[f].to]]
           merged == {f \in Asked(req) : changes[f] # NoChange}
           left == [f \in Fields |->
             IF all[f] # NoChange /\ SameJson(f, all[f].from, all[f].to, f \notin merged)
             THEN NoChange ELSE all[f]]
           reverted == \A f \in Fields : left[f] = NoChange
<1>1. req.changes \in ChangeSets
  BY DEF RequestRows
<1>2. all \in ChangeSets
  BY <1>1 DEF ChangeSets
<1> HIDE DEF all
<1>3. left \in ChangeSets
  BY <1>2 DEF ChangeSets
<1> HIDE DEF left
<1>4. Merged(req, changes) = [status   |-> IF reverted THEN "completed" ELSE "pending",
                              changes  |-> left,
                              seen     |-> NoSnapshot,
                              closedBy |-> IF reverted THEN "local_revert" ELSE "nobody"]
  BY DEF Merged, left, all, merged
<1> QED
  BY <1>3, <1>4 DEF RequestRows

\* What is merged is closed when nothing is left of it; otherwise it is pending
\* and every field that is left, unless it is composite, asks for a change.
LEMMA MergedReal ==
  ASSUME NEW req \in RequestRows, NEW changes \in ChangeSets
  PROVE  LET merged == Merged(req, changes) IN
         /\ merged.seen = NoSnapshot
         /\ merged.closedBy # "admin"
         /\ merged.status # "conflict"
         /\ merged.status = "pending" => Asked(merged) # {}
         /\ Asked(merged) # {} => merged.status = "pending"
         /\ \A f \in Asked(merged) \ Composite :
              merged.changes[f].from # merged.changes[f].to
BY DEF Merged, Asked, SameJson

\* A reconciled change request is a change request.
LEMMA ReconciledType ==
  ASSUME NEW req \in RequestRows, NEW values \in [Fields -> StoredValues]
  PROVE  Reconciled(req, values) \in RequestRows
<1> DEFINE left == [f \in Fields |->
             IF f \in Matching(req, values) THEN NoChange ELSE req.changes[f]]
<1>1. left \in ChangeSets
  BY DEF RequestRows, ChangeSets
<1>2. Closed("provider_sync") \in RequestRows
  BY DEF Closed, Unused, RequestRows, ChangeSets
<1>3. [req EXCEPT !.status = "conflict", !.changes = left, !.seen = values] \in RequestRows
  BY <1>1 DEF RequestRows
<1>4. [req EXCEPT !.status = "pending", !.changes = left, !.seen = NoSnapshot] \in RequestRows
  BY <1>1 DEF RequestRows
<1> QED
  BY <1>2, <1>3, <1>4 DEF Reconciled

\* A reconciled request is closed for good, or it is active and asks for
\* exactly what Regiondo does not show yet; a conflict shows a third value, or
\* is about a composite group.
LEMMA ReconciledReal ==
  ASSUME NEW req \in RequestRows, NEW values \in [Fields -> StoredValues],
         req.status \in {"pending", "conflict"},
         req.status = "pending" => req.seen = NoSnapshot,
         req.closedBy # "admin"
  PROVE  LET new == Reconciled(req, values) IN
         /\ new.status \in {"completed", "pending", "conflict"}
         /\ new.closedBy # "admin"
         /\ Asked(new) = Asked(req) \ Matching(req, values)
         /\ Asked(new) # {} => new.status \in {"pending", "conflict"}
         /\ new.status \in {"pending", "conflict"} => Asked(new) # {}
         /\ \A f \in Asked(new) : new.changes[f] = req.changes[f]
         /\ new.status = "pending" => new.seen = NoSnapshot
         /\ new.status = "conflict" =>
              /\ new.seen = values
              /\ \/ \E f \in Asked(new) : values[f] # req.changes[f].from
                 \/ Asked(new) \cap Composite # {}
<1> DEFINE matching == Matching(req, values)
           left == [f \in Fields |-> IF f \in matching THEN NoChange ELSE req.changes[f]]
           conflict == Differing(req, values) # {}
           new == Reconciled(req, values)
<1>1. matching \subseteq Asked(req)
  BY DEF Matching
<1>2. Asked(req) \subseteq Fields
  BY DEF Asked
<1>3. ASSUME NEW row2 \in RequestRows, row2.changes = left
      PROVE  /\ Asked(row2) = Asked(req) \ matching
             /\ \A f \in Asked(row2) : row2.changes[f] = req.changes[f]
  BY <1>3, <1>1 DEF Asked
<1>4. CASE Asked(req) \ matching = {}
  <2>1. new = Closed("provider_sync")
    BY <1>4 DEF Reconciled
  <2>2. /\ new.status = "completed"
        /\ new.closedBy = "provider_sync"
        /\ new.changes = [f \in Fields |-> NoChange]
    BY <2>1 DEF Closed, Unused
  <2>3. Asked(new) = {}
    BY <2>2 DEF Asked
  <2> QED
    BY <2>2, <2>3, <1>4
<1>5. CASE Asked(req) \ matching # {} /\ conflict
  <2>1. new = [req EXCEPT !.status = "conflict", !.changes = left, !.seen = values]
    BY <1>5 DEF Reconciled
  <2>2. /\ new.status = "conflict"
        /\ new.changes = left
        /\ new.seen = values
        /\ new.closedBy = req.closedBy
    BY <2>1 DEF RequestRows
  <2>3. new \in RequestRows
    BY ReconciledType
  <2> HIDE DEF new, left, matching
  <2>4. /\ Asked(new) = Asked(req) \ matching
        /\ \A f \in Asked(new) : new.changes[f] = req.changes[f]
    BY <2>2, <2>3, <1>3
  <2>5. PICK f \in Asked(req) \ matching :
          ~SameJson(f, values[f], req.changes[f].from, FALSE)
    BY <1>5 DEF Differing, Matching, matching
  <2>6. f \in Asked(new)
    BY <2>4, <2>5
  <2>7. values[f] # req.changes[f].from \/ f \in Composite
    BY <2>5 DEF SameJson
  <2>8. (\E g \in Asked(new) : values[g] # req.changes[g].from) \/ Asked(new) \cap Composite # {}
    BY <2>6, <2>7
  <2> QED
    BY <2>2, <2>4, <2>8, <1>5 DEF new, matching
<1>6. CASE Asked(req) \ matching # {} /\ ~conflict /\ (matching # {} \/ req.status = "conflict")
  <2>1. new = [req EXCEPT !.status = "pending", !.changes = left, !.seen = NoSnapshot]
    BY <1>6 DEF Reconciled
  <2>2. /\ new.status = "pending"
        /\ new.changes = left
        /\ new.seen = NoSnapshot
        /\ new.closedBy = req.closedBy
    BY <2>1 DEF RequestRows
  <2>3. new \in RequestRows
    BY ReconciledType
  <2> HIDE DEF new, left, matching
  <2>4. /\ Asked(new) = Asked(req) \ matching
        /\ \A f \in Asked(new) : new.changes[f] = req.changes[f]
    BY <2>2, <2>3, <1>3
  <2> QED
    BY <2>2, <2>4, <1>6 DEF new, matching
<1>7. CASE Asked(req) \ matching # {} /\ ~conflict /\ matching = {} /\ req.status # "conflict"
  <2>1. new = req
    BY <1>7 DEF Reconciled
  <2> QED
    BY <2>1, <1>7
<1> QED
  BY <1>4, <1>5, <1>6, <1>7

-----------------------------------------------------------------------------

\* The columns, the change requests and what the transactions remember keep
\* their types in every behaviour.
THEOREM TypeCorrect == Spec => []TypeOK
<1> USE OverridesAssumption
<1>1. Init => TypeOK
  <2> SUFFICES ASSUME Init PROVE TypeOK
    OBVIOUS
  <2>1. row \in [Fields -> StoredValues]
    BY DEF Init, Landed, StoredValues
  <2>2. Unused \in RequestRows
    BY DEF Unused, RequestRows, ChangeSets
  <2> QED
    BY <2>1, <2>2 DEF Init, TypeOK, IdleEditor, IdleImporter, Transfer
<1>2. TypeOK /\ [Next]_vars => TypeOK'
  <2> SUFFICES ASSUME TypeOK, [Next]_vars PROVE TypeOK'
    OBVIOUS
  <2> USE DEF actorVars, metadataVars, boundVars
  <2>1. ASSUME NEW f \in Fields, NEW v \in ProviderValues(f), ProviderEdit(f, v)
        PROVE  TypeOK'
    <3>1. v \in StoredValues
      BY DEF ProviderValues, StoredValues
    <3> QED
      BY <2>1, <3>1 DEF ProviderEdit, TypeOK
  <2>2. ASSUME NEW e \in Editors, BeginSave(e) PROVE TypeOK'
    BY <2>2 DEF BeginSave, TypeOK
  <2>3. ASSUME NEW e \in Editors, NEW patch \in Patches, Save(e, patch) PROVE TypeOK'
    <3> DEFINE changed == ChangedFields(patch, editor[e].sawNone)
               changes == [f \in Fields |->
                 IF f \in changed THEN [from |-> row[f], to |-> patch[f]] ELSE NoChange]
    <3>1. /\ DOMAIN patch \subseteq Fields
          /\ \A f \in DOMAIN patch : patch[f] \in StoredValues
      BY DEF Patches, StoredValues
    <3>2. changed \subseteq DOMAIN patch
      BY DEF ChangedFields
    <3>3. changes \in ChangeSets
      BY <3>1, <3>2 DEF ChangeSets, TypeOK
    <3>4. row' \in [Fields -> StoredValues]
      BY <2>3, <3>1, <3>2 DEF Save, TypeOK
    <3>5. IF changed = {} THEN UNCHANGED requests ELSE CreateOrMerge(changes)
      BY <2>3 DEF Save
    <3>6. requests' \in [Requests -> RequestRows]
      <4> HIDE DEF changed, changes
      <4>1. Unused \in RequestRows
        BY DEF Unused, RequestRows, ChangeSets
      <4>2. Merged(Unused, changes) \in RequestRows
        BY <4>1, <3>3, MergedType
      <4>3. \A r \in Requests : Merged(requests[r], changes) \in RequestRows
        BY <3>3, MergedType DEF TypeOK
      <4>4. Active(requests) \subseteq Requests
        BY DEF Active
      <4> QED
        BY <3>5, <4>2, <4>3, <4>4 DEF CreateOrMerge, TypeOK
    <3>7. overrides' \in SUBSET Fields
      BY <2>3 DEF Save, AskedByActive, Asked
    <3>8. noLocation' \in BOOLEAN
      BY <2>3 DEF Save, TypeOK
    <3>9. editor' \in [Editors -> [phase : {"idle", "saving"}, sawNone : BOOLEAN]]
      BY <2>3 DEF Save, TypeOK, IdleEditor
    <3>10. current' \in SUBSET Syncs /\ edits' \in Nat
      BY <2>3 DEF Save, TypeOK
    <3>11. UNCHANGED <<provider, importer, providerEdits, resolutions>>
      BY <2>3 DEF Save
    <3> QED
      BY <3>4, <3>6, <3>7, <3>8, <3>9, <3>10, <3>11 DEF TypeOK
  <2>4. ASSUME NEW e \in Editors, AbortSave(e) PROVE TypeOK'
    BY <2>4 DEF AbortSave, TypeOK, IdleEditor
  <2>5. ASSUME NEW i \in Importers, Fetch(i) PROVE TypeOK'
    <3>1. i \in Transfers
      BY DEF Transfers
    <3>2. provider # NoSnapshot
      BY DEF TypeOK
    <3>3. Transfer("fetched", provider) \in
            [phase : {"idle", "fetched", "importing", "applying"},
             snapshot : [Fields -> StoredValues] \cup {NoSnapshot},
             sawOverrides : SUBSET Fields, sawNone : BOOLEAN]
      BY DEF TypeOK, Transfer
    <3>4. \A j \in Transfers : importer'[j].phase # "idle" => importer'[j].snapshot # NoSnapshot
      BY <2>5, <3>1, <3>2 DEF Fetch, TypeOK, Transfer
    <3> QED
      BY <2>5, <3>3, <3>4 DEF Fetch, TypeOK
  <2>6. ASSUME NEW i \in Importers, BeginImport(i) PROVE TypeOK'
    <3>1. i \in Transfers
      BY DEF Transfers
    <3>2. importer'[i] = [phase |-> "importing", snapshot |-> importer[i].snapshot,
                          sawOverrides |-> overrides, sawNone |-> noLocation]
      <4>1. /\ importer \in [Transfers -> [phase : {"idle", "fetched", "importing", "applying"},
                 snapshot : [Fields -> StoredValues] \cup {NoSnapshot},
                 sawOverrides : SUBSET Fields, sawNone : BOOLEAN]]
        BY DEF TypeOK
      <4>2. importer' = [importer EXCEPT ![i].phase = "importing",
                                         ![i].sawOverrides = overrides,
                                         ![i].sawNone = noLocation]
        BY <2>6 DEF BeginImport
      <4> QED
        BY <4>1, <4>2, <3>1
    <3>3. \A j \in Transfers \ {i} : importer'[j] = importer[j]
      BY <2>6, <3>1 DEF BeginImport, TypeOK
    <3>4. importer' = [j \in Transfers |-> importer'[j]]
      BY <2>6 DEF BeginImport, TypeOK
    <3> QED
      BY <2>6, <3>1, <3>2, <3>3, <3>4 DEF BeginImport, TypeOK
  <2>7. ASSUME NEW i \in Importers, CommitImport(i) PROVE TypeOK'
    <3> DEFINE values == importer[i].snapshot
    <3>1. i \in Transfers /\ importer[i].phase = "importing"
      BY <2>7 DEF Transfers, CommitImport
    <3>2. values \in [Fields -> StoredValues]
      BY <3>1 DEF TypeOK
    <3>3. row' \in [Fields -> StoredValues]
      BY <2>7, <3>2 DEF CommitImport, Imported, Landed, TypeOK, StoredValues
    <3>4. \A r \in Requests : Reconciled(requests[r], values) \in RequestRows
      BY <3>2, ReconciledType DEF TypeOK
    <3>5. requests' \in [Requests -> RequestRows]
      BY <2>7, <3>4 DEF CommitImport, TypeOK
    <3>6. overrides' \in SUBSET Fields /\ noLocation' \in BOOLEAN
      BY <2>7 DEF CommitImport, TypeOK
    <3> QED
      BY <2>7, <3>3, <3>5, <3>6 DEF CommitImport, IdleImporter, Transfer, TypeOK
  <2>8. ASSUME NEW i \in Transfers, FailImport(i) PROVE TypeOK'
    BY <2>8 DEF FailImport, IdleImporter, Transfer, TypeOK
  <2>9. ASSUME NEW i \in Syncs, BeginManualSync(i) PROVE TypeOK'
    <3>1. i \in Transfers
      BY DEF Transfers
    <3>2. provider # NoSnapshot
      BY DEF TypeOK
    <3>3. Transfer("applying", provider) \in
            [phase : {"idle", "fetched", "importing", "applying"},
             snapshot : [Fields -> StoredValues] \cup {NoSnapshot},
             sawOverrides : SUBSET Fields, sawNone : BOOLEAN]
      BY DEF TypeOK, Transfer
    <3>4. \A j \in Transfers : importer'[j].phase # "idle" => importer'[j].snapshot # NoSnapshot
      BY <2>9, <3>1, <3>2 DEF BeginManualSync, TypeOK, Transfer
    <3> QED
      BY <2>9, <3>3, <3>4 DEF BeginManualSync, TypeOK
  <2>10. ASSUME NEW i \in Syncs, CommitManualSync(i) PROVE TypeOK'
    <3>1. i \in Transfers /\ importer[i].phase = "applying"
      BY <2>10 DEF Transfers, CommitManualSync
    <3>2. importer[i].snapshot \in [Fields -> StoredValues]
      BY <3>1 DEF TypeOK
    <3>3. row' \in [Fields -> StoredValues]
      BY <2>10, <3>2 DEF CommitManualSync, Imported, Landed, TypeOK, StoredValues
    <3>4. Closed("manual_sync") \in RequestRows
      BY DEF Closed, Unused, RequestRows, ChangeSets
    <3>5. requests' \in [Requests -> RequestRows]
      BY <2>10, <3>4 DEF CommitManualSync, TypeOK
    <3> QED
      BY <2>10, <3>3, <3>5 DEF CommitManualSync, IdleImporter, Transfer, TypeOK
  <2>11. ASSUME NEW r \in Requests,
                NEW action \in {"accept_external", "keep_requested", "cancel"},
                ResolveByAdmin(r, action)
         PROVE  TypeOK'
    <3> DEFINE req == requests[r]
               reopened == [f \in Fields |->
                 IF f \in Asked(req) /\ req.seen # NoSnapshot
                 THEN [from |-> req.seen[f], to |-> req.changes[f].to]
                 ELSE req.changes[f]]
    <3>1. req \in RequestRows
      BY DEF TypeOK
    <3>2. reopened \in ChangeSets
      BY <3>1 DEF RequestRows, ChangeSets, Asked
    <3> HIDE DEF reopened
    <3>3. [req EXCEPT !.status = "pending", !.changes = reopened, !.seen = NoSnapshot]
            \in RequestRows
      BY <3>1, <3>2 DEF RequestRows
    <3>4. [req EXCEPT !.status = "completed", !.seen = NoSnapshot, !.closedBy = "admin"]
            \in RequestRows
      BY <3>1 DEF RequestRows
    <3>5. [req EXCEPT !.status = "cancelled", !.seen = NoSnapshot, !.closedBy = "admin"]
            \in RequestRows
      BY <3>1 DEF RequestRows
    <3>6. requests' \in [Requests -> RequestRows]
      BY <2>11, <3>3, <3>4, <3>5 DEF ResolveByAdmin, TypeOK, reopened
    <3> QED
      BY <2>11, <3>6 DEF ResolveByAdmin, TypeOK
  <2>12. CASE UNCHANGED vars
    BY <2>12 DEF vars, TypeOK
  <2> QED
    BY <2>1, <2>2, <2>3, <2>4, <2>5, <2>6, <2>7, <2>8, <2>9, <2>10, <2>11, <2>12
    DEF Next, EditorNext, ImporterNext, SyncNext, Transfers
<1> QED
  BY <1>1, <1>2, PTL DEF Spec

-----------------------------------------------------------------------------

\* The inductive invariant.  That no two requests are active carries the rest:
\* an import drops the guards of what it finds done, and with a second active
\* request it would drop guards that the second still needs.
OnlyActive == \A r, s \in Active(requests) : r = s

\* An admin closes what he resolves, and the values that a conflict recorded are
\* gone when the request is pending again.
RequestShape ==
  \A r \in Active(requests) :
    /\ requests[r].closedBy # "admin"
    /\ requests[r].status = "pending" => requests[r].seen = NoSnapshot

RequestInv ==
  OnlyActive /\ RequestShape /\ RequestsAreGuarded /\ GuardsTraceToRequests /\ RequestsAreReal

\* A save leaves one active request at most, and it asks for real changes.
LEMMA CreateOrMergeKeeps ==
  ASSUME TypeOK, OnlyActive, RequestShape, RequestsAreReal,
         NEW changes \in ChangeSets, CreateOrMerge(changes)
  PROVE  OnlyActive' /\ RequestShape' /\ RequestsAreReal'
<1>1. Unused \in RequestRows /\ Asked(Unused) = {}
  BY DEF Unused, RequestRows, ChangeSets, Asked
<1>2. CASE \E r \in Active(requests) :
             requests' = [requests EXCEPT ![r] = Merged(requests[r], changes)]
  <2>1. PICK r \in Active(requests) :
          requests' = [requests EXCEPT ![r] = Merged(requests[r], changes)]
    BY <1>2
  <2> DEFINE merged == Merged(requests[r], changes)
  <2>2. r \in Requests /\ requests[r] \in RequestRows
    BY DEF Active, TypeOK
  <2>3. /\ merged.seen = NoSnapshot
        /\ merged.closedBy # "admin"
        /\ merged.status # "conflict"
        /\ merged.status = "pending" => Asked(merged) # {}
        /\ \A f \in Asked(merged) \ Composite : merged.changes[f].from # merged.changes[f].to
    BY <2>2, MergedReal
  <2> HIDE DEF merged
  <2>4. requests'[r] = merged
    BY <2>1, <2>2 DEF TypeOK, merged
  <2>5. Active(requests') \subseteq {r}
    BY <2>1 DEF Active, TypeOK, OnlyActive
  <2>6. OnlyActive'
    BY <2>5 DEF OnlyActive
  <2>7. RequestShape'
    BY <2>3, <2>4, <2>5 DEF RequestShape
  <2>8. r \in Active(requests') => merged.status = "pending"
    BY <2>3, <2>4 DEF Active
  <2>9. RequestsAreReal'
    BY <2>3, <2>4, <2>5, <2>8 DEF RequestsAreReal
  <2> QED
    BY <2>6, <2>7, <2>9
<1>3. CASE UNCHANGED requests
  BY <1>3 DEF OnlyActive, RequestShape, RequestsAreReal
<1>4. CASE /\ Active(requests) = {}
           /\ \E r \in Requests : /\ requests[r].status = "unused"
                                  /\ requests' = [requests EXCEPT ![r] = Merged(Unused, changes)]
  <2>1. PICK r \in Requests : requests' = [requests EXCEPT ![r] = Merged(Unused, changes)]
    BY <1>4
  <2> DEFINE merged == Merged(Unused, changes)
  <2>3. /\ merged.seen = NoSnapshot
        /\ merged.closedBy # "admin"
        /\ merged.status # "conflict"
        /\ merged.status = "pending" => Asked(merged) # {}
        /\ \A f \in Asked(merged) \ Composite : merged.changes[f].from # merged.changes[f].to
    BY <1>1, MergedReal
  <2> HIDE DEF merged
  <2>4. requests'[r] = merged
    BY <2>1 DEF TypeOK, merged
  <2>5. Active(requests') \subseteq {r}
    BY <1>4, <2>1 DEF Active, TypeOK
  <2>6. OnlyActive'
    BY <2>5 DEF OnlyActive
  <2>7. RequestShape'
    BY <2>3, <2>4, <2>5 DEF RequestShape
  <2>8. r \in Active(requests') => merged.status = "pending"
    BY <2>3, <2>4 DEF Active
  <2>9. RequestsAreReal'
    BY <2>3, <2>4, <2>5, <2>8 DEF RequestsAreReal
  <2> QED
    BY <2>6, <2>7, <2>9
<1> QED
  BY <1>2, <1>3, <1>4 DEF CreateOrMerge

\* An import finds done what Regiondo shows, drops exactly those guards, and
\* leaves the rest of the active request guarded.
LEMMA ImportKeeps ==
  ASSUME TypeOK, RequestInv, NEW i \in Importers, CommitImport(i)
  PROVE  RequestInv'
<1> DEFINE values == importer[i].snapshot
           matching == UNION {Matching(requests[r], values) : r \in Active(requests)}
<1>1. values \in [Fields -> StoredValues]
  <2>1. i \in Transfers /\ importer[i].phase = "importing"
    BY DEF Transfers, CommitImport
  <2> QED
    BY <2>1 DEF TypeOK
<1>2. /\ requests' = [r \in Requests |->
           IF r \in Active(requests) THEN Reconciled(requests[r], values) ELSE requests[r]]
      /\ overrides' = overrides \ matching
  BY DEF CommitImport
<1> HIDE DEF values
<1>3. \A r \in Requests \ Active(requests) : requests'[r] = requests[r]
  BY <1>2
<1>4. \A r \in Active(requests) :
        /\ r \in Requests
        /\ requests[r] \in RequestRows
        /\ requests[r].status \in {"pending", "conflict"}
        /\ requests'[r] = Reconciled(requests[r], values)
  BY <1>2 DEF Active, TypeOK
<1>5. \A r \in Active(requests) :
        /\ requests'[r].status \in {"completed", "pending", "conflict"}
        /\ requests'[r].closedBy # "admin"
        /\ Asked(requests'[r]) = Asked(requests[r]) \ Matching(requests[r], values)
        /\ Asked(requests'[r]) # {} => requests'[r].status \in {"pending", "conflict"}
        /\ requests'[r].status \in {"pending", "conflict"} => Asked(requests'[r]) # {}
        /\ \A f \in Asked(requests'[r]) : requests'[r].changes[f] = requests[r].changes[f]
        /\ requests'[r].status = "pending" => requests'[r].seen = NoSnapshot
        /\ requests'[r].status = "conflict" =>
             /\ requests'[r].seen = values
             /\ \/ \E f \in Asked(requests'[r]) : values[f] # requests[r].changes[f].from
                \/ Asked(requests'[r]) \cap Composite # {}
  BY <1>1, <1>4, ReconciledReal DEF RequestInv, RequestShape
<1>6. Active(requests') \subseteq Active(requests)
  BY <1>3 DEF Active
<1>7. \A r \in Active(requests) : matching = Matching(requests[r], values)
  BY DEF RequestInv, OnlyActive
<1>8. OnlyActive'
  BY <1>6 DEF RequestInv, OnlyActive
<1>9. RequestShape'
  BY <1>5, <1>6 DEF RequestShape
<1>10. RequestsAreGuarded'
  <2> SUFFICES ASSUME NEW r \in Active(requests'), NEW f \in Asked(requests'[r])
               PROVE  f \in overrides'
    BY DEF RequestsAreGuarded, AskedByActive
  <2>1. r \in Active(requests)
    BY <1>6
  <2>2. f \in Asked(requests[r]) \ matching
    BY <2>1, <1>5, <1>7
  <2>3. f \in overrides
    BY <2>1, <2>2 DEF RequestInv, RequestsAreGuarded, AskedByActive
  <2> QED
    BY <2>2, <2>3, <1>2
<1>11. GuardsTraceToRequests'
  <2> SUFFICES ASSUME NEW f \in overrides'
               PROVE  \E r \in Requests :
                        /\ f \in Asked(requests'[r])
                        /\ r \in Active(requests') \/ requests'[r].closedBy = "admin"
    BY DEF GuardsTraceToRequests
  <2>1. f \in overrides /\ f \notin matching
    BY <1>2
  <2>2. PICK r \in Requests : /\ f \in Asked(requests[r])
                              /\ r \in Active(requests) \/ requests[r].closedBy = "admin"
    BY <2>1 DEF RequestInv, GuardsTraceToRequests
  <2>3. CASE r \in Active(requests)
    <3>1. f \in Asked(requests'[r])
      BY <2>1, <2>2, <2>3, <1>5, <1>7
    <3>2. r \in Active(requests')
      BY <2>3, <3>1, <1>5 DEF Active
    <3> QED
      BY <3>1, <3>2
  <2>4. CASE r \notin Active(requests)
    BY <2>2, <2>4, <1>3
  <2> QED
    BY <2>3, <2>4
<1>12. RequestsAreReal'
  <2> SUFFICES ASSUME NEW r \in Active(requests')
               PROVE  /\ Asked(requests'[r]) # {}
                      /\ \A f \in Asked(requests'[r]) \ Composite :
                           requests'[r].changes[f].from # requests'[r].changes[f].to
                      /\ requests'[r].status = "conflict" =>
                           /\ requests'[r].seen # NoSnapshot
                           /\ \A f \in Asked(requests'[r]) \ Composite :
                                requests'[r].seen[f] # requests'[r].changes[f].to
                           /\ \/ \E f \in Asked(requests'[r]) :
                                   requests'[r].seen[f] # requests'[r].changes[f].from
                              \/ Asked(requests'[r]) \cap Composite # {}
    BY DEF RequestsAreReal
  <2>1. r \in Active(requests)
    BY <1>6
  <2>2. Asked(requests'[r]) # {}
    BY <2>1, <1>5 DEF Active
  <2>3. \A f \in Asked(requests'[r]) :
          /\ f \in Asked(requests[r])
          /\ requests'[r].changes[f] = requests[r].changes[f]
          /\ f \notin Composite => values[f] # requests[r].changes[f].to
    BY <2>1, <1>5 DEF Matching, SameJson
  <2>4. \A f \in Asked(requests[r]) \ Composite : requests[r].changes[f].from # requests[r].changes[f].to
    BY <2>1 DEF RequestInv, RequestsAreReal
  <2>5. values # NoSnapshot
    BY <1>1, OverridesAssumption
  <2> QED
    BY <2>1, <2>2, <2>3, <2>4, <2>5, <1>5
<1> QED
  BY <1>8, <1>9, <1>10, <1>11, <1>12 DEF RequestInv

\* An admin who keeps a request starts it anew from what Regiondo showed; one
\* who closes it leaves the guards of its fields behind.
LEMMA ResolutionKeeps ==
  ASSUME TypeOK, RequestInv, NEW r \in Requests,
         NEW action \in {"accept_external", "keep_requested", "cancel"},
         ResolveByAdmin(r, action)
  PROVE  RequestInv'
<1> DEFINE req == requests[r]
           reopened == [f \in Fields |->
             IF f \in Asked(req) /\ req.seen # NoSnapshot
             THEN [from |-> req.seen[f], to |-> req.changes[f].to]
             ELSE req.changes[f]]
<1>1. /\ req \in RequestRows
      /\ r \in Active(requests)
      /\ req.status \in {"pending", "conflict"}
      /\ req.closedBy # "admin"
      /\ req.status = "pending" => req.seen = NoSnapshot
  BY DEF ResolveByAdmin, Active, TypeOK, RequestInv, RequestShape
<1>2. /\ \A s \in Requests \ {r} : requests'[s] = requests[s]
      /\ overrides' = overrides
  BY DEF ResolveByAdmin, TypeOK, metadataVars
<1>3. Active(requests) = {r}
  BY <1>1 DEF RequestInv, OnlyActive
<1>4. Active(requests') \subseteq {r}
  BY <1>2, <1>3 DEF Active
<1>5. OnlyActive'
  BY <1>4 DEF OnlyActive
<1>6. Asked(req) \subseteq overrides
  BY <1>1 DEF RequestInv, RequestsAreGuarded, AskedByActive
<1>7. CASE action = "keep_requested"
  <2>1. requests'[r] = [req EXCEPT !.status = "pending", !.changes = reopened, !.seen = NoSnapshot]
    BY <1>7 DEF ResolveByAdmin, TypeOK
  <2>2. /\ requests'[r].status = "pending"
        /\ requests'[r].changes = reopened
        /\ requests'[r].seen = NoSnapshot
        /\ requests'[r].closedBy = req.closedBy
    BY <2>1, <1>1 DEF RequestRows
  <2>3. r \in Active(requests')
    BY <2>2 DEF Active
  <2>4. \A f \in Fields : reopened[f] # NoChange <=> req.changes[f] # NoChange
    <3> SUFFICES ASSUME NEW f \in Fields
                 PROVE  reopened[f] # NoChange <=> req.changes[f] # NoChange
      OBVIOUS
    <3>1. CASE f \in Asked(req) /\ req.seen # NoSnapshot
      <4>1. req.seen[f] \in StoredValues /\ req.changes[f].to \in StoredValues
        BY <1>1, <3>1 DEF RequestRows, ChangeSets, Asked
      <4>2. reopened[f] # NoChange
        BY <4>1, <3>1, OverridesAssumption
      <4> QED
        BY <4>2, <3>1 DEF Asked
    <3>2. CASE ~(f \in Asked(req) /\ req.seen # NoSnapshot)
      BY <3>2
    <3> QED
      BY <3>1, <3>2
  <2>5. Asked(requests'[r]) = Asked(req)
    BY <2>2, <2>4 DEF Asked
  <2>6. RequestShape'
    BY <1>1, <1>4, <2>2 DEF RequestShape
  <2>7. RequestsAreGuarded'
    BY <1>2, <1>4, <1>6, <2>5 DEF RequestsAreGuarded, AskedByActive
  <2>8. GuardsTraceToRequests'
    <3> SUFFICES ASSUME NEW f \in overrides
                 PROVE  \E s \in Requests :
                          /\ f \in Asked(requests'[s])
                          /\ s \in Active(requests') \/ requests'[s].closedBy = "admin"
      BY <1>2 DEF GuardsTraceToRequests
    <3>1. PICK s \in Requests : /\ f \in Asked(requests[s])
                                /\ s \in Active(requests) \/ requests[s].closedBy = "admin"
      BY DEF RequestInv, GuardsTraceToRequests
    <3>2. CASE s = r
      BY <3>1, <3>2, <2>3, <2>5
    <3>3. CASE s # r
      BY <3>1, <3>3, <1>2, <1>3
    <3> QED
      BY <3>2, <3>3
  <2>9. \A f \in Asked(req) \ Composite :
          requests'[r].changes[f].from # requests'[r].changes[f].to
    <3> SUFFICES ASSUME NEW f \in Asked(req) \ Composite
                 PROVE  reopened[f].from # reopened[f].to
      BY <2>2
    <3>1. f \in Fields
      BY DEF Asked
    <3>2. CASE req.seen # NoSnapshot
      <4>1. req.seen[f] # req.changes[f].to
        BY <1>1, <3>2 DEF RequestInv, RequestsAreReal
      <4>2. reopened[f] = [from |-> req.seen[f], to |-> req.changes[f].to]
        BY <3>1, <3>2
      <4> QED
        BY <4>1, <4>2
    <3>3. CASE req.seen = NoSnapshot
      <4>1. reopened[f] = req.changes[f]
        BY <3>1, <3>3
      <4> QED
        BY <4>1, <1>1 DEF RequestInv, RequestsAreReal
    <3> QED
      BY <3>2, <3>3
  <2>10. Asked(req) # {}
    BY <1>1 DEF RequestInv, RequestsAreReal
  <2>11. RequestsAreReal'
    BY <1>4, <2>2, <2>5, <2>9, <2>10 DEF RequestsAreReal
  <2> QED
    BY <1>5, <2>6, <2>7, <2>8, <2>11 DEF RequestInv
<1>8. CASE action \in {"accept_external", "cancel"}
  <2>1. PICK status \in {"completed", "cancelled"} :
          requests'[r] = [req EXCEPT !.status = status, !.seen = NoSnapshot, !.closedBy = "admin"]
    BY <1>8 DEF ResolveByAdmin, TypeOK
  <2>2. /\ requests'[r].status = status
        /\ requests'[r].changes = req.changes
        /\ requests'[r].closedBy = "admin"
    BY <2>1, <1>1 DEF RequestRows
  <2>3. Active(requests') = {}
    BY <1>4, <2>2 DEF Active
  <2>4. RequestShape' /\ RequestsAreGuarded' /\ RequestsAreReal'
    BY <2>3 DEF RequestShape, RequestsAreGuarded, AskedByActive, RequestsAreReal
  <2>5. GuardsTraceToRequests'
    <3> SUFFICES ASSUME NEW f \in overrides
                 PROVE  \E s \in Requests :
                          /\ f \in Asked(requests'[s])
                          /\ s \in Active(requests') \/ requests'[s].closedBy = "admin"
      BY <1>2 DEF GuardsTraceToRequests
    <3>1. PICK s \in Requests : /\ f \in Asked(requests[s])
                                /\ s \in Active(requests) \/ requests[s].closedBy = "admin"
      BY DEF RequestInv, GuardsTraceToRequests
    <3>2. CASE s = r
      BY <3>1, <3>2, <2>2 DEF Asked
    <3>3. CASE s # r
      BY <3>1, <3>3, <1>2, <1>3
    <3> QED
      BY <3>2, <3>3
  <2> QED
    BY <1>5, <2>4, <2>5 DEF RequestInv
<1> QED
  BY <1>7, <1>8

\* Whatever saves, imports, syncs and resolutions meet: a booking has one active
\* change request at most, its fields are guarded against imports, every guard
\* comes from it or from one an admin closed, and what it asks for of a group
\* that is no object is a real change.
THEOREM RequestsHold ==
  Spec => [](OneActiveRequest /\ RequestsAreGuarded /\ GuardsTraceToRequests /\ RequestsAreReal)
<1>1. Init => RequestInv
  <2> SUFFICES ASSUME Init PROVE RequestInv
    OBVIOUS
  <2>1. Active(requests) = {} /\ overrides = {}
    BY DEF Init, Active, Unused
  <2> QED
    BY <2>1 DEF RequestInv, OnlyActive, RequestShape, RequestsAreGuarded, AskedByActive,
                GuardsTraceToRequests, RequestsAreReal
<1>2. TypeOK /\ RequestInv /\ [Next]_vars => RequestInv'
  <2> SUFFICES ASSUME TypeOK, RequestInv, [Next]_vars PROVE RequestInv'
    OBVIOUS
  <2>1. CASE UNCHANGED <<overrides, requests>>
    BY <2>1 DEF RequestInv, OnlyActive, RequestShape, RequestsAreGuarded, AskedByActive,
                GuardsTraceToRequests, RequestsAreReal
  <2>2. ASSUME NEW e \in Editors, NEW patch \in Patches, Save(e, patch) PROVE RequestInv'
    <3> DEFINE changed == ChangedFields(patch, editor[e].sawNone)
               changes == [f \in Fields |->
                 IF f \in changed THEN [from |-> row[f], to |-> patch[f]] ELSE NoChange]
    <3>1. changes \in ChangeSets
      <4>1. \A f \in DOMAIN patch : patch[f] \in StoredValues
        BY DEF Patches, StoredValues
      <4>2. changed \subseteq DOMAIN patch
        BY DEF ChangedFields
      <4> QED
        BY <4>1, <4>2 DEF ChangeSets, TypeOK
    <3>2. /\ IF changed = {} THEN UNCHANGED requests ELSE CreateOrMerge(changes)
          /\ overrides' = AskedByActive(requests')
      BY <2>2 DEF Save
    <3> HIDE DEF changed, changes
    <3>3. OnlyActive' /\ RequestShape' /\ RequestsAreReal'
      <4>1. CASE UNCHANGED requests
        BY <4>1 DEF RequestInv, OnlyActive, RequestShape, RequestsAreReal
      <4>2. CASE CreateOrMerge(changes)
        BY <4>2, <3>1, CreateOrMergeKeeps DEF RequestInv
      <4> QED
        BY <3>2, <4>1, <4>2
    <3>4. RequestsAreGuarded'
      BY <3>2 DEF RequestsAreGuarded
    <3>5. GuardsTraceToRequests'
      BY <3>2 DEF GuardsTraceToRequests, AskedByActive, Active
    <3> QED
      BY <3>3, <3>4, <3>5 DEF RequestInv
  <2>3. ASSUME NEW i \in Syncs, CommitManualSync(i) PROVE RequestInv'
    <3>1. \A r \in Active(requests) : requests'[r] = Closed("manual_sync")
      BY <2>3 DEF CommitManualSync, Active
    <3>2. \A r \in Requests \ Active(requests) : requests'[r] = requests[r]
      BY <2>3 DEF CommitManualSync
    <3>3. Closed("manual_sync").status = "completed"
      BY DEF Closed, Unused
    <3>4. Active(requests') = {} /\ overrides' = {}
      BY <2>3, <3>1, <3>2, <3>3 DEF Active, CommitManualSync
    <3> QED
      BY <3>4 DEF RequestInv, OnlyActive, RequestShape, RequestsAreGuarded, AskedByActive,
                  GuardsTraceToRequests, RequestsAreReal
  <2>4. ASSUME NEW f \in Fields, NEW v \in ProviderValues(f), ProviderEdit(f, v)
        PROVE  UNCHANGED <<overrides, requests>>
    BY <2>4 DEF ProviderEdit, metadataVars
  <2>5. ASSUME NEW e \in Editors, BeginSave(e) \/ AbortSave(e)
        PROVE  UNCHANGED <<overrides, requests>>
    BY <2>5 DEF BeginSave, AbortSave, metadataVars
  <2>6. ASSUME NEW i, Fetch(i) \/ BeginImport(i) \/ BeginManualSync(i) \/ FailImport(i)
        PROVE  UNCHANGED <<overrides, requests>>
    BY <2>6 DEF Fetch, BeginImport, BeginManualSync, FailImport, metadataVars
  <2>7. UNCHANGED vars => UNCHANGED <<overrides, requests>>
    BY DEF vars, metadataVars
  <2> QED
    BY <2>1, <2>2, <2>3, <2>4, <2>5, <2>6, <2>7, ImportKeeps, ResolutionKeeps
    DEF Next, EditorNext, ImporterNext, SyncNext
<1>3. RequestInv => OneActiveRequest
  <2> SUFFICES ASSUME OnlyActive PROVE OneActiveRequest
    BY DEF RequestInv
  <2>1. CASE Active(requests) = {}
    BY <2>1, FS_EmptySet DEF OneActiveRequest
  <2>2. ASSUME NEW r \in Active(requests) PROVE OneActiveRequest
    <3>1. Active(requests) = {r}
      BY DEF OnlyActive
    <3>2. Cardinality({r}) = 1
      BY FS_Singleton
    <3> QED
      BY <3>1, <3>2 DEF OneActiveRequest
  <2> QED
    BY <2>1, <2>2
<1>4. RequestInv => RequestsAreGuarded /\ GuardsTraceToRequests /\ RequestsAreReal
  BY DEF RequestInv
<1> QED
  BY <1>1, <1>2, <1>3, <1>4, TypeCorrect, PTL DEF Spec

\* One active change request for a booking, without an index that says so.
COROLLARY OneRequest == Spec => []OneActiveRequest
BY RequestsHold, PTL

\* What an active request asks for is guarded against imports.
COROLLARY RequestsGuarded == Spec => []RequestsAreGuarded
BY RequestsHold, PTL

\* No guard is there that nobody asked for.
COROLLARY GuardsTrace == Spec => []GuardsTraceToRequests
BY RequestsHold, PTL

\* Of the groups whose value is no object: an active request asks for a change,
\* and a conflict is about a third value.  The composite groups are exempt, as
\* the code recognises neither their revert nor their agreement.
COROLLARY RequestsReal == Spec => []RequestsAreReal
BY RequestsHold, PTL
=============================================================================
