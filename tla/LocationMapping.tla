-------------------------- MODULE LocationMapping --------------------------
(***************************************************************************)
(* Locations, and the connection of one to Regiondo: the location that the *)
(* import made for an id of Regiondo is merged into one that the staff     *)
(* made, with all that refers to it, in a READ COMMITTED transaction.      *)
(* Meanwhile bookings are imported and edited, and locations are edited    *)
(* and deleted.  Rows are locked as PostgreSQL does it: FOR UPDATE by the  *)
(* merge, shared by whoever refers to a location (foreign key), by update  *)
(* when the import finds its location.  Abort is also the victim of a      *)
(* deadlock, such as an import that holds a booking at the source.         *)
(***************************************************************************)
EXTENDS FiniteSets

CONSTANTS Locations, Bookings, Ids, Requests, NoId, NoLocation, NoBooking

LocationMappingAssumption == NoId \notin Ids /\ NoLocation \notin Locations /\ NoBooking \notin Bookings

VARIABLES
  id,      \* locations.regiondo_location_id, of the rows there are
  place,   \* bookings.location_id, NoLocation before the first import
  work,    \* the transaction, or the two statements, of a request
  missed   \* history: bookings that moved and whose tasks were not told

vars == <<id, place, work, missed>>

Rows == DOMAIN id

\* strong, update, shared: the locks on locations; row: the lock on a booking.
Idle == [stage |-> "idle", booking |-> NoBooking, target |-> NoLocation, source |-> NoLocation,
         id |-> NoId, strong |-> {}, update |-> {}, shared |-> {}, affected |-> {}]

TypeOK ==
  /\ Rows \subseteq Locations /\ \A l \in Rows : id[l] \in Ids \cup {NoId}
  /\ place \in [Bookings -> Rows \cup {NoLocation}]
  /\ \A r \in Requests :
       /\ work[r].stage \in {"idle", "importing", "located", "editing", "placed", "target", "source",
                             "moving", "changing"}
       /\ work[r].strong \cup work[r].update \cup work[r].shared \subseteq Locations
  /\ missed \subseteq Bookings

Init ==
  /\ id \in UNION {[ls -> Ids \cup {NoId}] : ls \in SUBSET Locations}
  /\ \A k, l \in Rows : id[k] = id[l] /\ id[k] # NoId => k = l
  /\ place \in [Bookings -> Rows \cup {NoLocation}]
  /\ work = [r \in Requests |-> Idle]
  /\ missed = {}

Set(r, w) == work' = [work EXCEPT ![r] = w]

\* Whether r would wait for a lock on a location or a booking.
FreeForUpdate(l, r) ==
  \A q \in Requests \ {r} : l \notin work[q].strong \cup work[q].update \cup work[q].shared
FreeForNoKeyUpdate(l, r) == \A q \in Requests \ {r} : l \notin work[q].strong \cup work[q].update
FreeForKeyShare(l, r) == \A q \in Requests \ {r} : l \notin work[q].strong
FreeBooking(b, r) == \A q \in Requests \ {r} : work[q].booking # b

-----------------------------------------------------------------------------

\* upsertNormalizedRegiondoBooking: the booking is locked; a new one would be
\* inserted once, which comes to the same ...
BeginImport(r, b) ==
  /\ work[r] = Idle /\ FreeBooking(b, r)
  /\ Set(r, [Idle EXCEPT !.stage = "importing", !.booking = b])
  /\ UNCHANGED <<id, place, missed>>

\* ... resolveLocation finds the location of the id, or inserts it: two imports
\* that insert the same one wait for each other ...
ResolveLocation(r, i) ==
  /\ work[r].stage = "importing"
  /\ \A q \in Requests : work[q].stage = "located" => work[q].id # i
  /\ \/ \E l \in Rows :
          /\ id[l] = i /\ FreeForNoKeyUpdate(l, r)
          /\ Set(r, [work[r] EXCEPT !.stage = "located", !.id = i, !.target = l, !.update = {l}])
     \/ /\ \A l \in Rows : id[l] # i
        /\ \E l \in Locations \ Rows :
             /\ \A q \in Requests : work[q].target # l
             /\ Set(r, [work[r] EXCEPT !.stage = "located", !.id = i, !.target = l])
  /\ UNCHANGED <<id, place, missed>>

\* ... and the booking is put there, unless its place is guarded.
CommitImport(r) ==
  LET w == work[r] IN
  /\ w.stage = "located"
  /\ id' = [l \in Rows \cup {w.target} |-> IF l = w.target THEN w.id ELSE id[l]]
  /\ \/ place' = [place EXCEPT ![w.booking] = w.target]
     \/ place[w.booking] # NoLocation /\ UNCHANGED place
  /\ Set(r, Idle)
  /\ UNCHANGED missed

\* updateBookingLocally, with a location.
BeginEdit(r, b, l) ==
  /\ work[r] = Idle /\ FreeBooking(b, r)
  /\ l \in Rows /\ place[b] # NoLocation
  /\ Set(r, [Idle EXCEPT !.stage = "editing", !.booking = b, !.target = l])
  /\ UNCHANGED <<id, place, missed>>

WriteEdit(r) ==
  LET l == work[r].target IN
  /\ work[r].stage = "editing"
  /\ l \in Rows /\ FreeForKeyShare(l, r)
  /\ Set(r, [work[r] EXCEPT !.stage = "placed", !.shared = {l}])
  /\ UNCHANGED <<id, place, missed>>

CommitEdit(r) ==
  /\ work[r].stage = "placed"
  /\ place' = [place EXCEPT ![work[r].booking] = work[r].target]
  /\ Set(r, Idle)
  /\ UNCHANGED <<id, missed>>

-----------------------------------------------------------------------------

\* mapLocationToRegiondo: the target is locked, which must not be connected ...
LockTarget(r, l) ==
  /\ work[r] = Idle
  /\ l \in Rows /\ FreeForUpdate(l, r)
  /\ Set(r, [Idle EXCEPT !.stage = "target", !.target = l, !.strong = {l}])
  /\ UNCHANGED <<id, place, missed>>

\* Mutant: the source is read without FOR UPDATE.
LockSourceUnlocked(r, l) ==
  /\ work[r].stage = "target"
  /\ l \in Rows \ {work[r].target}
  /\ id[l] # NoId /\ id[work[r].target] = NoId
  /\ Set(r, [work[r] EXCEPT !.stage = "source", !.source = l, !.id = id[l]])
  /\ UNCHANGED <<id, place, missed>>

\* ... then the source, which has to be.
LockSource(r, l) ==
  /\ work[r].stage = "target"
  /\ l \in Rows \ {work[r].target} /\ FreeForUpdate(l, r)
  /\ id[l] # NoId /\ id[work[r].target] = NoId
  /\ Set(r, [work[r] EXCEPT !.stage = "source", !.source = l, !.id = id[l], !.strong = @ \cup {l}])
  /\ UNCHANGED <<id, place, missed>>

\* The tasks of the bookings at the two are given the target.
RewriteTasks(r) ==
  LET w == work[r] IN
  /\ w.stage = "source"
  /\ Set(r, [w EXCEPT !.stage = "moving", !.affected = {b \in Bookings : place[b] \in {w.target, w.source}}])
  /\ UNCHANGED <<id, place, missed>>

\* The bookings are moved, which waits for those that are locked; the id is
\* handed over and the source deleted, to which nothing may refer any more.
MoveAndCommit(r) ==
  LET w == work[r]
      moved == {b \in Bookings : place[b] = w.source} IN
  /\ w.stage = "moving"
  /\ \A b \in moved : FreeBooking(b, r)
  /\ FreeForUpdate(w.source, r)
  /\ place' = [b \in Bookings |-> IF b \in moved THEN w.target ELSE place[b]]
  /\ id' = [l \in Rows \ {w.source} |-> IF l = w.target THEN w.id ELSE id[l]]
  /\ missed' = missed \cup (moved \ w.affected)
  /\ Set(r, Idle)

-----------------------------------------------------------------------------

\* updateLocation reads the row and writes all of it back, with another id or
\* the one it has read, whatever it is now; createLocation; deleteLocation.
ReadLocation(r, l) ==
  /\ work[r] = Idle /\ l \in Rows
  /\ \E i \in {id[l], NoId} \cup Ids :
       Set(r, [Idle EXCEPT !.stage = "changing", !.source = l, !.id = i])
  /\ UNCHANGED <<id, place, missed>>

Taken(i) == i # NoId /\ (\/ \E l \in Rows : id[l] = i
                         \/ \E q \in Requests : work[q].stage = "located" /\ work[q].id = i)

WriteLocation(r) ==
  LET l == work[r].source
      i == work[r].id IN
  /\ work[r].stage = "changing"
  /\ l \in Rows
  /\ IF id[l] = i THEN FreeForNoKeyUpdate(l, r) ELSE FreeForUpdate(l, r) /\ ~Taken(i)
  /\ id' = [id EXCEPT ![l] = i]
  /\ Set(r, Idle)
  /\ UNCHANGED <<place, missed>>

CreateLocation(l) ==
  /\ l \in Locations \ Rows
  /\ \A q \in Requests : work[q].target # l
  /\ \E i \in Ids \cup {NoId} :
       /\ ~Taken(i)
       /\ id' = [k \in Rows \cup {l} |-> IF k = l THEN i ELSE id[k]]
  /\ UNCHANGED <<place, work, missed>>

DeleteLocation(l) ==
  /\ l \in Rows
  /\ \A b \in Bookings : place[b] # l
  /\ \A q \in Requests : l \notin work[q].strong \cup work[q].update \cup work[q].shared
  /\ id' = [k \in Rows \ {l} |-> id[k]]
  /\ UNCHANGED <<place, work, missed>>

\* A check fails, a row is gone, a deadlock is broken, the process dies.
Abort(r) ==
  /\ work[r] # Idle
  /\ Set(r, Idle)
  /\ UNCHANGED <<id, place, missed>>

Next ==
  \/ \E r \in Requests :
       \/ \E b \in Bookings : BeginImport(r, b) \/ \E l \in Locations : BeginEdit(r, b, l)
       \/ \E i \in Ids : ResolveLocation(r, i)
       \/ \E l \in Locations : LockTarget(r, l) \/ LockSource(r, l) \/ ReadLocation(r, l)
       \/ CommitImport(r) \/ WriteEdit(r) \/ CommitEdit(r) \/ RewriteTasks(r)
       \/ MoveAndCommit(r) \/ WriteLocation(r) \/ Abort(r)
  \/ \E l \in Locations : CreateLocation(l) \/ DeleteLocation(l)

Spec == Init /\ [][Next]_vars

-----------------------------------------------------------------------------

\* A booking that moves with its location takes its tasks along: none arrives
\* at the source between the statement that looks for them and the one that
\* moves them, by an import or by an edit.
MovedBookingsTakeTheirTasks == missed = {}
=============================================================================
