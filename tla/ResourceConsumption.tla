------------------------ MODULE ResourceConsumption ------------------------
(***************************************************************************)
(* The capacity of resources and what bookings reserve of it.  A rebuild   *)
(* replaces the reservations of one booking in a SERIALIZABLE transaction: *)
(* it sees the rows as they were when it began, and fails when a booking   *)
(* or a row it wants was changed since, or when another rebuild that       *)
(* looked at the same resource and time committed since.  Nobody tries it  *)
(* again; the next import of the booking does.                             *)
(***************************************************************************)
EXTENDS Naturals, FiniteSets

CONSTANTS
  Bookings, Resources, Rebuilds,
  NoBooking,
  Capacity,  \* resources.capacity_available
  Slots,     \* the [from, to) that bookings have
  MaxNeed,   \* bound: what a booking needs of a resource
  MaxNow     \* bound: the last instant

ResourceConsumptionAssumption ==
  /\ IsFiniteSet(Bookings) /\ IsFiniteSet(Resources) /\ IsFiniteSet(Slots)
  /\ NoBooking \notin Bookings
  /\ Capacity \in [Resources -> Nat]
  /\ Slots \subseteq (Nat \X Nat) /\ \A s \in Slots : s[1] < s[2]
  /\ MaxNeed \in Nat /\ MaxNow \in Nat

VARIABLES
  now,
  booking,   \* bookings: [slot, need, unmapped]
  reserved,  \* consumptions: capacity_used by booking, resource and slot
  rebuild    \* the transaction of a rebuild, see Begin

vars == <<now, booking, reserved, rebuild>>

\* A booking that is canceled, rejected or without products needs nothing; one
\* with products that are all unmapped cannot be rebuilt.
Booking == [slot : Slots, need : [Resources -> 0..MaxNeed], unmapped : {FALSE}]
           \cup [slot : Slots, need : [Resources -> {0}], unmapped : {TRUE}]
Needed(b) == {x \in Resources : b.need[x] > 0}

\* at: now() of the transaction; fits: what the rows it saw say; stale, passed:
\* what was committed since makes it fail, or fail to reserve.
Idle == [booking |-> NoBooking, at |-> 0, locked |-> FALSE, fits |-> FALSE,
         stale |-> FALSE, passed |-> FALSE]

TypeOK ==
  /\ now \in 0..MaxNow
  /\ booking \in [Bookings -> Booking]
  /\ reserved \in [Bookings \X Resources \X Slots -> Nat]
  /\ \A r \in Rebuilds : rebuild[r].booking \in Bookings \cup {NoBooking}

Init ==
  /\ now = 0
  /\ booking \in [Bookings -> {b \in Booking : Needed(b) = {} /\ ~b.unmapped}]
  /\ reserved = [k \in Bookings \X Resources \X Slots |-> 0]
  /\ rebuild = [r \in Rebuilds |-> Idle]

Overlapping(s, t) == s[1] < t[2] /\ t[1] < s[2]

\* SUM(capacity_used): the units that some of the rows reserve.
Units(rows, keys) == Cardinality(UNION {{k} \X (1..rows[k]) : k \in keys})

\* What getAvailability and the rebuild count against the capacity.
CapacityReserved(rows, x, slot) ==
  Units(rows, {k \in DOMAIN rows : k[2] = x /\ Overlapping(k[3], slot)})

\* DELETE ... WHERE booking_id AND dt_to > now(): what is over stays.
Released(b, time) ==
  [k \in DOMAIN reserved |-> IF k[1] = b /\ k[3][2] > time THEN 0 ELSE reserved[k]]

Fits(rows, b) ==
  \A x \in Needed(b) : CapacityReserved(rows, x, b.slot) + b.need[x] <= Capacity[x]

-----------------------------------------------------------------------------

\* The first statement of rebuildConsumptionsForBooking takes the snapshot ...
Begin(r, b) ==
  /\ rebuild[r] = Idle
  /\ rebuild' = [rebuild EXCEPT ![r] = 
       [Idle EXCEPT !.booking = b, !.at = now, !.fits = Fits(Released(b, now), booking[b])]]
  /\ UNCHANGED <<now, booking, reserved>>

\* ... and waits for the row of the booking, which has to be the one it saw.
LockBooking(r) ==
  LET b == rebuild[r].booking IN
  /\ b # NoBooking /\ ~rebuild[r].locked /\ ~rebuild[r].stale
  /\ \A q \in Rebuilds : ~(rebuild[q].locked /\ rebuild[q].booking = b)
  /\ rebuild' = [rebuild EXCEPT ![r].locked = TRUE]
  /\ UNCHANGED <<now, booking, reserved>>

\* Rebuilds of the same booking have its rows changed under them; those that
\* reserve there too did not see what was reserved.
Committed(r, rows, needed, slot) ==
  /\ reserved' = rows
  /\ rebuild' = [q \in Rebuilds |->
       LET w == rebuild[q]
           b == booking[w.booking] IN
       IF q = r \/ w = Idle THEN Idle
       ELSE [w EXCEPT !.stale = @ \/ (w.booking = rebuild[r].booking /\ rows # reserved),
                      !.passed = @ \/ (Needed(b) \cap needed # {} /\ Overlapping(b.slot, slot))]]
  /\ UNCHANGED <<now, booking>>

\* Nothing is needed, or not any more.
Release(r) ==
  LET b == booking[rebuild[r].booking] IN
  /\ rebuild[r].locked /\ ~rebuild[r].stale
  /\ Needed(b) = {} /\ ~b.unmapped
  /\ Committed(r, Released(rebuild[r].booking, rebuild[r].at), {}, b.slot)

With(rows, id) ==
  LET b == booking[id] IN
  [k \in DOMAIN rows |-> IF k[1] = id /\ k[3] = b.slot THEN rows[k] + b.need[k[2]] ELSE rows[k]]

\* Mutant: REPEATABLE READ, which lets two rebuilds pass each other.
ReserveRepeatableRead(r) ==
  LET id == rebuild[r].booking
      b == booking[id] IN
  /\ rebuild[r].locked /\ ~rebuild[r].stale
  /\ Needed(b) # {} /\ rebuild[r].fits
  /\ Committed(r, With(Released(id, rebuild[r].at), id), Needed(b), b.slot)

\* The reservations, when they fit in beside those that the rebuild saw.
Reserve(r) ==
  LET id == rebuild[r].booking
      b == booking[id] IN
  /\ rebuild[r].locked /\ ~rebuild[r].stale /\ ~rebuild[r].passed
  /\ Needed(b) # {} /\ rebuild[r].fits
  /\ Committed(r, With(Released(id, rebuild[r].at), id), Needed(b), b.slot)

\* OverbookingError, MissingProductResourceMappingError, a conflict or a lost
\* connection: all is rolled back, and an old reservation stays.
Abort(r) ==
  /\ rebuild[r] # Idle
  /\ rebuild' = [rebuild EXCEPT ![r] = Idle]
  /\ UNCHANGED <<now, booking, reserved>>

\* releaseConsumptionsForBooking is called by nobody.  An edit or an import
\* moves a booking, cancels it or changes its products.
ChangeBooking(b) ==
  /\ \A r \in Rebuilds : ~(rebuild[r].locked /\ rebuild[r].booking = b)
  /\ \E next \in Booking \ {booking[b]} : booking' = [booking EXCEPT ![b] = next]
  /\ rebuild' = [r \in Rebuilds |-> IF rebuild[r].booking = b THEN [rebuild[r] EXCEPT !.stale = TRUE]
                                    ELSE rebuild[r]]
  /\ UNCHANGED <<now, reserved>>

Tick ==
  /\ now < MaxNow
  /\ now' = now + 1
  /\ UNCHANGED <<booking, reserved, rebuild>>

Next ==
  \/ Tick
  \/ \E b \in Bookings : ChangeBooking(b)
  \/ \E r \in Rebuilds : \/ \E b \in Bookings : Begin(r, b)
                         \/ LockBooking(r) \/ Release(r) \/ Reserve(r) \/ Abort(r)

Spec == Init /\ [][Next]_vars

-----------------------------------------------------------------------------

\* No resource is reserved beyond its capacity at any instant, whichever
\* rebuilds run at once, bookings move between and fail to get a new slot.
CapacityNeverExceeded ==
  \A x \in Resources : \A instant \in {s[1] : s \in Slots} :
    Units(reserved, {k \in DOMAIN reserved : k[2] = x /\ k[3][1] <= instant /\ instant < k[3][2]})
      <= Capacity[x]
=============================================================================
