----------------------------- MODULE MCRecords -----------------------------
(* Six parts of the system side by side: the intake of external tasks, saves  *)
(* of linked bookings, lists, reservations of resources, the booking sync and *)
(* the requests to Regiondo.  They share no state, so a behaviour is one of   *)
(* one of them.                                                               *)
EXTENDS ExternalTaskIntake, TLC

CONSTANTS
  Linkable, Sorted, LinkedTasks, Savers, NoBooking,
  Rows, Micros, MaxTime, MaxLimit,
  Reserving, Resources, Rebuilds, Capacity, Slots, MaxNeed, MaxNow,
  Purchased, Overlap, Lookback, FullLookback, PageSize, Lag, Days,
  Callers, Throttle, MaxRetries, BaseDelay, MaxDelay, MaxAttempts, Patience, MaxClock

MCLinkable == {"b1", "b2"}
MCSorted == <<"b1", "b2">>
MCCapacity == [x \in Resources |-> 1]
MCSlots == {<<0, 2>>, <<1, 3>>}

VARIABLES
  part,
  links, primary, deleted, writer, log, save, covers,
  key, walk,
  now, booking, reserved, rebuild,
  today, order, bought, listed, imported, cursor, covered, run,
  clock, nextRequestAt, sent, call

Linked == INSTANCE LinkedBookings
            WITH Bookings <- Linkable, Tasks <- LinkedTasks, Requests <- Savers
Lists == INSTANCE PagedLists
Reservations == INSTANCE ResourceConsumption WITH Bookings <- Reserving
Sync == INSTANCE BookingSync WITH Bookings <- Purchased
Client == INSTANCE RegiondoRequests WITH now <- clock, MaxTime <- MaxClock

\* What the modules assume of their constants.
ASSUME PartsAssumption ==
  /\ Linked!LinkedBookingsAssumption
  /\ Lists!PagedListsAssumption
  /\ Reservations!ResourceConsumptionAssumption
  /\ Sync!BookingSyncAssumption
  /\ Client!RegiondoRequestsAssumption

intakePart == <<vars, intakeVars>>
linkedPart == <<links, primary, deleted, writer, log, save, covers>>
listPart   == <<key, walk>>
reservationPart == <<now, booking, reserved, rebuild>>
syncPart   == <<today, order, bought, listed, imported, cursor, covered, run>>
clientPart == <<clock, nextRequestAt, sent, call>>

MCInit ==
  /\ part \in {"intake", "linked", "lists", "reservations", "sync", "client"}
  /\ IntakeInit /\ Linked!Init /\ Lists!Init /\ Reservations!Init /\ Sync!Init /\ Client!Init
  /\ IF part = "linked"
     THEN links # {} /\ \A t \in LinkedTasks : primary[t] = NoBooking => \A l \in links : l[1] # t
     ELSE links = {} /\ primary = [t \in LinkedTasks |-> NoBooking]
  /\ part # "lists" => walk.list = "errors"
  /\ part # "reservations" => \A b \in Reserving : booking[b].slot = <<0, 2>>
  /\ part # "sync" => order = "newest first"

MCNext ==
  \/ /\ part = "intake" /\ IntakeNext
     /\ UNCHANGED <<part, linkedPart, listPart, reservationPart, syncPart, clientPart>>
  \/ /\ part = "linked" /\ Linked!Next
     /\ UNCHANGED <<part, intakePart, listPart, reservationPart, syncPart, clientPart>>
  \/ /\ part = "lists" /\ Lists!Next
     /\ UNCHANGED <<part, intakePart, linkedPart, reservationPart, syncPart, clientPart>>
  \/ /\ part = "reservations" /\ Reservations!Next
     /\ UNCHANGED <<part, intakePart, linkedPart, listPart, syncPart, clientPart>>
  \/ /\ part = "sync" /\ Sync!Next
     /\ UNCHANGED <<part, intakePart, linkedPart, listPart, reservationPart, clientPart>>
  \/ /\ part = "client" /\ Client!Next
     /\ UNCHANGED <<part, intakePart, linkedPart, listPart, reservationPart, syncPart>>

MCSpec ==
  MCInit /\ [][MCNext]_<<part, intakePart, linkedPart, listPart, reservationPart, syncPart, clientPart>>

\* The parts use the same model values, which keeps the group small.
Symmetry == Permutations(Tasks) \cup Permutations(Requests) \cup Permutations(Payloads)

GroupsSavedWhole == Linked!GroupsSavedWhole
EveryRowListedOnce == Lists!EveryRowListedOnce
CapacityNeverExceeded == Reservations!CapacityNeverExceeded
CursorLeavesNothing == Sync!CursorLeavesNothing
RequestsArePaced == Client!RequestsArePaced
TakenOrdersAreHandedOver == Client!TakenOrdersAreHandedOver
=============================================================================
