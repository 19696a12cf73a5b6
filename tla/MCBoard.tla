------------------------------ MODULE MCBoard ------------------------------
(* The board, the booking options beside it and the locations.  They share no *)
(* state, so a behaviour is one of one of them.                               *)
EXTENDS TaskBoard, TLC

CONSTANTS
  Options, OptionRequests, NoOption,
  Locations, Placed, Ids, LocationRequests, NoId, NoLocation, NoBooking

VARIABLES
  part,
  options, used, request,
  id, place, merge, missed

OptionList == INSTANCE BookingOptions WITH Requests <- OptionRequests
Places == INSTANCE LocationMapping WITH Bookings <- Placed, Requests <- LocationRequests, work <- merge

\* What the modules assume of their constants.
ASSUME PartsAssumption ==
  /\ OptionList!BookingOptionsAssumption
  /\ Places!LocationMappingAssumption

optionVars == <<options, used, request>>
locationVars == <<id, place, merge, missed>>

MCInit ==
  /\ part \in {"board", "options", "locations"}
  /\ Init /\ OptionList!Init /\ Places!Init
  /\ part # "locations" => Places!Rows = {}

BoardPart == part = "board" /\ Next /\ UNCHANGED <<part, optionVars, locationVars>>

OptionPart == part = "options" /\ OptionList!Next /\ UNCHANGED <<part, vars, locationVars>>

LocationPart == part = "locations" /\ Places!Next /\ UNCHANGED <<part, vars, optionVars>>

MCNext == BoardPart \/ OptionPart \/ LocationPart

MCSpec == MCInit /\ [][MCNext]_<<part, vars, optionVars, locationVars>>

\* The parts share the model values of columns, titles and requests, which
\* keeps the group small.
Symmetry == Permutations(Columns) \cup Permutations(Titles) \cup Permutations(Requests)

\* The columns of the board and the booking options are numbered without a gap.
PositionsStayDense == BoardStaysDense /\ OptionList!OptionsStayDense

MovedBookingsTakeTheirTasks == Places!MovedBookingsTakeTheirTasks
=============================================================================
