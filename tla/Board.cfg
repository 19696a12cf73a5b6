\* Two requests on three columns and a task; two requests on three options;
\* three requests on three locations and two bookings.
SPECIFICATION MCSpec
CONSTANTS
  Columns = {c1, c2, c3}
  Titles = {x, y, z}
  Tasks = {t1}
  Requests = {r1, r2}
  NoColumn = NoColumn
  NoTitle = NoTitle
  NoTask = NoTask
  Options = {c1, c2, c3}
  OptionRequests = {r1, r2}
  NoOption = NoOption
  Locations = {c1, c2, c3}
  Placed = {r1, r2}
  Ids = {i1, i2}
  LocationRequests = {x, y, z}
  NoId = NoId
  NoLocation = NoLocation
  NoBooking = NoBooking
SYMMETRY Symmetry
INVARIANTS PositionsStayDense TasksKeepAColumn MovedBookingsTakeTheirTasks
