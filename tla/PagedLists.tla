----------------------------- MODULE PagedLists -----------------------------
(***************************************************************************)
(* The lists that a client walks page by page while their rows come and    *)
(* go: bookings by date or by last change, error events, notifications.    *)
(* A page starts behind a cursor, the time and the id of the last row of   *)
(* the page before.  PostgreSQL compares microseconds; a cursor that went  *)
(* through a JavaScript Date has lost all below the millisecond.           *)
(***************************************************************************)
EXTENDS Naturals, FiniteSets

CONSTANTS
  Rows,      \* ids, which are ordered
  Micros,      \* the microseconds of a millisecond
  MaxTime,   \* bound: times that occur
  MaxLimit   \* bound: rows of a page

PagedListsAssumption ==
  /\ Rows \subseteq Nat /\ IsFiniteSet(Rows)
  /\ Micros \in Nat \ {0} /\ MaxTime \in Nat /\ MaxLimit \in Nat \ {0}

VARIABLES
  key,   \* the time a row is sorted by, of the rows there are
  walk   \* the walk of a client, see Start

vars == <<key, walk>>

\* Dates of bookings are written from JavaScript: whole milliseconds.
Lists == {"bookingDate", "lastUpdated", "errors", "notifications"}
Times(list) == IF list = "bookingDate" THEN {t \in 0..MaxTime : t % Micros = 0} ELSE 0..MaxTime
Directions(list) == IF list \in {"bookingDate", "lastUpdated"} THEN {"asc", "desc"} ELSE {"desc"}

TypeOK ==
  /\ DOMAIN key \subseteq Rows
  /\ walk.untouched \subseteq DOMAIN key
  /\ walk.listed \in [Rows -> 0..2]

\* The time in a cursor; that of a notification is looked up in its row.
Millis(list, time) == IF list = "notifications" THEN time ELSE time - (time % Micros)

\* (time, id) in the order of the list.
Follows(time, row, time2, row2) ==
  LET later == time > time2 \/ (time = time2 /\ row > row2)
  IN IF walk.direction = "asc" THEN later ELSE <<time, row>> # <<time2, row2>> /\ ~later

NoCursor == [time |-> 0, row |-> 0, given |-> FALSE]

\* Mutant: the rows of the cursor's time are taken for listed, whatever their id.
BehindByTime ==
  {r \in DOMAIN key :
     walk.cursor.given => IF walk.direction = "asc" THEN key[r] > walk.cursor.time
                          ELSE key[r] < walk.cursor.time}

\* buildListBookingsQuery, listAdminErrorEvents, listClientNotifications: WHERE.
Behind == {r \in DOMAIN key :
             walk.cursor.given => Follows(key[r], r, walk.cursor.time, walk.cursor.row)}

\* ORDER BY and LIMIT.
PageOf(rows) == {r \in rows : Cardinality({q \in rows : Follows(key[r], r, key[q], q)}) < walk.limit}

-----------------------------------------------------------------------------

\* A first request; its filters and its direction stay the same.
Start ==
  /\ walk.stage = "over"
  /\ \E d \in Directions(walk.list), n \in 1..MaxLimit :
       walk' = [walk EXCEPT !.stage = "open", !.direction = d, !.limit = n, !.cursor = NoCursor,
                            !.listed = [r \in Rows |-> 0], !.untouched = DOMAIN key,
                            !.exact = TRUE]
  /\ UNCHANGED key

\* A page, with the cursor of its last row unless nothing follows it.
NextPage ==
  LET page == PageOf(Behind)
      last == CHOOSE r \in page : \A q \in page \ {r} : Follows(key[r], r, key[q], q)
      more == Cardinality(Behind) > walk.limit IN
  /\ walk.stage = "open"
  /\ \A r \in page : walk.listed[r] < 2
  /\ walk' = [walk EXCEPT
       !.listed = [r \in Rows |-> IF r \in page THEN walk.listed[r] + 1 ELSE walk.listed[r]],
       !.stage = IF more THEN "open" ELSE "over",
       !.cursor = IF more THEN [time |-> Millis(walk.list, key[last]), row |-> last, given |-> TRUE]
                  ELSE NoCursor,
       !.exact = walk.exact /\ (more => Millis(walk.list, key[last]) = key[last])]
  /\ UNCHANGED key

\* A client that goes round in the same rows gives up.
GiveUp ==
  /\ walk.stage = "open"
  /\ \E r \in Rows : walk.listed[r] = 2
  /\ walk' = [walk EXCEPT !.stage = "over", !.untouched = {}]
  /\ UNCHANGED key

\* A row comes; it may be older than rows that are there, as its transaction
\* began before theirs or its time was given.
Insert(r) ==
  /\ r \notin DOMAIN key
  /\ \E t \in Times(walk.list) : key' = [q \in DOMAIN key \cup {r} |-> IF q = r THEN t ELSE key[q]]
  /\ UNCHANGED walk

\* A booking is saved or imported: it moves in its list.
Move(r) ==
  /\ walk.list \in {"bookingDate", "lastUpdated"} /\ r \in DOMAIN key
  /\ \E t \in Times(walk.list) : key' = [key EXCEPT ![r] = t]
  /\ walk' = [walk EXCEPT !.untouched = @ \ {r}]

\* A booking does not match the filters any more; pruneAdminErrorEvents drops
\* the events before a time.  Notifications stay.
Leave ==
  /\ \/ /\ walk.list \in {"bookingDate", "lastUpdated"}
        /\ \E r \in DOMAIN key : key' = [q \in DOMAIN key \ {r} |-> key[q]]
     \/ /\ walk.list = "errors"
        /\ \E t \in 1..MaxTime : key' = [q \in {p \in DOMAIN key : key[p] >= t} |-> key[q]]
  /\ walk' = [walk EXCEPT !.untouched = @ \cap DOMAIN key']

Init ==
  /\ \E list \in Lists :
       walk = [list |-> list, stage |-> "over", direction |-> "desc", limit |-> 1,
               cursor |-> NoCursor, listed |-> [r \in Rows |-> 0], untouched |-> {},
               exact |-> TRUE]
  /\ key = <<>>

Next ==
  \/ Start \/ NextPage \/ GiveUp \/ Leave
  \/ \E r \in Rows : Insert(r) \/ Move(r)

Spec == Init /\ [][Next]_vars

-----------------------------------------------------------------------------

\* Whoever walks a list to its end has seen every row once that was there all
\* the time and did not move, whatever came, moved and went meanwhile; as long
\* as every cursor said the time of its row exactly.
EveryRowListedOnce ==
  walk.stage = "over" /\ walk.exact => \A r \in walk.untouched : walk.listed[r] = 1
=============================================================================
