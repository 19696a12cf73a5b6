----------------------------- MODULE BookingSync -----------------------------
(***************************************************************************)
(* The scheduled sync of bookings: a run lists what was bought at Regiondo *)
(* in a window of days, imports it booking by booking, and moves a cursor  *)
(* from which the next window is reckoned.  Time is in days; the cursor    *)
(* says the moment the run began, and only its day counts.  There is one    *)
(* run at a time, behind an advisory lock.                                 *)
(***************************************************************************)
EXTENDS Integers, FiniteSets

CONSTANTS
  Bookings,   \* booking keys, which are ordered
  Overlap,    \* REGIONDO_BOOKING_SYNC_OVERLAP_DAYS
  Lookback,   \* REGIONDO_BOOKING_SYNC_INITIAL_LOOKBACK_DAYS
  FullLookback,  \* of a run with --full
  PageSize,
  Lag,        \* Regiondo lists a booking that many days late at most
  Days        \* bound: the days 0..Days

BookingSyncAssumption ==
  /\ Bookings \subseteq Nat /\ IsFiniteSet(Bookings)
  /\ {Overlap, Lookback, FullLookback, Lag, Days} \subseteq Nat
  /\ PageSize \in Nat \ {0}
  /\ Lag <= Overlap

VARIABLES
  today,
  order,     \* the order in which Regiondo lists
  bought,    \* the day a booking was bought, of those that were
  listed,    \* the bookings that Regiondo lists
  imported,  \* bookings that the import or the inbox has stored
  cursor,    \* sync_state.cursor_value, NoCursor without a row
  covered,   \* history: the first day of the windows that counted and hang together
  run        \* the run there is, behind its advisory lock; see Start

vars == <<today, order, bought, listed, imported, cursor, covered, run>>

NoCursor == -1 - Overlap - Lookback - FullLookback - Days
Idle == [stage |-> "idle", full |-> FALSE, advance |-> FALSE, start |-> 0, end |-> 0, limit |-> 0,
         offset |-> 0, found |-> {}, failed |-> FALSE]   \* full: with --full

TypeOK ==
  /\ today \in 0..Days
  /\ listed \subseteq DOMAIN bought /\ imported \subseteq DOMAIN bought
  /\ run.found \subseteq listed
  /\ cursor \in {NoCursor} \cup 0..today

Init ==
  /\ today = 0 /\ order \in {"newest first", "oldest first"}
  /\ bought = <<>> /\ listed = {} /\ imported = {}
  /\ cursor = NoCursor /\ covered = Days + 1
  /\ run = Idle

-----------------------------------------------------------------------------
(* Regiondo, and the webhook inbox.                                        *)

Buy(b) ==
  /\ b \notin DOMAIN bought
  /\ bought' = [c \in DOMAIN bought \cup {b} |-> IF c = b THEN today ELSE bought[c]]
  /\ UNCHANGED <<today, order, listed, imported, cursor, covered, run>>

List(b) ==
  /\ b \in DOMAIN bought \ listed
  /\ listed' = listed \cup {b}
  /\ UNCHANGED <<today, order, bought, imported, cursor, covered, run>>

NextDay ==
  /\ today < Days
  /\ \A b \in DOMAIN bought \ listed : bought[b] + Lag > today
  /\ today' = today + 1
  /\ UNCHANGED <<order, bought, listed, imported, cursor, covered, run>>

ImportElsewhere(b) ==
  /\ b \in DOMAIN bought
  /\ imported' = imported \cup {b}
  /\ UNCHANGED <<today, order, bought, listed, cursor, covered, run>>

-----------------------------------------------------------------------------
(* runSyncRegiondoBookingsJob.                                             *)

\* buildRegiondoBookingSyncWindow
WindowStart(anchor) == anchor - Overlap

Anchor(full) == IF full THEN today - FullLookback
                ELSE IF cursor = NoCursor THEN today - Lookback ELSE cursor

\* A run over a window, with a limit or without (0).
Start ==
  /\ run = Idle
  /\ \E full \in BOOLEAN, limit \in 0..1 :
       run' = [Idle EXCEPT !.stage = "listing", !.full = full, !.start = WindowStart(Anchor(full)),
                           !.end = today, !.limit = limit, !.advance = TRUE]
  /\ UNCHANGED <<today, order, bought, listed, imported, cursor, covered>>

\* A run for one booking key lists nothing.
StartTargeted(b) ==
  /\ run = Idle /\ b \in listed
  /\ run' = [Idle EXCEPT !.stage = "importing", !.found = {b}]
  /\ UNCHANGED <<today, order, bought, listed, imported, cursor, covered>>

InWindow == {b \in listed : bought[b] \in run.start..run.end}

Precedes(a, b) ==
  LET older == bought[a] < bought[b] \/ (bought[a] = bought[b] /\ a < b)
  IN IF order = "oldest first" THEN older ELSE a # b /\ ~older

\* What the list holds now at an offset.
Page ==
  {b \in InWindow :
     Cardinality({a \in InWindow : Precedes(a, b)})
       \in run.offset..(run.offset + PageSize - 1)}

\* fetchSupplierBookingsForWindow: pages until one is short; the candidates in
\* the order of their keys, cut off at the limit.
FetchPage ==
  LET found == run.found \cup Page
      last == Cardinality(Page) < PageSize
      cut == last /\ run.limit > 0 /\ Cardinality(found) > run.limit IN
  /\ run.stage = "listing"
  /\ run' = [run EXCEPT
       !.found = IF cut THEN {b \in found : Cardinality({a \in found : a < b}) < run.limit} ELSE found,
       !.offset = @ + PageSize,
       !.advance = ~cut,
       !.stage = IF last THEN "importing" ELSE "listing"]
  /\ UNCHANGED <<today, order, bought, listed, imported, cursor, covered>>

\* The next candidate is hydrated and imported, or that fails.
ImportCandidate ==
  /\ run.stage = "importing"
  /\ \E b \in run.found :
       /\ \A a \in run.found : b <= a
       /\ \/ imported' = imported \cup {b} /\ run' = [run EXCEPT !.found = @ \ {b}]
          \/ run' = [run EXCEPT !.found = @ \ {b}, !.failed = TRUE] /\ UNCHANGED imported
  /\ UNCHANGED <<today, order, bought, listed, cursor, covered>>

\* A full run looks back as far as ever, which may be less than to the cursor:
\* then it leaves days out, and what hangs together begins with it.
CoveredBy(r) ==
  LET leavesOut == r.full /\ cursor # NoCursor /\ r.start > WindowStart(cursor)
  IN IF leavesOut \/ r.start < covered THEN r.start ELSE covered

\* Mutant: the failures are only counted.
FinishRunDespiteFailures ==
  /\ run.stage = "importing" /\ run.found = {}
  /\ IF run.advance
     THEN cursor' = run.end /\ covered' = CoveredBy(run)
     ELSE UNCHANGED <<cursor, covered>>
  /\ run' = Idle
  /\ UNCHANGED <<today, order, bought, listed, imported>>

\* storeRegiondoBookingSyncState, unless a candidate failed or was cut off.
FinishRun ==
  /\ run.stage = "importing" /\ run.found = {}
  /\ IF run.advance /\ ~run.failed
     THEN cursor' = run.end /\ covered' = CoveredBy(run)
     ELSE UNCHANGED <<cursor, covered>>
  /\ run' = Idle
  /\ UNCHANGED <<today, order, bought, listed, imported>>

\* A page cannot be fetched, or the process dies.
AbortRun ==
  /\ run # Idle
  /\ run' = Idle
  /\ UNCHANGED <<today, order, bought, listed, imported, cursor, covered>>

Next ==
  \/ NextDay
  \/ \E b \in Bookings : Buy(b) \/ List(b) \/ ImportElsewhere(b)
  \/ Start \/ FetchPage \/ ImportCandidate \/ FinishRun \/ AbortRun
  \/ \E b \in Bookings : StartTargeted(b)

Spec == Init /\ [][Next]_vars

-----------------------------------------------------------------------------

\* A booking that was bought since the first day that was covered, and is not
\* imported, lies in the window of the next run: no cursor goes past it, over
\* failures, limits, targeted and full runs, late listings and pages that
\* shift while they are fetched.  (A full run after a pause that is longer
\* than it looks back goes past the days between, see CoveredBy.)
CursorLeavesNothing ==
  \A b \in DOMAIN bought \ imported :
    cursor # NoCursor /\ bought[b] >= covered => bought[b] >= WindowStart(cursor)
=============================================================================
