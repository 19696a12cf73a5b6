--------------------------- MODULE LinkedBookings ---------------------------
(***************************************************************************)
(* Bookings that belong to one event, linked through tasks.  What they     *)
(* share (date, place, contact, products) is saved for all of them and     *)
(* projected to their tasks in one READ COMMITTED transaction.  The group  *)
(* and its version are read without a lock; then the bookings are locked   *)
(* one by one; the tasks are read without a lock and written whole.  Two   *)
(* saves can wait for each other: Abort is also the victim of a deadlock.  *)
(***************************************************************************)
EXTENDS Naturals, Sequences, FiniteSets
LOCAL INSTANCE SequencesExt

CONSTANTS Bookings, Tasks, Requests, NoBooking,
          Sorted   \* the bookings in the order of their ids

LinkedBookingsAssumption ==
  /\ IsFiniteSet(Bookings)
  /\ ToSet(Sorted) = Bookings /\ Len(Sorted) = Cardinality(Bookings)
  /\ NoBooking \notin Bookings
  /\ Bookings \cap Tasks = {}

Nobody == "nobody"

VARIABLES
  links,    \* task_bookings
  primary,  \* tasks.connected_booking_key
  deleted,  \* tasks that are deleted
  writer,   \* who wrote the shared fields of a booking, the raw_json of a task
  log,      \* tasks.update_log: who is in it
  save,     \* a request on the way
  covers    \* history: what a committed request has written

vars == <<links, primary, deleted, writer, log, save, covers>>

Records == Bookings \cup Tasks

TypeOK ==
  /\ links \subseteq Tasks \X Bookings
  /\ primary \in [Tasks -> Bookings \cup {NoBooking}]
  /\ deleted \subseteq Tasks
  /\ writer \in [Records -> Requests \cup {Nobody}]
  /\ log \in [Tasks -> SUBSET Requests]
  /\ \A r \in Requests : save[r].stage \in {"new", "form", "locking", "reading", "writing", "over"}
  /\ covers \in [Requests -> SUBSET Records]

-----------------------------------------------------------------------------
(* resolveLinkedBookingGroup: from a booking or a task, over the links and  *)
(* the primary bookings of the tasks that are not deleted, until it is      *)
(* closed.                                                                  *)

LinkedTo(t) == {b \in Bookings : <<t, b>> \in links \/ primary[t] = b}

Widened(bs) == bs \cup UNION {LinkedTo(t) : t \in {u \in Tasks \ deleted : LinkedTo(u) \cap bs # {}}}

Closure(bs) == {b \in Bookings : \A cs \in SUBSET Bookings : bs \subseteq cs /\ Widened(cs) = cs => b \in cs}

GroupBookings(root) == Closure(IF root \in Bookings THEN {root} ELSE LinkedTo(root))

GroupTasks(root) ==
  {t \in Tasks \ deleted : LinkedTo(t) \cap GroupBookings(root) # {}} \cup ({root} \cap Tasks)

\* The hash over the time of the last change of every booking and task of the
\* group, and its links.
Version(root) ==
  LET bs == GroupBookings(root)
      ts == GroupTasks(root) IN
  [bookings |-> [b \in bs |-> writer[b]],
   tasks |-> [t \in ts \ deleted |-> <<writer[t], log[t]>>],
   junction |-> links \cap (ts \X bs),
   primaries |-> {t \in ts \ deleted : primary[t] \in bs}]

NoVersion == <<>>

-----------------------------------------------------------------------------

New == [stage |-> "new", root |-> NoBooking, version |-> NoVersion, todo |-> <<>>,
        bookings |-> {}, tasks |-> {}, read |-> <<>>, link |-> NoBooking]

Init ==
  /\ links \in SUBSET (Tasks \X Bookings)
  /\ primary \in [Tasks -> Bookings \cup {NoBooking}]
  /\ \A t \in Tasks : primary[t] # NoBooking => <<t, primary[t]>> \in links
  /\ deleted = {}
  /\ writer = [x \in Records |-> Nobody]
  /\ log = [t \in Tasks |-> {}]
  /\ save = [r \in Requests |-> New]
  /\ covers = [r \in Requests |-> {}]

Stage(r, s) == save[r].stage = s

\* getTaskBookingContext, getBooking: the form is opened, with a version or,
\* in another client, without one.
OpenForm(r) ==
  /\ Stage(r, "new")
  /\ \E root \in Bookings \cup (Tasks \ deleted) :
       \E v \in {Version(root), NoVersion} :
         save' = [save EXCEPT ![r].stage = "form", ![r].root = root, ![r].version = v]
  /\ UNCHANGED <<links, primary, deleted, writer, log, covers>>

\* The locks a save holds: the bookings it is through with; and the task that
\* it was made from, once its bookings are done.
LockedBookings(r) == IF save[r].stage \in {"locking", "reading", "writing"}
                     THEN save[r].bookings \ ToSet(save[r].todo) ELSE {}
LockedTasks(r) == IF save[r].stage \in {"reading", "writing"} THEN {save[r].root} \cap Tasks ELSE {}
Locked(x, r) == \E q \in Requests \ {r} : x \in LockedBookings(q) \cup LockedTasks(q)

\* updateBooking: the booking itself first, then the others in their order;
\* updateTaskWithLinkedBookingsAtomically: all in their order.  The version is
\* compared now and not again (assertLinkedContextVersion).
BeginSave(r) ==
  LET root == save[r].root
      bs == GroupBookings(root)
      rest == SelectSeq(Sorted, LAMBDA b : b \in bs \ {root}) IN
  /\ Stage(r, "form")
  /\ bs # {}
  /\ save[r].version \in {Version(root), NoVersion}
  /\ save' = [save EXCEPT ![r].stage = "locking", ![r].bookings = bs, ![r].tasks = GroupTasks(root),
                          ![r].todo = IF root \in Bookings THEN <<root>> \o rest ELSE rest]
  /\ UNCHANGED <<links, primary, deleted, writer, log, covers>>

\* Mutant: every booking is saved in a transaction of its own.
LockBookingAndSave(r) ==
  LET b == Head(save[r].todo) IN
  /\ Stage(r, "locking") /\ save[r].todo # <<>>
  /\ writer' = [writer EXCEPT ![b] = r]
  /\ covers' = [covers EXCEPT ![r] = save[r].bookings]
  /\ save' = [save EXCEPT ![r].todo = Tail(@)]
  /\ UNCHANGED <<links, primary, deleted, log>>

\* updateBookingRecordInTransaction of the next booking.
LockBooking(r) ==
  LET b == Head(save[r].todo) IN
  /\ Stage(r, "locking") /\ save[r].todo # <<>>
  /\ ~Locked(b, r)
  /\ save' = [save EXCEPT ![r].todo = Tail(@)]
  /\ UNCHANGED <<links, primary, deleted, writer, log, covers>>

\* updateTaskRecord, in a save made from a task: it holds the row from here.
LockTask(r) ==
  LET t == save[r].root IN
  /\ Stage(r, "locking") /\ save[r].todo = <<>>
  /\ t \in Tasks => t \notin deleted /\ ~Locked(t, r)
  /\ save' = [save EXCEPT ![r].stage = "reading"]
  /\ UNCHANGED <<links, primary, deleted, writer, log, covers>>

\* syncLinkedTasksFromBookingInTransaction: the tasks as they are committed,
\* its own one as it has just written it ...
ReadTasks(r) ==
  /\ Stage(r, "reading")
  /\ save' = [save EXCEPT ![r].stage = "writing",
                ![r].read = [t \in save[r].tasks \ deleted |->
                               IF t = save[r].root THEN log[t] \cup {r} ELSE log[t]]]
  /\ UNCHANGED <<links, primary, deleted, writer, log, covers>>

\* ... and each of them whole (buildLinkedTaskProjection), and the commit.
CommitSave(r) ==
  LET w == save[r]
      written == w.bookings \cup (DOMAIN w.read \ deleted) IN
  /\ w.stage = "writing"
  /\ \A t \in DOMAIN w.read : ~Locked(t, r)
  /\ writer' = [x \in Records |-> IF x \in written THEN r ELSE writer[x]]
  /\ log' = [t \in Tasks |-> IF t \in written THEN w.read[t] \cup {r} ELSE log[t]]
  /\ covers' = [covers EXCEPT ![r] = written]
  /\ save' = [save EXCEPT ![r] = [New EXCEPT !.stage = "over"]]
  /\ UNCHANGED <<links, primary, deleted>>

\* updateTask without shared fields.  A booking that is not given clears the
\* primary one and keeps the links; another one replaces the links.
EditTask(r) ==
  \E t \in Tasks \ deleted, b \in Bookings \cup {NoBooking} :
    /\ Stage(r, "new")
    /\ ~Locked(t, r)
    /\ primary' = [primary EXCEPT ![t] = b]
    /\ links' \in {links} \cup {{l \in links : l[1] # t} \cup ({t} \X ({b} \ {NoBooking}))}
    /\ links' = links => b \in {primary[t], NoBooking}
    /\ b = primary[t] => links' = links
    /\ writer' = [writer EXCEPT ![t] = r]
    /\ log' = [log EXCEPT ![t] = @ \cup {r}]
    /\ covers' = [covers EXCEPT ![r] = {t}]
    /\ save' = [save EXCEPT ![r].stage = "over"]
    /\ UNCHANGED deleted

\* A task is deleted or restored; deleting takes the lock on its row.
ToggleTask(t) ==
  /\ \A r \in Requests : t \notin LockedTasks(r)
  /\ deleted' \in {deleted \cup {t}, deleted \ {t}}
  /\ UNCHANGED <<links, primary, writer, log, save, covers>>

Abort(r) ==
  /\ save[r].stage \notin {"new", "over"}
  /\ save' = [save EXCEPT ![r] = [New EXCEPT !.stage = "over"]]
  /\ UNCHANGED <<links, primary, deleted, writer, log, covers>>

Next ==
  \/ \E r \in Requests :
       \/ OpenForm(r) \/ BeginSave(r) \/ LockBooking(r) \/ LockTask(r) \/ ReadTasks(r)
       \/ CommitSave(r) \/ EditTask(r) \/ Abort(r)
  \/ \E t \in Tasks : ToggleTask(t)

Spec == Init /\ [][Next]_vars

-----------------------------------------------------------------------------

\* Of two saves that both wrote two records of a group, the later one is the
\* later one on both: no group is left with half of each, in whatever order
\* they locked its bookings and whatever happened to its links meanwhile.
GroupsSavedWhole ==
  \A r, q \in Requests : \A x, y \in covers[r] \cap covers[q] :
    writer[x] = r /\ writer[y] = q => r = q
=============================================================================
