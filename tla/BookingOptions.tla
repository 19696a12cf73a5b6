--------------------------- MODULE BookingOptions ---------------------------
(***************************************************************************)
(* The booking options of one group that a task can name: a list with      *)
(* positions like the board, under READ COMMITTED.  A deletion locks its   *)
(* option before it lists the siblings, so that, unlike on the board, the  *)
(* list is never older than a creation it had to wait for.  Two deletions  *)
(* can wait for each other; Abort is also the victim of that.              *)
(***************************************************************************)
EXTENDS PositionList

CONSTANTS Options, Requests, NoOption

BookingOptionsAssumption == NoOption \notin Options

VARIABLES
  options,  \* task_booking_options.position, of the options there are
  used,     \* options that the raw_json of a task names, deleted ones too
  request   \* what a request has listed, and the option that it holds

vars == <<options, used, request>>

Idle == [op |-> "idle", option |-> NoOption, order |-> <<>>]

TypeOK ==
  /\ DOMAIN options \subseteq Options
  /\ used \subseteq Options
  /\ \A r \in Requests : /\ request[r].op \in {"idle", "create", "reorder", "hold", "delete"}
                         /\ request[r].option \in Options \cup {NoOption}

Init ==
  /\ options = <<>>
  /\ used = {}
  /\ request = [r \in Requests |-> Idle]

Holds(r) == request[r].op \in {"hold", "delete"}
Held(o, r) == \E q \in Requests \ {r} : Holds(q) /\ request[q].option = o

Set(r, w) == request' = [request EXCEPT ![r] = w]

\* The rows that the listing of r locks in the end.
Listed(r) == Relisted(request[r].order, options)
Lockable(r) == \A i \in DOMAIN Listed(r) : ~Held(Listed(r)[i], r)

-----------------------------------------------------------------------------

\* listTaskBookingOptionRowsForUpdate, for a creation or a new order.
ListOptions(r) ==
  /\ request[r] = Idle
  /\ \/ \E o \in Options \ DOMAIN options :
          Set(r, [op |-> "create", option |-> o, order |-> InOrder(options)])
     \/ Set(r, [op |-> "reorder", option |-> NoOption, order |-> InOrder(options)])
  /\ UNCHANGED <<options, used>>

\* createTaskBookingOption: behind the options listed; the value and the
\* position are unique in the group.
CreateTaskBookingOption(r) ==
  LET o == request[r].option
      at == Len(Listed(r)) IN
  /\ request[r].op = "create"
  /\ Lockable(r)
  /\ o \notin DOMAIN options /\ \A p \in DOMAIN options : options[p] # at
  /\ options' = [p \in DOMAIN options \cup {o} |-> IF p = o THEN at ELSE options[p]]
  /\ Set(r, Idle)
  /\ UNCHANGED used

\* reorderTaskBookingOptions: any order of the options listed.
ReorderTaskBookingOptions(r) ==
  /\ request[r].op = "reorder"
  /\ Lockable(r)
  /\ \E f \in [DOMAIN Listed(r) -> DOMAIN Listed(r)] :
       LET order == [i \in DOMAIN f |-> Listed(r)[f[i]]] IN
       /\ \A i, j \in DOMAIN f : i # j => f[i] # f[j]
       /\ order # Listed(r) => Persistable(options, order)
       /\ options' = IF order = Listed(r) THEN options ELSE Persisted(options, order)
  /\ Set(r, Idle)
  /\ UNCHANGED used

\* deleteTaskBookingOption: SELECT ... FOR UPDATE of the option ...
LockOption(r) ==
  /\ request[r] = Idle
  /\ \E o \in DOMAIN options : /\ ~Held(o, r)
                               /\ Set(r, [op |-> "hold", option |-> o, order |-> <<>>])
  /\ UNCHANGED <<options, used>>

\* ... which no task may name; its siblings ...
ListSiblings(r) ==
  /\ request[r].op = "hold"
  /\ request[r].option \notin used
  /\ Set(r, [request[r] EXCEPT !.op = "delete", !.order = InOrder(options)])
  /\ UNCHANGED <<options, used>>

\* Mutant: the siblings keep their positions.
DeleteTaskBookingOptionOnly(r) ==
  /\ request[r].op = "delete"
  /\ Lockable(r)
  /\ options' = [p \in DOMAIN options \ {request[r].option} |-> options[p]]
  /\ Set(r, Idle)
  /\ UNCHANGED used

\* ... and the deletion.
DeleteTaskBookingOption(r) ==
  LET rest == [p \in DOMAIN options \ {request[r].option} |-> options[p]]
      order == Without(Listed(r), request[r].option) IN
  /\ request[r].op = "delete"
  /\ Lockable(r)
  /\ Persistable(rest, order)
  /\ options' = Persisted(rest, order)
  /\ Set(r, Idle)
  /\ UNCHANGED used

\* A task is saved with or without an option; nothing checks that it exists.
SaveTaskWithOption(o) ==
  /\ o \in DOMAIN options \cup used
  /\ used' \in {used \cup {o}, used \ {o}}
  /\ UNCHANGED <<options, request>>

Abort(r) ==
  /\ request[r] # Idle
  /\ Set(r, Idle)
  /\ UNCHANGED <<options, used>>

Next ==
  \/ \E r \in Requests :
       \/ ListOptions(r) \/ CreateTaskBookingOption(r) \/ ReorderTaskBookingOptions(r)
       \/ LockOption(r) \/ ListSiblings(r) \/ DeleteTaskBookingOption(r) \/ Abort(r)
  \/ \E o \in Options : SaveTaskWithOption(o)

Spec == Init /\ [][Next]_vars

-----------------------------------------------------------------------------

\* The options of a group are numbered without a gap, whoever waits for whom,
\* so that a creation is refused only when another one came first.
OptionsStayDense == Dense(options)
=============================================================================
