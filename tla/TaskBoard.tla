------------------------------ MODULE TaskBoard ------------------------------
(***************************************************************************)
(* The columns of the kanban board and the tasks on them.  Every operation *)
(* is a READ COMMITTED transaction.  One on the columns locks the rows it  *)
(* lists; when it had to wait for another, it goes on with the order and   *)
(* the rows it had seen before.  A task is written with the column, and    *)
(* the title of the column, that were read without a lock.                 *)
(* A transaction takes effect at its commit.  One that is refused, dies,   *)
(* or is the victim of a deadlock leaves nothing: that is Abort.           *)
(***************************************************************************)
EXTENDS PositionList

CONSTANTS Columns, Titles, Tasks, Requests, NoColumn, NoTitle, NoTask

ASSUME TaskBoardAssumption ==
  /\ IsFiniteSet(Columns)
  /\ NoColumn \notin Columns /\ NoTitle \notin Titles /\ NoTask \notin Tasks

VARIABLES
  position,  \* task_kanban_columns.position, of the columns there are
  title,     \* their titles
  task,      \* tasks: [state, column, status]
  work,      \* what a request has read and will write
  gap,       \* history: a deletion missed a column, and no order was saved since
  raced      \* history: tasks last written across a change of the columns

vars == <<position, title, task, work, gap, raced>>

Keep == Cardinality(Columns) + 1   \* position: not given

Idle == [op |-> "idle", column |-> NoColumn, title |-> NoTitle, place |-> Keep,
         order |-> <<>>, task |-> NoTask, stale |-> FALSE]

Stored == DOMAIN position

TitleOf(c) == IF c = NoColumn THEN NoTitle ELSE title[c]

TypeOK ==
  /\ Stored \subseteq Columns /\ DOMAIN title = Stored
  /\ \A c \in Stored : position[c] \in 0..Cardinality(Columns) /\ title[c] \in Titles
  /\ \A c, d \in Stored : c # d => position[c] # position[d] /\ title[c] # title[d]
  /\ task \in [Tasks -> [state : {"free", "live", "deleted"},
                         column : Columns \cup {NoColumn}, status : Titles \cup {NoTitle}]]
  /\ \A t \in Tasks : task[t].column \in Stored \cup {NoColumn}
  /\ raced \subseteq Tasks

OnTask(r) == work[r].op \in {"new", "save"}

\* What a request that is done leaves to the others: a task that is being
\* written does not see the change of the columns.
Done(r, onBoard) ==
  work' = [q \in Requests |->
             IF q = r THEN Idle
             ELSE IF onBoard /\ OnTask(q) THEN [work[q] EXCEPT !.stale = TRUE] ELSE work[q]]

Start(r, w) ==
  /\ work[r] = Idle
  /\ work' = [work EXCEPT ![r] = w]
  /\ UNCHANGED <<position, title, task, gap, raced>>

-----------------------------------------------------------------------------
(* The columns.                                                            *)

\* listTaskColumnRowsForUpdate: the snapshot of the statement.
ListColumns(r) ==
  /\ \/ \E c \in Columns \ Stored, t \in Titles, p \in 0..Keep :
          Start(r, [Idle EXCEPT !.op = "create", !.column = c, !.title = t, !.place = p,
                                !.order = InOrder(position)])
     \/ \E c \in Stored, t \in Titles :
          Start(r, [Idle EXCEPT !.op = "update", !.column = c, !.title = t,
                                !.order = InOrder(position)])
     \/ \E c \in Stored, p \in 0..Keep :
          Start(r, [Idle EXCEPT !.op = "update", !.column = c, !.place = p,
                                !.order = InOrder(position)])
     \/ \E c \in Stored :
          Start(r, [Idle EXCEPT !.op = "delete", !.column = c, !.order = InOrder(position)])
     \/ Start(r, [Idle EXCEPT !.op = "reorder", !.order = InOrder(position)])

\* An UPDATE of tasks waits for the tasks that a save holds.
TasksFree(moved) == \A q \in Requests : ~(work[q].op = "save" /\ work[q].task \in moved)

Assigned(moved, c, text) ==
  [t \in Tasks |-> IF t \in moved THEN [task[t] EXCEPT !.column = c, !.status = text]
                   ELSE task[t]]

\* The order that is saved names every column, or not.
GapAfter(order) == gap /\ ~(DOMAIN position' \subseteq Range(order))

\* resolveTaskColumnInsertPosition
InsertPosition(place, count) == IF place = Keep THEN count ELSE place

\* createTaskColumn: the row is inserted behind those that were listed, which
\* is a taken position when the list is not the whole.
CreateTaskColumn(r) ==
  LET w == work[r]
      existing == Relisted(w.order, position)
      at == InsertPosition(w.place, Len(existing))
      inserted == [c \in Stored \cup {w.column} |->
                     IF c = w.column THEN Len(existing) ELSE position[c]]
      order == Spliced(existing, at, w.column)
      moved == IF existing = <<>>
               THEN {t \in Tasks : task[t].state # "free" /\ task[t].column = NoColumn}
               ELSE {}
  IN
  /\ w.op = "create"
  /\ w.column \notin Stored /\ \A c \in Stored : title[c] # w.title
  /\ at <= Len(existing)
  /\ \A c \in Stored : position[c] # Len(existing)
  /\ Persistable(inserted, order)
  /\ TasksFree(moved)
  /\ position' = Persisted(inserted, order)
  /\ title' = [c \in Stored \cup {w.column} |-> IF c = w.column THEN w.title ELSE title[c]]
  /\ task' = Assigned(moved, w.column, w.title)
  /\ gap' = GapAfter(order)
  /\ raced' = raced \ moved
  /\ Done(r, TRUE)

\* updateTaskColumn.  Without a position the column goes to the one its row has
\* by now, in an order that may be older than that.
UpdateTaskColumn(r) ==
  LET w == work[r]
      existing == Relisted(w.order, position)
      at == IF w.place = Keep THEN position[w.column] ELSE w.place
      order == Spliced(Without(existing, w.column), at, w.column)
      nextTitle == IF w.title = NoTitle THEN title[w.column] ELSE w.title
      renamed == IF nextTitle = title[w.column] THEN {}
                 ELSE {t \in Tasks : task[t].column = w.column}
  IN
  /\ w.op = "update"
  /\ w.column \in Stored /\ \A c \in Stored \ {w.column} : title[c] # nextTitle
  /\ w.place # Keep => w.place < Len(existing)
  /\ TasksFree(renamed)
  /\ title' = [title EXCEPT ![w.column] = nextTitle]
  /\ task' = Assigned(renamed, w.column, nextTitle)
  /\ IF order = existing THEN UNCHANGED <<position, gap>>
     ELSE /\ Persistable(position, order)
          /\ position' = Persisted(position, order)
          /\ gap' = GapAfter(order)
  /\ raced' = raced \ renamed
  /\ Done(r, TRUE)

\* reorderTaskColumns: any order of the columns that were listed.
ReorderTaskColumns(r) ==
  LET existing == Relisted(work[r].order, position) IN
  /\ work[r].op = "reorder"
  /\ \E f \in [DOMAIN existing -> DOMAIN existing] :
       LET order == [i \in DOMAIN existing |-> existing[f[i]]] IN
       /\ \A i, j \in DOMAIN f : i # j => f[i] # f[j]
       /\ IF order = existing THEN UNCHANGED <<position, gap>>
          ELSE /\ Persistable(position, order)
               /\ position' = Persisted(position, order)
               /\ gap' = GapAfter(order)
  /\ Done(r, TRUE)
  /\ UNCHANGED <<title, task, raced>>

\* Mutant: the tasks of the column are left to ON DELETE SET NULL.
DeleteTaskColumnOnly(r) ==
  LET w == work[r]
      order == Without(Relisted(w.order, position), w.column)
      left == Stored \ {w.column}
      rest == [c \in left |-> position[c]]
  IN
  /\ w.op = "delete"
  /\ w.column \in Stored
  /\ Persistable(rest, order)
  /\ position' = Persisted(rest, order)
  /\ title' = [c \in left |-> title[c]]
  /\ task' = Assigned({t \in Tasks : task[t].column = w.column}, NoColumn, NoTitle)
  /\ gap' = (order = <<>> \/ gap)
  /\ Done(r, TRUE)
  /\ UNCHANGED raced

\* Mutant: the columns behind the one that goes keep their positions.
DeleteTaskColumnKeepsPositions(r) ==
  LET w == work[r] IN
  /\ w.op = "delete"
  /\ w.column \in Stored
  /\ position' = [c \in Stored \ {w.column} |-> position[c]]
  /\ title' = [c \in Stored \ {w.column} |-> title[c]]
  /\ Done(r, TRUE)
  /\ UNCHANGED <<task, gap, raced>>

\* deleteTaskColumn: its tasks go to the first of the columns that were listed.
DeleteTaskColumn(r) ==
  LET w == work[r]
      order == Without(Relisted(w.order, position), w.column)
      left == Stored \ {w.column}
      rest == [c \in left |-> position[c]]
      fallback == IF order = <<>> THEN NoColumn ELSE Head(order)
      moved == {t \in Tasks : task[t].column = w.column}
      missed == left \ Range(order)
  IN
  /\ w.op = "delete"
  /\ w.column \in Stored
  /\ Persistable(rest, order)
  /\ TasksFree(moved)
  /\ position' = Persisted(rest, order)
  /\ title' = [c \in left |-> title[c]]
  /\ task' = Assigned(moved, fallback, TitleOf(fallback))
  /\ gap' = (missed # {} \/ GapAfter(order))
  /\ raced' = IF missed = {} THEN raced \ moved ELSE raced \cup moved
  /\ Done(r, TRUE)

-----------------------------------------------------------------------------
(* The tasks.                                                              *)

\* resolveTaskColumnForCreate and ...ForUpdate: a column that exists; none,
\* while there are no columns; not given (a creation): the first, or none.
Resolvable == IF Stored = {} THEN {NoColumn} ELSE Stored
FirstColumn == IF Stored = {} THEN NoColumn ELSE Head(InOrder(position))

\* createTaskRecord, up to the insert.
ResolveForCreate(r, t) ==
  /\ task[t].state = "free"
  /\ \A q \in Requests : work[q].task # t
  /\ \E c \in Resolvable \cup {FirstColumn} :
       Start(r, [Idle EXCEPT !.op = "new", !.task = t, !.column = c, !.title = TitleOf(c)])

\* updateTaskRecord, up to the write: the row of the task is locked.
ResolveForUpdate(r, t) ==
  /\ task[t].state = "live"
  /\ \A q \in Requests : work[q].task # t
  /\ \E c \in Resolvable :
       Start(r, [Idle EXCEPT !.op = "save", !.task = t, !.column = c, !.title = TitleOf(c)])

\* The insert or the update, which the foreign key refuses when the column is
\* gone; a column that is locked is waited for.
Written(r) ==
  LET w == work[r] IN
  /\ w.column \in Stored \cup {NoColumn}
  /\ task' = [task EXCEPT ![w.task] = [state |-> "live", column |-> w.column, status |-> w.title]]
  /\ raced' = IF w.stale THEN raced \cup {w.task} ELSE raced \ {w.task}

WriteTask(r) ==
  /\ OnTask(r)
  /\ Written(r)
  /\ Done(r, FALSE)
  /\ UNCHANGED <<position, title, gap>>

\* deleteTask, restoreTask: one statement.
DeleteOrRestore(t) ==
  /\ \A q \in Requests : work[q].task # t
  /\ \/ task[t].state = "live" /\ task' = [task EXCEPT ![t].state = "deleted"]
     \/ task[t].state = "deleted" /\ task' = [task EXCEPT ![t].state = "live"]
  /\ UNCHANGED <<position, title, work, gap, raced>>

Abort(r) ==
  /\ work[r] # Idle
  /\ Done(r, FALSE)
  /\ UNCHANGED <<position, title, task, gap, raced>>

-----------------------------------------------------------------------------

Init ==
  /\ position = <<>> /\ title = <<>>
  /\ task = [t \in Tasks |-> [state |-> "free", column |-> NoColumn, status |-> NoTitle]]
  /\ work = [r \in Requests |-> Idle]
  /\ gap = FALSE
  /\ raced = {}

Request(r) ==
  \/ ListColumns(r)
  \/ CreateTaskColumn(r) \/ UpdateTaskColumn(r) \/ ReorderTaskColumns(r) \/ DeleteTaskColumn(r)
  \/ \E t \in Tasks : ResolveForCreate(r, t) \/ ResolveForUpdate(r, t)
  \/ WriteTask(r) \/ Abort(r)

Next == (\E r \in Requests : Request(r)) \/ \E t \in Tasks : DeleteOrRestore(t)

Spec == Init /\ [][Next]_vars

-----------------------------------------------------------------------------

\* The columns are numbered without a gap, so that the next one finds its
\* position free; except after a deletion which had waited for a creation, and
\* until an order is saved again.
BoardStaysDense == ~gap => Dense(position)

\* A task that is not free is on a column, as long as there is one, and says
\* its title; except a task that was written across a change of the columns,
\* until it is written again.
TasksKeepAColumn ==
  \A t \in Tasks : task[t].state # "free" /\ t \notin raced =>
    /\ task[t].column = NoColumn <=> Stored = {}
    /\ task[t].status = TitleOf(task[t].column)
=============================================================================
