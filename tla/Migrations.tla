----------------------------- MODULE Migrations -----------------------------
(***************************************************************************)
(* npm run migrate: the SQL files of a release are applied in their order, *)
(* each in a transaction with the row that remembers it.  Deployments run  *)
(* it at once, of the same or of different releases, die, start again, and *)
(* may lose the session that holds their advisory lock, which the pool     *)
(* replaces without a word.  A database from before schema_migrations is   *)
(* marked as it is, if it has the tables that matter.                      *)
(***************************************************************************)
EXTENDS Naturals

CONSTANTS
  Deployments,
  Files,        \* names of SQL files, in their order
  Checksums,
  Releases,     \* functions from some of the files to their checksums
  NoDeployment

MigrationsAssumption ==
  /\ Files \subseteq Nat
  /\ \A r \in Releases : DOMAIN r \subseteq Files /\ \A f \in DOMAIN r : r[f] \in Checksums
  /\ NoDeployment \notin Deployments

VARIABLES
  legacy,     \* the tables there were before schema_migrations: "none", "some", "all"
  tracked,    \* schema_migrations: a function from file names to checksums
  lock,       \* who holds the advisory lock
  work,       \* what each deployment is at
  times,      \* history: how often a file took effect
  marked,     \* history: files that were marked, not run
  completed   \* history: releases that were reported as migrated

vars == <<legacy, tracked, lock, work, times, marked, completed>>

Idle == [stage |-> "idle", files |-> <<>>, known |-> <<>>, todo |-> {}]

Stages == {"idle", "waiting", "locked", "marking", "migrating"}

TypeOK ==
  /\ legacy \in {"none", "some", "all"}
  /\ DOMAIN tracked \subseteq Files
  /\ lock \in Deployments \cup {NoDeployment}
  /\ \A d \in Deployments :
       /\ DOMAIN work[d] = DOMAIN Idle
       /\ work[d].stage \in Stages
       /\ work[d].stage # "idle" => work[d].files \in Releases
       /\ work[d].todo \subseteq DOMAIN work[d].files
  /\ times \in [Files -> Nat]
  /\ marked \subseteq Files /\ completed \subseteq Releases

Init ==
  /\ legacy \in {"none", "some", "all"}
  /\ tracked = <<>>
  /\ lock = NoDeployment
  /\ work = [d \in Deployments |-> Idle]
  /\ times = [f \in Files |-> 0]
  /\ marked = {} /\ completed = {}

\* The table with the rows of new, which it did not have.
With(table, new) == [f \in DOMAIN table \cup DOMAIN new |-> IF f \in DOMAIN new THEN new[f] ELSE table[f]]

Advance(d, w) == work' = [work EXCEPT ![d] = w]

\* The connection is closed at the end, whatever became of the lock.
Leave(d) ==
  /\ Advance(d, Idle)
  /\ lock' = IF lock = d THEN NoDeployment ELSE lock

-----------------------------------------------------------------------------

\* The files are read, and the table is made if there is none.
Start(d, release) ==
  /\ work[d] = Idle
  /\ Advance(d, [Idle EXCEPT !.stage = "waiting", !.files = release, !.todo = DOMAIN release])
  /\ UNCHANGED <<legacy, tracked, lock, times, marked, completed>>

Lock(d) ==
  /\ work[d].stage = "waiting"
  /\ lock = NoDeployment
  /\ lock' = d
  /\ Advance(d, [work[d] EXCEPT !.stage = "locked"])
  /\ UNCHANGED <<legacy, tracked, times, marked, completed>>

\* What is tracked; nothing, and all the sentinel tables, means a database
\* from before.
ReadTracked(d) ==
  LET before == tracked = <<>> /\ legacy = "all" /\ DOMAIN work[d].files # {} IN
  /\ work[d].stage = "locked"
  /\ Advance(d, [work[d] EXCEPT !.known = tracked,
                                !.stage = IF before THEN "marking" ELSE "migrating"])
  /\ UNCHANGED <<legacy, tracked, lock, times, marked, completed>>

\* Every file is tracked, in one transaction; it fails if another deployment
\* tracks one of them.
MarkAll(d) ==
  LET files == work[d].files IN
  /\ work[d].stage = "marking"
  /\ IF DOMAIN files \cap DOMAIN tracked = {}
     THEN /\ tracked' = With(tracked, files)
          /\ marked' = marked \cup DOMAIN files
          /\ Advance(d, [work[d] EXCEPT !.known = With(@, files), !.stage = "migrating"])
          /\ UNCHANGED lock
     ELSE Leave(d) /\ UNCHANGED <<tracked, marked>>
  /\ UNCHANGED <<legacy, times, completed>>

\* The file whose turn it is.
IsNext(d, f) ==
  /\ work[d].stage = "migrating" /\ f \in work[d].todo
  /\ \A g \in work[d].todo : f <= g

\* A file that is known is skipped, or stops the run if it was rewritten.
SkipFile(d, f) ==
  /\ IsNext(d, f)
  /\ f \in DOMAIN work[d].known
  /\ IF work[d].known[f] = work[d].files[f]
     THEN Advance(d, [work[d] EXCEPT !.todo = @ \ {f}]) /\ UNCHANGED lock
     ELSE Leave(d)
  /\ UNCHANGED <<legacy, tracked, times, marked, completed>>

\* Mutant: the row is written after the transaction, if it is not there.
RunFileThenTrack(d, f) ==
  /\ IsNext(d, f)
  /\ f \notin DOMAIN work[d].known
  /\ times' = [times EXCEPT ![f] = @ + 1]
  /\ tracked' = IF f \in DOMAIN tracked THEN tracked ELSE With(tracked, [g \in {f} |-> work[d].files[f]])
  /\ Advance(d, [work[d] EXCEPT !.todo = @ \ {f}])
  /\ UNCHANGED <<legacy, lock, marked, completed>>

\* The others are run and tracked together: a row that is there by now is a
\* conflict and takes the file's effect back.
RunFile(d, f) ==
  /\ IsNext(d, f)
  /\ f \notin DOMAIN work[d].known
  /\ IF f \notin DOMAIN tracked
     THEN /\ times' = [times EXCEPT ![f] = @ + 1]
          /\ tracked' = With(tracked, [g \in {f} |-> work[d].files[f]])
          /\ Advance(d, [work[d] EXCEPT !.todo = @ \ {f}])
          /\ UNCHANGED lock
     ELSE Leave(d) /\ UNCHANGED <<times, tracked>>
  /\ UNCHANGED <<legacy, marked, completed>>

Finish(d) ==
  /\ work[d].stage = "migrating" /\ work[d].todo = {}
  /\ completed' = completed \cup {work[d].files}
  /\ Leave(d)
  /\ UNCHANGED <<legacy, tracked, times, marked>>

\* A statement fails or the process dies; what it had open is rolled back.
Abort(d) ==
  /\ work[d] # Idle
  /\ Leave(d)
  /\ UNCHANGED <<legacy, tracked, times, marked, completed>>

LoseLock ==
  /\ lock # NoDeployment
  /\ lock' = NoDeployment
  /\ UNCHANGED <<legacy, tracked, work, times, marked, completed>>

Next ==
  \/ \E d \in Deployments :
       \/ \E release \in Releases : Start(d, release)
       \/ \E f \in Files : SkipFile(d, f) \/ RunFile(d, f)
       \/ Lock(d) \/ ReadTracked(d) \/ MarkAll(d) \/ Finish(d) \/ Abort(d)
  \/ LoseLock

Spec == Init /\ [][Next]_vars

-----------------------------------------------------------------------------

\* A file takes effect once, and exactly if it is tracked and was not marked:
\* also when deployments overlap or die between two files.
FilesApplyOnce ==
  \A f \in Files :
    /\ times[f] <= 1
    /\ f \in DOMAIN tracked <=> times[f] = 1 \/ f \in marked
    /\ f \in marked => times[f] = 0

\* A release that was reported as migrated is in the database, every file of
\* it as that release has it: also when another release was migrated meanwhile.
CompletedReleasesApplied ==
  \A r \in completed : \A f \in DOMAIN r : f \in DOMAIN tracked /\ tracked[f] = r[f]

SchemaFollowsReleases == FilesApplyOnce /\ CompletedReleasesApplied
=============================================================================
