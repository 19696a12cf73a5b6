---------------------------- MODULE MCUnattended ----------------------------
(* What runs without a user: the inbox of Regiondo's webhooks, the weekly    *)
(* copy of its catalog, the dates it sends, and the migrations before a      *)
(* start.  They share no state, so a behaviour is one of one of them.        *)
EXTENDS MCInbox

CONSTANTS
  Products, Variants, Options, NoProduct, PageSize, MaxChanges,
  Winter, Summer, ToSummer, ToWinter, Times, Unread, NoDate,
  Deployments, NoDeployment, Files, Checksums, Releases

VARIABLES
  part,
  catalog, changes, copied, legacy, sync, fresh,
  text, date, given,
  before, tracked, mutex, work, times, marked, completed

MCTimes == 0..30
MCFiles == 1..3

\* A release, the one after it, and one in which its second file is rewritten.
MCReleases == {<<"a", "a">>, <<"a", "a", "a">>, <<"a", "b">>}

Catalog == INSTANCE CatalogSync WITH stored <- copied
Dates == INSTANCE RegiondoDateTime
Schema == INSTANCE Migrations WITH legacy <- before, lock <- mutex

\* What the parts assume of their constants.
ASSUME PartsAssumption ==
  Catalog!CatalogSyncAssumption /\ Dates!DateTimeAssumption /\ Schema!MigrationsAssumption

catalogVars == <<catalog, changes, copied, legacy, sync, fresh>>
dateVars == <<text, date, given>>
schemaVars == <<before, tracked, mutex, work, times, marked, completed>>

\* A malformed row of the catalog and the place of its variations are not
\* varied together.
MCInit ==
  /\ part \in {"inbox", "importers", "catalog", "dates", "schema"}
  /\ Init /\ Catalog!Init /\ Dates!Init /\ Schema!Init
  /\ part # "catalog" => catalog.shown = {} /\ legacy = "none"
  /\ part # "catalog" \/ legacy # "none" => \A v \in Variants : catalog.sold[v] = 1
  /\ part # "dates" => text = Dates!Naive(0)
  /\ part # "schema" => before = "none"

\* The inbox with faults and lost locks, or next to an importer under another lock.
InboxPart ==
  /\ part \in {"inbox", "importers"}
  /\ Next
  /\ IF part = "inbox" THEN UNCHANGED elsewhere ELSE UNCHANGED <<retried, faults, lockLosses>>
  /\ UNCHANGED <<part, catalogVars, dateVars, schemaVars>>

CatalogPart == part = "catalog" /\ Catalog!Next /\ UNCHANGED <<part, vars, dateVars, schemaVars>>

DatePart == part = "dates" /\ Dates!Next /\ UNCHANGED <<part, vars, catalogVars, schemaVars>>

SchemaPart == part = "schema" /\ Schema!Next /\ UNCHANGED <<part, vars, catalogVars, dateVars>>

MCNext == InboxPart \/ CatalogPart \/ DatePart \/ SchemaPart

MCSpec == MCInit /\ [][MCNext]_<<part, vars, catalogVars, dateVars, schemaVars>>

CatalogMirrored == Catalog!CatalogMirrored
DatesKeepTheirClock == Dates!DatesKeepTheirClock
SchemaFollowsReleases == Schema!SchemaFollowsReleases
=============================================================================
