----------------------------- MODULE CatalogSync -----------------------------
(***************************************************************************)
(* The weekly copy of Regiondo's catalog: products, their variations and   *)
(* the options of these.  A run lists the products page by page, reads the *)
(* details of each and the options of every variation with many requests   *)
(* at once, of which any may fail, and replaces what it read in a single   *)
(* transaction.  A variation has one row, whichever product it is of.      *)
(* There is one run at a time, behind an advisory lock.                    *)
(***************************************************************************)
EXTENDS Naturals, FiniteSets

CONSTANTS
  Products,     \* Regiondo's ids of products, which are ordered
  Variants, Options,
  NoProduct,
  PageSize,     \* REGIONDO_CATALOG_PAGE_SIZE
  MaxChanges    \* bound: changes of the catalog at Regiondo

CatalogSyncAssumption ==
  /\ Products \subseteq Nat /\ IsFiniteSet(Products) /\ NoProduct \notin Products
  /\ PageSize \in Nat \ {0} /\ MaxChanges \in Nat

VARIABLES
  catalog,  \* Regiondo: [shown, sold, offers]
  changes,  \* changes so far
  stored,   \* the tables: [products, variant, options]
  legacy,   \* a row of products with a malformed id: "none", "free" or "booked"
  sync,     \* the run there is, see Start
  fresh     \* history: products stored as a run that nothing disturbed read them

vars == <<catalog, changes, stored, legacy, sync, fresh>>

NoRows == [products |-> {}, variant |-> [v \in Variants |-> NoProduct], options |-> {}]

\* draft is what the open transaction has of the tables.
Idle == [stage |-> "idle", offset |-> 0, listed |-> {}, todo |-> {}, variants |-> {},
         asking |-> {}, options |-> {}, incomplete |-> {}, draft |-> NoRows, disturbed |-> FALSE]

Offer == Variants \X Options

TypeOK ==
  /\ catalog.shown \subseteq Products
  /\ catalog.sold \in [Variants -> Products \cup {NoProduct}] /\ catalog.offers \subseteq Offer
  /\ stored.products \subseteq Products
  /\ stored.variant \in [Variants -> stored.products \cup {NoProduct}]
  /\ stored.options \subseteq Products \X Offer
  /\ sync.variants \subseteq Products \X Variants /\ sync.options \subseteq Products \X Offer
  /\ fresh \subseteq Products

Init ==
  /\ catalog \in [shown : SUBSET Products, sold : [Variants -> Products], offers : {Offer}]
  /\ changes = 0
  /\ stored = NoRows
  /\ legacy \in {"none", "free", "booked"}
  /\ sync = Idle /\ fresh = {}

-----------------------------------------------------------------------------

\* At Regiondo a product comes or goes, a variation is moved or withdrawn, an
\* option comes or goes.
ChangeCatalog ==
  /\ changes < MaxChanges
  /\ changes' = changes + 1
  /\ \/ \E p \in Products :
          catalog' = [catalog EXCEPT !.shown = IF p \in @ THEN @ \ {p} ELSE @ \cup {p}]
     \/ \E v \in Variants, p \in (Products \cup {NoProduct}) :
          p # catalog.sold[v] /\ catalog' = [catalog EXCEPT !.sold[v] = p]
     \/ \E o \in Offer :
          catalog' = [catalog EXCEPT !.offers = IF o \in @ THEN @ \ {o} ELSE @ \cup {o}]
  /\ fresh' = {}
  /\ sync' = [sync EXCEPT !.disturbed = sync # Idle]
  /\ UNCHANGED <<stored, legacy>>

\* runRegiondoCatalogSyncJob
Start ==
  /\ sync = Idle
  /\ sync' = [Idle EXCEPT !.stage = "listing"]
  /\ UNCHANGED <<catalog, changes, stored, legacy, fresh>>

\* getCatalogProducts: pages until one is the last, or short.
ListPage ==
  LET page == {p \in catalog.shown :
                 Cardinality({q \in catalog.shown : q < p}) \in sync.offset..(sync.offset + PageSize - 1)}
      last == Cardinality(catalog.shown) <= sync.offset + PageSize IN
  /\ sync.stage = "listing"
  /\ sync' = [sync EXCEPT !.listed = @ \cup page, !.todo = @ \cup page, !.offset = @ + PageSize,
                          !.stage = IF last THEN "reading" ELSE "listing"]
  /\ UNCHANGED <<catalog, changes, stored, legacy, fresh>>

\* getProductDetail of one of them: its variations; or an error, and the run
\* goes on without the product.
ReadDetail(p) ==
  LET found == {v \in Variants : catalog.sold[v] = p} IN
  /\ sync.stage = "reading" /\ p \in sync.todo
  /\ \/ sync' = [sync EXCEPT !.todo = @ \ {p}, !.variants = @ \cup ({p} \X found),
                             !.asking = @ \cup ({p} \X found)]
     \/ sync' = [sync EXCEPT !.todo = @ \ {p}, !.listed = @ \ {p}]
  /\ UNCHANGED <<catalog, changes, stored, legacy, fresh>>

\* enrichVariationOptions: what the detail, the variation and its next slots
\* offer; requests that fail are counted, and leave out what only they tell.
ReadOptions(p, v) ==
  LET offers == {o \in catalog.offers : o[1] = v} IN
  /\ sync.stage = "reading" /\ <<p, v>> \in sync.asking
  /\ \E told \in SUBSET offers :
       sync' = [sync EXCEPT !.asking = @ \ {<<p, v>>}, !.options = @ \cup ({p} \X told),
                            !.incomplete = IF told = offers THEN @ ELSE @ \cup {p}]
  /\ UNCHANGED <<catalog, changes, stored, legacy, fresh>>

\* Mutant: the row of a variation that is there is kept as it is.
UpsertedDoNothing(tables, p, variants, options) ==
  LET kept == [v \in Variants |-> IF tables.variant[v] = p THEN NoProduct ELSE tables.variant[v]] IN
  [products |-> tables.products \cup {p},
   variant  |-> [v \in Variants |-> IF v \in variants /\ kept[v] = NoProduct THEN p ELSE kept[v]],
   options  |-> {o \in tables.options : o[1] # p /\ kept[o[2][1]] # NoProduct} \cup options]

\* upsertRegiondoCatalogProduct.  The options of p and its variations are
\* deleted, the latter with all options of theirs; then variations are inserted,
\* or taken from another product, and options.
Upserted(tables, p, variants, options) ==
  LET kept == [v \in Variants |-> IF tables.variant[v] = p THEN NoProduct ELSE tables.variant[v]] IN
  [products |-> tables.products \cup {p},
   variant  |-> [v \in Variants |-> IF v \in variants THEN p ELSE kept[v]],
   options  |-> {o \in tables.options : o[1] # p /\ kept[o[2][1]] # NoProduct} \cup options]

\* syncRegiondoCatalogProducts: malformed rows are deleted, or stop the run
\* when a booking has them; then the products are put one after the other.
BeginStore ==
  /\ sync.stage = "reading" /\ sync.todo = {} /\ sync.asking = {}
  /\ legacy # "booked"
  /\ sync' = [sync EXCEPT !.stage = "storing", !.todo = sync.listed, !.draft = stored]
  /\ UNCHANGED <<catalog, changes, stored, legacy, fresh>>

StoreProduct(p) ==
  /\ sync.stage = "storing" /\ p \in sync.todo
  /\ \A q \in sync.todo : p <= q
  /\ sync' = [sync EXCEPT !.todo = @ \ {p},
                          !.draft = Upserted(@, p, {v \in Variants : <<p, v>> \in sync.variants},
                                             {o \in sync.options : o[1] = p})]
  /\ UNCHANGED <<catalog, changes, stored, legacy, fresh>>

Commit ==
  /\ sync.stage = "storing" /\ sync.todo = {}
  /\ stored' = sync.draft /\ legacy' = "none"
  /\ fresh' = IF sync.disturbed THEN {} ELSE sync.listed \ sync.incomplete
  /\ sync' = Idle
  /\ UNCHANGED <<catalog, changes>>

\* The list cannot be read or does not parse, a malformed row has a booking,
\* the transaction fails, or the process dies.
AbortRun ==
  /\ sync # Idle
  /\ sync' = Idle
  /\ UNCHANGED <<catalog, changes, stored, legacy, fresh>>

Next ==
  \/ ChangeCatalog \/ Start \/ ListPage \/ BeginStore \/ Commit \/ AbortRun
  \/ \E p \in Products : ReadDetail(p) \/ StoreProduct(p) \/ \E v \in Variants : ReadOptions(p, v)

Spec == Init /\ [][Next]_vars

-----------------------------------------------------------------------------

\* A product that Regiondo answered for in full is stored with the variations
\* and options it has there, whatever failed for the others, and whatever the
\* runs before left of variations that moved between products.
CatalogMirrored ==
  \A p \in fresh :
    /\ \A v \in Variants : stored.variant[v] = p <=> catalog.sold[v] = p
    /\ {o[2] : o \in {s \in stored.options : s[1] = p}} = {o \in catalog.offers : catalog.sold[o[1]] = p}
=============================================================================
