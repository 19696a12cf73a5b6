-------------------------- MODULE UnattendedProofs --------------------------
(***************************************************************************)
(* What the run without a user checks of the catalog, the dates and the    *)
(* migrations, for any number of products, deployments and releases, and   *)
(* for all dates; and that the run has these parts and the inbox, whose    *)
(* proofs are in a module of their own.                                    *)
(***************************************************************************)
EXTENDS MCUnattended, RegiondoWebhookInboxProofs, FiniteSetTheorems

-----------------------------------------------------------------------------
(* The dates: to and fro between Regiondo and the database.                    *)

LEMMA DatesSpec == Dates!Spec => Dates!Init /\ [][Dates!Next]_dateVars
BY DEF Dates!Spec, Dates!vars, dateVars

\* An instant is among those that read as it does.
LEMMA ReadsLikeItself ==
  ASSUME Dates!DateTimeAssumption, NEW t \in Int
  PROVE  Dates!Clock(t) \in Int /\ t \in Dates!Instants(Dates!Clock(t))
BY DEF Dates!DateTimeAssumption, Dates!Clock, Dates!Offset, Dates!Instants

\* One correction is enough: where a wall clock has an instant, one is found.
LEMMA ParseFinds ==
  ASSUME Dates!DateTimeAssumption, NEW clock \in Int, Dates!Instants(clock) # {}
  PROVE  Dates!parseRegiondoDateTime(Dates!Naive(clock)) \in Dates!Instants(clock)
<1> DEFINE candidate == clock - Dates!Offset(clock - Dates!Offset(clock))
<1>1. PICK t \in {clock - Winter, clock - Summer} : Dates!Clock(t) = clock
  BY DEF Dates!Instants
<1>2. candidate \in {clock - Winter, clock - Summer}
  BY DEF Dates!Offset
<1>3. Dates!Clock(candidate) = clock
  BY <1>1 DEF Dates!DateTimeAssumption, Dates!Clock, Dates!Offset
<1>4. Dates!parseRegiondoDateTime(Dates!Naive(clock)) = candidate
  BY <1>3 DEF Dates!parseRegiondoDateTime, Dates!Naive
<1> QED
  BY <1>2, <1>3, <1>4 DEF Dates!Instants

\* Where it has none, the text is refused.
LEMMA ParseRefuses ==
  ASSUME Dates!DateTimeAssumption, NEW clock \in Int, Dates!Instants(clock) = {}
  PROVE  Dates!parseRegiondoDateTime(Dates!Naive(clock)) = NoDate
<1> DEFINE candidate == clock - Dates!Offset(clock - Dates!Offset(clock))
<1>1. candidate \in {clock - Winter, clock - Summer}
  BY DEF Dates!Offset
<1>2. Dates!Clock(candidate) # clock
  BY <1>1 DEF Dates!Instants
<1> QED
  BY <1>2 DEF Dates!parseRegiondoDateTime, Dates!Naive

DateText == [zoned : BOOLEAN, proper : BOOLEAN, at : Int]

DateKept ==
  IF given.zoned
  THEN Dates!Instants(Dates!Clock(given.at)) = {given.at} =>
         date \in {Unread, given.at} /\ text \in {given, Dates!Naive(Dates!Clock(given.at))}
  ELSE /\ text = given
       /\ date \in {Unread} \cup (IF given.proper /\ Dates!Instants(given.at) # {}
                                  THEN Dates!Instants(given.at) ELSE {NoDate})

DateInv == given \in Dates!Texts /\ text \in DateText /\ date \in Int \cup {Unread, NoDate} /\ DateKept

\* A naive text is its wall clock, whatever it is given as.
LEMMA NaiveTexts ==
  ASSUME Dates!DateTimeAssumption, NEW x \in DateText, ~x.zoned
  PROVE  /\ x.proper => x = Dates!Naive(x.at)
         /\ ~x.proper => Dates!parseRegiondoDateTime(x) = NoDate
BY DEF DateText, Dates!Naive, Dates!parseRegiondoDateTime

LEMMA ParseKeeps ==
  ASSUME Dates!DateTimeAssumption, DateInv, Dates!Parse PROVE DateInv'
<1>1. given \in DateText /\ text \in DateText /\ given' = given /\ text' = text /\ date' = Dates!parseRegiondoDateTime(text)
  BY DEF DateInv, Dates!Parse, Dates!Texts, DateText, Dates!DateTimeAssumption
<1>2. Dates!parseRegiondoDateTime(text) \in Int \cup {Unread, NoDate}
  BY <1>1 DEF DateText, Dates!parseRegiondoDateTime, Dates!Offset, Dates!DateTimeAssumption
<1>3. CASE given.zoned
  <2>1. SUFFICES ASSUME Dates!Instants(Dates!Clock(given.at)) = {given.at}
                 PROVE  Dates!parseRegiondoDateTime(text) = given.at
    BY <1>1, <1>2, <1>3 DEF DateInv, DateKept
  <2>2. CASE text = given
    BY <1>3, <2>2 DEF Dates!parseRegiondoDateTime
  <2>3. CASE text = Dates!Naive(Dates!Clock(given.at))
    <3>1. given.at \in Int /\ Dates!Clock(given.at) \in Int
      BY <1>1, ReadsLikeItself DEF DateText
    <3>2. Dates!parseRegiondoDateTime(text) \in {given.at}
      BY <2>1, <2>3, <3>1, ParseFinds
    <3> QED
      BY <3>2
  <2> QED
    BY <1>3, <2>1, <2>2, <2>3 DEF DateInv, DateKept
<1>4. CASE ~given.zoned
  <2>1. text = given /\ given.at \in Int
    BY <1>1, <1>4 DEF DateInv, DateKept, DateText
  <2>2. CASE given.proper /\ Dates!Instants(given.at) # {}
    <3>1. Dates!parseRegiondoDateTime(text) \in Dates!Instants(given.at)
      BY <1>1, <1>4, <2>1, <2>2, NaiveTexts, ParseFinds
    <3> QED
      BY <1>1, <1>2, <1>4, <2>1, <2>2, <3>1 DEF DateInv, DateKept
  <2>3. CASE ~(given.proper /\ Dates!Instants(given.at) # {})
    <3>1. Dates!parseRegiondoDateTime(text) = NoDate
      BY <1>1, <1>4, <2>1, <2>3, NaiveTexts, ParseRefuses
    <3> QED
      BY <1>1, <1>2, <1>4, <2>1, <2>3, <3>1 DEF DateInv, DateKept
  <2> QED
    BY <2>2, <2>3
<1> QED
  BY <1>3, <1>4

LEMMA FormatKeeps ==
  ASSUME Dates!DateTimeAssumption, DateInv, Dates!Format PROVE DateInv'
<1>1. /\ date \in Int
      /\ given' = given /\ date' = Unread /\ text' = Dates!Naive(Dates!Clock(date))
  BY DEF DateInv, Dates!Format, Dates!formatRegiondoDateTime
<1>2. Dates!Clock(date) \in Int
  BY <1>1, ReadsLikeItself
<1>3. text' \in DateText
  BY <1>1, <1>2 DEF DateText, Dates!Naive
<1>4. date \notin {Unread, NoDate}
  BY <1>1 DEF Dates!DateTimeAssumption
<1>5. CASE given.zoned
  BY <1>1, <1>3, <1>4, <1>5 DEF DateInv, DateKept
<1>6. CASE ~given.zoned
  <2>1. given.proper /\ date \in Dates!Instants(given.at) /\ given \in DateText /\ text = given
    BY <1>4, <1>6 DEF DateInv, DateKept, DateText
  <2>2. Dates!Clock(date) = given.at
    BY <2>1 DEF Dates!Instants
  <2>3. Dates!Naive(Dates!Clock(date)) = given
    BY <1>6, <2>1, <2>2, NaiveTexts
  <2> QED
    BY <1>1, <1>3, <1>6, <2>1, <2>3 DEF DateInv, DateKept
<1> QED
  BY <1>5, <1>6

\* Dates go to and fro without a change, and what Berlin never showed is refused.
THEOREM DatesKept == Dates!Spec => []DatesKeepTheirClock
<1>0. Dates!DateTimeAssumption
  BY PartsAssumption
<1>1. \A x \in Dates!Texts : x \in DateText
  BY <1>0 DEF Dates!Texts, DateText, Dates!DateTimeAssumption
<1>2. Dates!Init => DateInv
  BY <1>1 DEF Dates!Init, DateInv, DateKept
<1>3. DateInv /\ [Dates!Next]_dateVars => DateInv'
  <2> SUFFICES ASSUME DateInv, [Dates!Next]_dateVars PROVE DateInv'
    OBVIOUS
  <2>1. CASE Dates!Receive
    BY <1>1, <2>1 DEF Dates!Receive, DateInv, DateKept
  <2>2. CASE Dates!Parse
    BY <1>0, <2>2, ParseKeeps
  <2>3. CASE Dates!Format
    BY <1>0, <2>3, FormatKeeps
  <2>4. CASE UNCHANGED dateVars
    BY <2>4 DEF dateVars, DateInv, DateKept
  <2> QED
    BY <2>1, <2>2, <2>3, <2>4 DEF Dates!Next
<1>4. DateInv => DatesKeepTheirClock
  BY DEF DateInv, DateKept, DatesKeepTheirClock, Dates!DatesKeepTheirClock
<1> QED
  BY <1>2, <1>3, <1>4, DatesSpec, PTL

-----------------------------------------------------------------------------
(* The migrations: a deployment.  The proof never looks at the advisory lock:  *)
(* that a file and its row are one transaction, and that names are unique, is  *)
(* enough.                                                                     *)

LEMMA SchemaSpec == Schema!Spec => Schema!Init /\ [][Schema!Next]_schemaVars
BY DEF Schema!Spec, Schema!vars, schemaVars

\* Of a table: what a deployment knows is tracked, and what it is through with
\* is tracked as its release has it.
Applied(w, table) ==
  /\ DOMAIN w = DOMAIN Schema!Idle
  /\ w.stage \in Schema!Stages
  /\ \A f \in DOMAIN w.known : f \in DOMAIN table /\ table[f] = w.known[f]
  /\ w.stage # "idle" => w.files \in Releases
  /\ w.todo \subseteq DOMAIN w.files
  /\ w.stage \in {"waiting", "locked", "marking"} => w.todo = DOMAIN w.files
  /\ w.stage = "migrating" =>
       \A f \in DOMAIN w.files \ w.todo : f \in DOMAIN table /\ table[f] = w.files[f]

SchemaInv ==
  /\ times \in [Files -> Nat] /\ marked \subseteq Files /\ completed \subseteq Releases
  /\ DOMAIN work = Deployments /\ \A d \in Deployments : Applied(work[d], tracked)
  /\ Schema!SchemaFollowsReleases

\* Rows are added and never changed.
Grows == \A f \in DOMAIN tracked : f \in DOMAIN tracked' /\ tracked'[f] = tracked[f]

\* A step of one deployment.
LEMMA StepKeepsApplied ==
  ASSUME SchemaInv, NEW d \in Deployments, NEW w, Schema!Advance(d, w), Grows, Applied(w, tracked')
  PROVE  DOMAIN work' = Deployments /\ \A e \in Deployments : Applied(work'[e], tracked')
<1>1. DOMAIN work' = Deployments /\ work'[d] = w
  BY DEF SchemaInv, Schema!Advance
<1>2. ASSUME NEW e \in Deployments, e # d PROVE Applied(work'[e], tracked')
  <2>1. work'[e] = work[e]
    BY <1>2 DEF SchemaInv, Schema!Advance
  <2>2. Applied(work[e], tracked)
    BY DEF SchemaInv
  <2> QED
    BY <2>1, <2>2 DEF Applied, Grows
<1>3. Applied(work'[d], tracked')
  BY <1>1 DEF Applied
<1> QED
  BY <1>1, <1>2, <1>3

LEMMA IdleIsApplied == Applied(Schema!Idle, tracked) /\ Applied(Schema!Idle, tracked')
BY DEF Applied, Schema!Idle, Schema!Stages

\* What is said of the schema, when the table and the files' effects stay.
LEMMA SchemaStays ==
  ASSUME SchemaInv, UNCHANGED <<tracked, times, marked>>, completed' = completed
  PROVE  Schema!SchemaFollowsReleases'
BY DEF SchemaInv, Schema!SchemaFollowsReleases, Schema!FilesApplyOnce, Schema!CompletedReleasesApplied

LEMMA CompletedStay ==
  ASSUME SchemaInv, Grows, completed' = completed PROVE Schema!CompletedReleasesApplied'
BY DEF SchemaInv, Schema!SchemaFollowsReleases, Schema!CompletedReleasesApplied, Grows

\* Steps that leave the table alone.
LEMMA QuietStep ==
  ASSUME SchemaInv, NEW d \in Deployments, NEW w, Schema!Advance(d, w), Applied(w, tracked),
         UNCHANGED <<tracked, times, marked, completed>>
  PROVE  SchemaInv'
<1>1. Grows
  BY DEF Grows
<1>2. Applied(w, tracked')
  BY <1>1 DEF Applied
<1>3. DOMAIN work' = Deployments /\ \A e \in Deployments : Applied(work'[e], tracked')
  BY <1>1, <1>2, StepKeepsApplied
<1>4. Schema!SchemaFollowsReleases'
  BY SchemaStays
<1> QED
  BY <1>3, <1>4 DEF SchemaInv

LEMMA MarkAllKeeps ==
  ASSUME Schema!MigrationsAssumption, SchemaInv, NEW d \in Deployments, Schema!MarkAll(d) PROVE SchemaInv'
<1> DEFINE files == work[d].files
<1>1. Applied(work[d], tracked) /\ files \in Releases /\ DOMAIN files \subseteq Files
  BY DEF SchemaInv, Schema!MarkAll, Applied, Schema!MigrationsAssumption
<1>2. CASE DOMAIN files \cap DOMAIN tracked = {}
  <2> DEFINE w == [work[d] EXCEPT !.known = Schema!With(@, files), !.stage = "migrating"]
  <2>1. tracked' = Schema!With(tracked, files) /\ marked' = marked \cup DOMAIN files /\ Schema!Advance(d, w)
        /\ times' = times /\ completed' = completed
    BY <1>2 DEF Schema!MarkAll
  <2>2. /\ DOMAIN tracked' = DOMAIN tracked \cup DOMAIN files
        /\ \A f \in DOMAIN tracked : tracked'[f] = tracked[f]
        /\ \A f \in DOMAIN files : tracked'[f] = files[f]
    BY <1>2, <2>1 DEF Schema!With
  <2>3. Grows
    BY <2>2 DEF Grows
  <2>4. DOMAIN work[d].known \cap DOMAIN files = {}
    BY <1>1, <1>2 DEF Applied
  <2>5. /\ DOMAIN Schema!With(work[d].known, files) = DOMAIN work[d].known \cup DOMAIN files
        /\ \A f \in DOMAIN work[d].known : Schema!With(work[d].known, files)[f] = work[d].known[f]
        /\ \A f \in DOMAIN files : Schema!With(work[d].known, files)[f] = files[f]
    BY <2>4 DEF Schema!With
  <2>6. /\ DOMAIN w = DOMAIN Schema!Idle /\ w.stage = "migrating" /\ w.files = files
        /\ w.todo = work[d].todo /\ w.known = Schema!With(work[d].known, files)
    BY <1>1 DEF Applied, Schema!Idle
  <2>7. Applied(w, tracked')
    <3>1. \A f \in DOMAIN w.known : f \in DOMAIN tracked' /\ tracked'[f] = w.known[f]
      BY <1>1, <2>2, <2>5, <2>6 DEF Applied
    <3>2. \A f \in DOMAIN w.files \ w.todo : f \in DOMAIN tracked' /\ tracked'[f] = w.files[f]
      BY <2>2, <2>6
    <3> HIDE DEF w
    <3> QED
      BY <1>1, <2>6, <3>1, <3>2 DEF Applied, Schema!Stages
  <2>8. DOMAIN work' = Deployments /\ \A e \in Deployments : Applied(work'[e], tracked')
    BY <2>1, <2>3, <2>7, StepKeepsApplied
  <2>9. Schema!FilesApplyOnce'
    BY <1>1, <1>2, <2>1, <2>2 DEF SchemaInv, Schema!SchemaFollowsReleases, Schema!FilesApplyOnce
  <2>10. Schema!CompletedReleasesApplied'
    BY <2>1, <2>3, CompletedStay
  <2> QED
    BY <1>1, <2>1, <2>8, <2>9, <2>10 DEF SchemaInv, Schema!SchemaFollowsReleases
<1>3. CASE DOMAIN files \cap DOMAIN tracked # {}
  BY <1>3, IdleIsApplied, QuietStep DEF Schema!MarkAll, Schema!Leave
<1> QED
  BY <1>2, <1>3

LEMMA RunFileKeeps ==
  ASSUME Schema!MigrationsAssumption, SchemaInv, NEW d \in Deployments, NEW f \in Files, Schema!RunFile(d, f)
  PROVE  SchemaInv'
<1>1. Applied(work[d], tracked) /\ work[d].files \in Releases /\ DOMAIN work[d].files \subseteq Files
      /\ work[d].stage = "migrating"
  BY DEF SchemaInv, Schema!RunFile, Schema!IsNext, Applied, Schema!MigrationsAssumption
<1>2. f \in work[d].todo /\ f \in DOMAIN work[d].files
  BY <1>1 DEF Schema!RunFile, Schema!IsNext, Applied
<1>3. CASE f \notin DOMAIN tracked
  <2> DEFINE row == [g \in {f} |-> work[d].files[f]]
             w == [work[d] EXCEPT !.todo = @ \ {f}]
  <2>1. tracked' = Schema!With(tracked, row) /\ times' = [times EXCEPT ![f] = @ + 1] /\ Schema!Advance(d, w)
        /\ marked' = marked /\ completed' = completed
    BY <1>3 DEF Schema!RunFile
  <2>2. /\ DOMAIN tracked' = DOMAIN tracked \cup {f}
        /\ \A g \in DOMAIN tracked : tracked'[g] = tracked[g]
        /\ tracked'[f] = work[d].files[f]
    BY <1>3, <2>1 DEF Schema!With
  <2>3. Grows
    BY <2>2 DEF Grows
  <2>4. /\ DOMAIN w = DOMAIN Schema!Idle /\ w.stage = "migrating" /\ w.files = work[d].files
        /\ w.todo = work[d].todo \ {f} /\ w.known = work[d].known
    BY <1>1 DEF Applied, Schema!Idle
  <2>5. Applied(w, tracked')
    <3> HIDE DEF w
    <3> QED
      BY <1>1, <1>2, <2>2, <2>4 DEF Applied, Schema!Stages
  <2>6. DOMAIN work' = Deployments /\ \A e \in Deployments : Applied(work'[e], tracked')
    BY <2>1, <2>3, <2>5, StepKeepsApplied
  <2>7. Schema!FilesApplyOnce'
    BY <1>2, <1>3, <2>1, <2>2 DEF SchemaInv, Schema!SchemaFollowsReleases, Schema!FilesApplyOnce
  <2>8. Schema!CompletedReleasesApplied'
    BY <2>1, <2>3, CompletedStay
  <2> QED
    BY <1>2, <2>1, <2>6, <2>7, <2>8 DEF SchemaInv, Schema!SchemaFollowsReleases
<1>4. CASE f \in DOMAIN tracked
  BY <1>4, IdleIsApplied, QuietStep DEF Schema!RunFile, Schema!Leave
<1> QED
  BY <1>3, <1>4

LEMMA SkipFileKeeps ==
  ASSUME Schema!MigrationsAssumption, SchemaInv, NEW d \in Deployments, NEW f \in Files, Schema!SkipFile(d, f)
  PROVE  SchemaInv'
<1> DEFINE w == [work[d] EXCEPT !.todo = @ \ {f}]
<1>1. Applied(work[d], tracked) /\ work[d].stage = "migrating" /\ f \in DOMAIN work[d].known
  BY DEF SchemaInv, Schema!SkipFile, Schema!IsNext
<1>2. CASE work[d].known[f] = work[d].files[f]
  <2>1. /\ DOMAIN w = DOMAIN Schema!Idle /\ w.stage = "migrating" /\ w.files = work[d].files
        /\ w.todo = work[d].todo \ {f} /\ w.known = work[d].known
    BY <1>1 DEF Applied, Schema!Idle
  <2>2. Applied(w, tracked)
    <3> HIDE DEF w
    <3> QED
      BY <1>1, <1>2, <2>1 DEF Applied, Schema!Stages
  <2> QED
    BY <1>2, <2>2, QuietStep DEF Schema!SkipFile
<1>3. CASE work[d].known[f] # work[d].files[f]
  BY <1>3, IdleIsApplied, QuietStep DEF Schema!SkipFile, Schema!Leave
<1> QED
  BY <1>2, <1>3

LEMMA FinishKeeps ==
  ASSUME SchemaInv, NEW d \in Deployments, Schema!Finish(d) PROVE SchemaInv'
<1>1. /\ Schema!Advance(d, Schema!Idle) /\ completed' = completed \cup {work[d].files}
      /\ UNCHANGED <<tracked, times, marked>>
  BY DEF Schema!Finish, Schema!Leave
<1>2. Applied(work[d], tracked) /\ work[d].stage = "migrating" /\ work[d].todo = {}
  BY DEF SchemaInv, Schema!Finish
<1>3. DOMAIN work' = Deployments /\ \A e \in Deployments : Applied(work'[e], tracked')
  BY <1>1, IdleIsApplied, StepKeepsApplied DEF Grows
<1>4. Schema!FilesApplyOnce'
  BY <1>1 DEF SchemaInv, Schema!SchemaFollowsReleases, Schema!FilesApplyOnce
<1>5. Schema!CompletedReleasesApplied'
  BY <1>1, <1>2 DEF SchemaInv, Schema!SchemaFollowsReleases, Schema!CompletedReleasesApplied, Applied
<1> QED
  BY <1>1, <1>2, <1>3, <1>4, <1>5 DEF SchemaInv, Schema!SchemaFollowsReleases, Applied

\* Deployments in any number, that overlap, die and lose their locks, apply
\* every file once, and say that a release is there only if it is.
THEOREM SchemaFollows == Schema!Spec => []SchemaFollowsReleases
<1>0. Schema!MigrationsAssumption
  BY PartsAssumption
<1>1. Schema!Init => SchemaInv
  BY IdleIsApplied DEF Schema!Init, SchemaInv, Schema!SchemaFollowsReleases, Schema!FilesApplyOnce,
                     Schema!CompletedReleasesApplied
<1>2. SchemaInv /\ [Schema!Next]_schemaVars => SchemaInv'
  <2> SUFFICES ASSUME SchemaInv, [Schema!Next]_schemaVars PROVE SchemaInv'
    OBVIOUS
  <2>1. ASSUME NEW d \in Deployments, NEW release \in Releases, Schema!Start(d, release) PROVE SchemaInv'
    <3> DEFINE w == [Schema!Idle EXCEPT !.stage = "waiting", !.files = release, !.todo = DOMAIN release]
    <3>1. Applied(w, tracked)
      BY DEF Applied, Schema!Idle, Schema!Stages
    <3> QED
      BY <2>1, <3>1, QuietStep DEF Schema!Start
  <2>2. ASSUME NEW d \in Deployments, Schema!Lock(d) PROVE SchemaInv'
    <3> DEFINE w == [work[d] EXCEPT !.stage = "locked"]
    <3>1. Applied(work[d], tracked) /\ work[d].stage = "waiting"
      BY <2>2 DEF SchemaInv, Schema!Lock
    <3>2. Applied(w, tracked)
      BY <3>1 DEF Applied, Schema!Idle, Schema!Stages
    <3> QED
      BY <2>2, <3>2, QuietStep DEF Schema!Lock
  <2>3. ASSUME NEW d \in Deployments, Schema!ReadTracked(d) PROVE SchemaInv'
    <3>1. Applied(work[d], tracked) /\ work[d].stage = "locked"
      BY <2>3 DEF SchemaInv, Schema!ReadTracked
    <3>2. PICK stage \in {"marking", "migrating"} :
            Schema!Advance(d, [work[d] EXCEPT !.known = tracked, !.stage = stage])
      BY <2>3 DEF Schema!ReadTracked
    <3>3. Applied([work[d] EXCEPT !.known = tracked, !.stage = stage], tracked)
      BY <3>1, <3>2 DEF Applied, Schema!Idle, Schema!Stages
    <3> QED
      BY <2>3, <3>2, <3>3, QuietStep DEF Schema!ReadTracked
  <2>4. ASSUME NEW d \in Deployments, Schema!Abort(d) PROVE SchemaInv'
    BY <2>4, IdleIsApplied, QuietStep DEF Schema!Abort, Schema!Leave
  <2>5. CASE Schema!LoseLock
    BY <2>5, SchemaStays DEF Schema!LoseLock, SchemaInv, Applied
  <2>6. CASE UNCHANGED schemaVars
    BY <2>6, SchemaStays DEF schemaVars, SchemaInv, Applied
  <2> QED
    BY <1>0, <2>1, <2>2, <2>3, <2>4, <2>5, <2>6, MarkAllKeeps, SkipFileKeeps, RunFileKeeps, FinishKeeps
       DEF Schema!Next
<1>3. SchemaInv => SchemaFollowsReleases
  BY DEF SchemaInv, SchemaFollowsReleases
<1> QED
  BY <1>1, <1>2, <1>3, SchemaSpec, PTL


-----------------------------------------------------------------------------
(* The catalog: a run, as long as nothing changes at Regiondo meanwhile.       *)

LEMMA CatalogSpec == Catalog!Spec => Catalog!Init /\ [][Catalog!Next]_catalogVars
BY DEF Catalog!Spec, Catalog!vars, catalogVars

CatalogShape ==
  /\ DOMAIN catalog = {"shown", "sold", "offers"}
  /\ catalog.shown \subseteq Products
  /\ catalog.sold \in [Variants -> Products \cup {NoProduct}] /\ catalog.offers \subseteq Catalog!Offer

\* The variations and the options that Regiondo has of its products.
Sold == {s \in Products \X Variants : catalog.sold[s[2]] = s[1]}
Offered == {s \in Products \X catalog.offers : catalog.sold[s[2][1]] = s[1]}

OptionsOf(options, p) == {s \in options : s[1] = p}

\* The products whose details the run has not read yet.
NotRead == IF sync.stage = "storing" THEN {} ELSE sync.todo

\* What the run has read so far is what Regiondo has: the variations of the
\* products, and of their options what was told, and no answer was lost for
\* those that are not counted as incomplete.
ReadTruly ==
  /\ sync.listed \subseteq Products /\ sync.todo \subseteq sync.listed
  /\ sync.variants = {s \in Sold : s[1] \in sync.listed \ NotRead}
  /\ sync.asking \subseteq sync.variants
  /\ sync.options \subseteq Offered
  /\ \A s \in Offered : s[1] \in sync.listed \ (NotRead \cup sync.incomplete) =>
       s \in sync.options \/ <<s[1], s[2][1]>> \in sync.asking

\* The transaction has of the products it has put what the run has read, and
\* nothing it puts later takes any of it away: a variation is of one product.
DraftTrue ==
  \A p \in sync.listed \ sync.todo :
    /\ \A v \in Variants : sync.draft.variant[v] = p <=> catalog.sold[v] = p
    /\ OptionsOf(sync.draft.options, p) = OptionsOf(sync.options, p)

Undisturbed ==
  /\ sync.stage \in {"listing", "reading", "storing"}
  /\ sync.stage = "listing" => sync.todo = sync.listed
  /\ sync.stage = "storing" => sync.asking = {} /\ DraftTrue
  /\ ReadTruly

CatalogInv ==
  /\ CatalogShape
  /\ DOMAIN sync = DOMAIN Catalog!Idle
  /\ sync.stage # "idle" => sync.disturbed \/ Undisturbed
  /\ sync.stage = "idle" => sync = Catalog!Idle
  /\ CatalogMirrored

\* At Regiondo nothing changes, nor in the tables.
QuietlyRead == UNCHANGED <<catalog, copied, fresh>>

LEMMA QuietlyReadKeeps ==
  ASSUME CatalogInv, QuietlyRead PROVE CatalogShape' /\ CatalogMirrored' /\ Sold' = Sold /\ Offered' = Offered
BY DEF CatalogInv, QuietlyRead, CatalogShape, CatalogMirrored, Catalog!CatalogMirrored, Sold, Offered,
       Catalog!Offer

LEMMA ListPageReads ==
  ASSUME CatalogInv, Undisturbed, Catalog!ListPage PROVE Undisturbed'
<1> DEFINE page == {p \in catalog.shown :
                      Catalog!Cardinality({q \in catalog.shown : q < p})
                        \in sync.offset..(sync.offset + PageSize - 1)}
<1>1. PICK stage \in {"reading", "listing"} :
        sync' = [sync EXCEPT !.listed = @ \cup page, !.todo = @ \cup page, !.offset = @ + PageSize,
                             !.stage = stage]
  BY DEF Catalog!ListPage
<1>2. QuietlyRead /\ sync.stage = "listing" /\ page \subseteq Products
  BY DEF Catalog!ListPage, QuietlyRead, CatalogInv, CatalogShape
<1> HIDE DEF page
<1>3. /\ sync'.listed = sync.listed \cup page /\ sync'.todo = sync.todo \cup page
      /\ sync'.stage = stage /\ sync'.variants = sync.variants /\ sync'.asking = sync.asking
      /\ sync'.options = sync.options /\ sync'.incomplete = sync.incomplete
  BY <1>1 DEF CatalogInv, Catalog!Idle
<1>4. sync.todo = sync.listed /\ ReadTruly /\ NotRead = sync.todo
  BY <1>2 DEF Undisturbed, NotRead
<1>5. sync'.todo = sync'.listed /\ NotRead' = sync'.todo
  BY <1>1, <1>3, <1>4 DEF NotRead
<1>6. Sold' = Sold /\ Offered' = Offered
  BY <1>2, QuietlyReadKeeps
<1>7. ReadTruly'
  BY <1>2, <1>3, <1>4, <1>5, <1>6 DEF ReadTruly
<1> QED
  BY <1>1, <1>3, <1>5, <1>7 DEF Undisturbed

LEMMA ReadDetailReads ==
  ASSUME CatalogInv, Undisturbed, NEW p \in Products, Catalog!ReadDetail(p) PROVE Undisturbed'
<1> DEFINE found == {v \in Variants : catalog.sold[v] = p}
<1>1. QuietlyRead /\ sync.stage = "reading" /\ p \in sync.todo
  BY DEF Catalog!ReadDetail, QuietlyRead
<1>2. Sold' = Sold /\ Offered' = Offered /\ catalog' = catalog
  BY <1>1, QuietlyReadKeeps DEF QuietlyRead
<1>3. ReadTruly /\ NotRead = sync.todo /\ DOMAIN sync = DOMAIN Catalog!Idle
  BY <1>1 DEF Undisturbed, NotRead, CatalogInv
<1>4. CASE sync' = [sync EXCEPT !.todo = @ \ {p}, !.variants = @ \cup ({p} \X found),
                                !.asking = @ \cup ({p} \X found)]
  <2> HIDE DEF found
  <2>1. /\ sync'.listed = sync.listed /\ sync'.todo = sync.todo \ {p}
        /\ sync'.stage = "reading" /\ sync'.variants = sync.variants \cup ({p} \X found)
        /\ sync'.asking = sync.asking \cup ({p} \X found)
        /\ sync'.options = sync.options /\ sync'.incomplete = sync.incomplete
    BY <1>1, <1>3, <1>4 DEF Catalog!Idle
  <2>2. NotRead' = sync.todo \ {p}
    BY <2>1 DEF NotRead
  <2>3. {p} \X found = {s \in Sold : s[1] = p}
    BY DEF found, Sold
  <2>4. sync'.variants = {s \in Sold' : s[1] \in sync'.listed \ NotRead'}
    BY <1>1, <1>2, <1>3, <2>1, <2>2, <2>3 DEF ReadTruly
  <2>5. \A s \in Offered : s[1] = p => <<s[1], s[2][1]>> \in {p} \X found
    BY DEF Offered, found, CatalogInv, CatalogShape, Catalog!Offer
  <2>6. \A s \in Offered : s[1] \in sync'.listed \ (NotRead' \cup sync'.incomplete) =>
          s \in sync'.options \/ <<s[1], s[2][1]>> \in sync'.asking
    BY <1>3, <2>1, <2>2, <2>5 DEF ReadTruly
  <2>7. ReadTruly'
    BY <1>2, <1>3, <2>1, <2>4, <2>6 DEF ReadTruly
  <2> QED
    BY <2>1, <2>7 DEF Undisturbed
<1>5. CASE sync' = [sync EXCEPT !.todo = @ \ {p}, !.listed = @ \ {p}]
  <2>1. /\ sync'.listed = sync.listed \ {p} /\ sync'.todo = sync.todo \ {p}
        /\ sync'.stage = "reading" /\ sync'.variants = sync.variants /\ sync'.asking = sync.asking
        /\ sync'.options = sync.options /\ sync'.incomplete = sync.incomplete
    BY <1>1, <1>3, <1>5 DEF Catalog!Idle
  <2>2. NotRead' = sync'.todo
    BY <2>1 DEF NotRead
  <2>3. sync'.listed \ NotRead' = sync.listed \ NotRead
    BY <1>1, <1>3, <2>1, <2>2
  <2>4. ReadTruly'
    BY <1>2, <1>3, <2>1, <2>2, <2>3 DEF ReadTruly
  <2> QED
    BY <2>1, <2>4 DEF Undisturbed
<1> QED
  BY <1>4, <1>5 DEF Catalog!ReadDetail

LEMMA ReadOptionsReads ==
  ASSUME CatalogInv, Undisturbed, NEW p \in Products, NEW v \in Variants, Catalog!ReadOptions(p, v)
  PROVE  Undisturbed'
<1> DEFINE offers == {o \in catalog.offers : o[1] = v}
<1>1. QuietlyRead /\ sync.stage = "reading" /\ <<p, v>> \in sync.asking
  BY DEF Catalog!ReadOptions, QuietlyRead
<1>2. Sold' = Sold /\ Offered' = Offered
  BY <1>1, QuietlyReadKeeps
<1>3. ReadTruly /\ NotRead = sync.todo /\ DOMAIN sync = DOMAIN Catalog!Idle
  BY <1>1 DEF Undisturbed, NotRead, CatalogInv
<1>4. PICK told \in SUBSET offers :
        sync' = [sync EXCEPT !.asking = @ \ {<<p, v>>}, !.options = @ \cup ({p} \X told),
                             !.incomplete = IF told = offers THEN @ ELSE @ \cup {p}]
  BY DEF Catalog!ReadOptions
<1>5. /\ sync'.listed = sync.listed /\ sync'.todo = sync.todo
      /\ sync'.stage = "reading" /\ sync'.variants = sync.variants
      /\ sync'.asking = sync.asking \ {<<p, v>>}
      /\ sync'.options = sync.options \cup ({p} \X told)
      /\ sync'.incomplete = IF told = offers THEN sync.incomplete ELSE sync.incomplete \cup {p}
  <2> HIDE DEF offers
  <2> QED
    BY <1>1, <1>3, <1>4 DEF Catalog!Idle
<1>6. NotRead' = NotRead
  BY <1>3, <1>5 DEF NotRead
<1>7. catalog.sold[v] = p
  BY <1>1, <1>3 DEF ReadTruly, Sold
<1>8. {p} \X told \subseteq Offered
  BY <1>7 DEF Offered
<1>9. ASSUME NEW s \in Offered, s[1] \in sync'.listed \ (NotRead' \cup sync'.incomplete)
      PROVE  s \in sync'.options \/ <<s[1], s[2][1]>> \in sync'.asking
  <2>1. s \in sync.options \/ <<s[1], s[2][1]>> \in sync.asking
    <3>1. s[1] \notin sync.incomplete
      BY <1>5, <1>9
    <3> QED
      BY <1>3, <1>5, <1>6, <1>9, <3>1 DEF ReadTruly
  <2>2. CASE <<s[1], s[2][1]>> = <<p, v>>
    <3>1. s[1] = p /\ s[2] \in offers /\ s = <<s[1], s[2]>>
      BY <2>2 DEF Offered
    <3>2. told = offers
      BY <1>5, <1>9, <3>1
    <3>3. s \in {p} \X told
      <4> HIDE DEF offers
      <4> QED
        BY <3>1, <3>2
    <3> QED
      BY <1>5, <3>3
  <2> QED
    BY <1>5, <2>1, <2>2
<1>10. ReadTruly'
  BY <1>2, <1>3, <1>5, <1>6, <1>8, <1>9 DEF ReadTruly
<1> QED
  BY <1>5, <1>10 DEF Undisturbed


LEMMA BeginStoreReads ==
  ASSUME CatalogInv, Undisturbed, Catalog!BeginStore PROVE Undisturbed'
<1>1. QuietlyRead /\ sync.stage = "reading" /\ sync.todo = {} /\ sync.asking = {}
  BY DEF Catalog!BeginStore, QuietlyRead
<1>2. Sold' = Sold /\ Offered' = Offered
  BY <1>1, QuietlyReadKeeps
<1>3. ReadTruly /\ NotRead = {} /\ DOMAIN sync = DOMAIN Catalog!Idle
  BY <1>1 DEF Undisturbed, NotRead, CatalogInv
<1>4. /\ sync'.stage = "storing" /\ sync'.todo = sync.listed /\ sync'.listed = sync.listed
      /\ sync'.variants = sync.variants /\ sync'.asking = {}
      /\ sync'.options = sync.options /\ sync'.incomplete = sync.incomplete
  BY <1>1, <1>3 DEF Catalog!BeginStore, Catalog!Idle
<1>5. NotRead' = {}
  BY <1>4 DEF NotRead
<1>6. ReadTruly'
  BY <1>1, <1>2, <1>3, <1>4, <1>5 DEF ReadTruly
<1>7. DraftTrue'
  BY <1>4 DEF DraftTrue
<1> QED
  BY <1>4, <1>6, <1>7 DEF Undisturbed

\* Putting a product takes nothing from those that were put before it.
LEMMA StoreProductReads ==
  ASSUME CatalogInv, Undisturbed, NEW p \in Products, Catalog!StoreProduct(p) PROVE Undisturbed'
<1> DEFINE variants == {v \in Variants : <<p, v>> \in sync.variants}
           options == {o \in sync.options : o[1] = p}
           kept == [v \in Variants |-> IF sync.draft.variant[v] = p THEN NoProduct ELSE sync.draft.variant[v]]
<1>1. QuietlyRead /\ sync.stage = "storing" /\ p \in sync.todo
  BY DEF Catalog!StoreProduct, QuietlyRead
<1>2. Sold' = Sold /\ Offered' = Offered /\ catalog' = catalog
  BY <1>1, QuietlyReadKeeps DEF QuietlyRead
<1>3. ReadTruly /\ NotRead = {} /\ DOMAIN sync = DOMAIN Catalog!Idle /\ sync.asking = {} /\ DraftTrue
  BY <1>1 DEF Undisturbed, NotRead, CatalogInv
<1>4. /\ sync'.stage = "storing" /\ sync'.todo = sync.todo \ {p} /\ sync'.listed = sync.listed
      /\ sync'.variants = sync.variants /\ sync'.asking = {}
      /\ sync'.options = sync.options /\ sync'.incomplete = sync.incomplete
      /\ sync'.draft = Catalog!Upserted(sync.draft, p, variants, options)
  <2> HIDE DEF variants, options
  <2> QED
    BY <1>1, <1>3 DEF Catalog!StoreProduct, Catalog!Idle, variants, options
<1>5. NotRead' = {}
  BY <1>4 DEF NotRead
<1>6. ReadTruly'
  BY <1>2, <1>3, <1>4, <1>5 DEF ReadTruly
<1>7. /\ sync'.draft.variant = [v \in Variants |-> IF v \in variants THEN p ELSE kept[v]]
      /\ sync'.draft.options =
           {o \in sync.draft.options : o[1] # p /\ kept[o[2][1]] # NoProduct} \cup options
  BY <1>4 DEF Catalog!Upserted
<1>8. \A v \in Variants : v \in variants <=> catalog.sold[v] = p
  BY <1>1, <1>3 DEF ReadTruly, Sold
<1>9. NoProduct \notin Products
  BY PartsAssumption DEF Catalog!CatalogSyncAssumption
<1>10. ASSUME NEW q \in sync'.listed \ sync'.todo
       PROVE  /\ \A v \in Variants : sync'.draft.variant[v] = q <=> catalog'.sold[v] = q
              /\ OptionsOf(sync'.draft.options, q) = OptionsOf(sync'.options, q)
  <2>1. q \in Products /\ (q = p \/ q \in sync.listed \ sync.todo)
    BY <1>3, <1>4, <1>10 DEF ReadTruly
  <2>2. CASE q = p
    <3>1. \A v \in Variants : sync'.draft.variant[v] = p <=> v \in variants
      BY <1>7, <1>9
    <3>2. OptionsOf(sync'.draft.options, p) = options
      BY <1>7 DEF OptionsOf
    <3> QED
      BY <1>2, <1>4, <1>8, <2>2, <3>1, <3>2 DEF OptionsOf
  <2>3. CASE q # p
    <3>1. q \in sync.listed \ sync.todo
      BY <2>1, <2>3
    <3>2. /\ \A v \in Variants : sync.draft.variant[v] = q <=> catalog.sold[v] = q
          /\ OptionsOf(sync.draft.options, q) = OptionsOf(sync.options, q)
      BY <1>3, <3>1 DEF DraftTrue
    <3>3. \A v \in Variants : sync'.draft.variant[v] = q <=> catalog.sold[v] = q
      <4> HIDE DEF variants
      <4> QED
        BY <1>7, <1>8, <1>9, <2>1, <2>3, <3>2
    <3>4. ASSUME NEW s \in OptionsOf(sync.draft.options, q) PROVE s[1] = q /\ kept[s[2][1]] # NoProduct
      <4>1. s \in sync.options /\ s[1] = q
        BY <3>2 DEF OptionsOf
      <4>2. s[2][1] \in Variants /\ catalog.sold[s[2][1]] = q
        BY <1>3, <4>1 DEF ReadTruly, Offered, CatalogInv, CatalogShape, Catalog!Offer
      <4>3. kept[s[2][1]] = q
        BY <2>3, <3>2, <4>2
      <4> QED
        BY <1>9, <2>1, <4>1, <4>3
    <3>5. \A s \in options : s[1] # q
      BY <2>3
    <3>6. OptionsOf(sync'.draft.options, q) = OptionsOf(sync.draft.options, q)
      <4> HIDE DEF kept, options
      <4> QED
        BY <1>7, <2>3, <3>4, <3>5 DEF OptionsOf
    <3> QED
      BY <1>2, <1>4, <3>2, <3>3, <3>6
  <2> QED
    BY <2>2, <2>3
<1>11. DraftTrue'
  BY <1>10 DEF DraftTrue, OptionsOf
<1> QED
  BY <1>3, <1>4, <1>6, <1>11 DEF Undisturbed

\* What is committed is what Regiondo has, of the products that were read whole.
LEMMA CommitMirrors ==
  ASSUME CatalogInv, Undisturbed, Catalog!Commit PROVE CatalogMirrored'
<1>1. /\ sync.stage = "storing" /\ sync.todo = {} /\ copied' = sync.draft /\ catalog' = catalog
      /\ fresh' \subseteq sync.listed \ sync.incomplete
  BY DEF Catalog!Commit
<1>2. ReadTruly /\ NotRead = {} /\ sync.asking = {} /\ DraftTrue
  BY <1>1 DEF Undisturbed, NotRead
<1>3. SUFFICES ASSUME NEW p \in fresh'
               PROVE  /\ \A v \in Variants : copied'.variant[v] = p <=> catalog'.sold[v] = p
                      /\ {o[2] : o \in {s \in copied'.options : s[1] = p}}
                           = {o \in catalog'.offers : catalog'.sold[o[1]] = p}
  BY DEF CatalogMirrored, Catalog!CatalogMirrored
<1>4. p \in sync.listed /\ p \notin sync.incomplete /\ p \in Products
  BY <1>1, <1>2 DEF ReadTruly
<1>5. /\ \A v \in Variants : sync.draft.variant[v] = p <=> catalog.sold[v] = p
      /\ {s \in sync.draft.options : s[1] = p} = {s \in sync.options : s[1] = p}
  BY <1>1, <1>2, <1>4 DEF DraftTrue, OptionsOf
<1>6. {s \in sync.options : s[1] = p} = {s \in Offered : s[1] = p}
  BY <1>2, <1>4 DEF ReadTruly
<1>7. {o[2] : o \in {s \in Offered : s[1] = p}} = {o \in catalog.offers : catalog.sold[o[1]] = p}
  <2>1. ASSUME NEW o \in catalog.offers, catalog.sold[o[1]] = p
        PROVE  <<p, o>> \in {s \in Offered : s[1] = p}
    BY <1>4, <2>1 DEF Offered
  <2>2. ASSUME NEW s \in Offered, s[1] = p
        PROVE  s[2] \in catalog.offers /\ catalog.sold[s[2][1]] = p
    BY <2>2 DEF Offered
  <2> DEFINE mine == {s \in Offered : s[1] = p}
             told == {o[2] : o \in mine}
             offers == {o \in catalog.offers : catalog.sold[o[1]] = p}
  <2>3. \A o \in told : o \in offers
    BY <2>2
  <2>4. ASSUME NEW o \in offers PROVE o \in told
    <3>1. <<p, o>> \in mine /\ <<p, o>>[2] = o
      BY <2>1
    <3> HIDE DEF mine
    <3> QED
      BY <3>1
  <2> HIDE DEF told, offers
  <2>5. told = offers
    BY <2>3, <2>4 DEF offers, told
  <2> QED
    BY <2>5 DEF told, offers
<1> QED
  BY <1>1, <1>5, <1>6, <1>7

LEMMA ChangeKeeps ==
  ASSUME CatalogInv, Catalog!ChangeCatalog PROVE CatalogInv'
<1>1. CatalogShape'
  <2>1. CASE \E p \in Products :
               catalog' = [catalog EXCEPT !.shown = IF p \in @ THEN @ \ {p} ELSE @ \cup {p}]
    BY <2>1 DEF CatalogInv, CatalogShape, Catalog!Offer
  <2>2. CASE \E v \in Variants, p \in (Products \cup {NoProduct}) :
               catalog' = [catalog EXCEPT !.sold[v] = p]
    BY <2>2 DEF CatalogInv, CatalogShape, Catalog!Offer
  <2>3. CASE \E o \in Catalog!Offer :
               catalog' = [catalog EXCEPT !.offers = IF o \in @ THEN @ \ {o} ELSE @ \cup {o}]
    BY <2>3 DEF CatalogInv, CatalogShape, Catalog!Offer
  <2> QED
    BY <2>1, <2>2, <2>3 DEF Catalog!ChangeCatalog
<1>2. CatalogMirrored'
  BY DEF Catalog!ChangeCatalog, CatalogMirrored, Catalog!CatalogMirrored
<1>3. CASE sync.stage = "idle"
  <2>1. sync = Catalog!Idle
    BY <1>3 DEF CatalogInv
  <2>2. sync' = [Catalog!Idle EXCEPT !.disturbed = FALSE]
    BY <2>1 DEF Catalog!ChangeCatalog
  <2>3. sync' = Catalog!Idle
    BY <2>2 DEF Catalog!Idle
  <2> QED
    BY <1>1, <1>2, <2>1, <2>3 DEF CatalogInv, Catalog!Idle, Catalog!NoRows
<1>4. CASE sync.stage # "idle"
  <2>1. sync # Catalog!Idle
    BY <1>4 DEF Catalog!Idle
  <2>2. sync' = [sync EXCEPT !.disturbed = TRUE]
    BY <2>1 DEF Catalog!ChangeCatalog
  <2>3. DOMAIN sync' = DOMAIN sync /\ sync'.disturbed /\ sync'.stage = sync.stage
    BY <2>2 DEF CatalogInv, Catalog!Idle
  <2> QED
    BY <1>1, <1>2, <1>4, <2>3 DEF CatalogInv, Catalog!Idle, Catalog!NoRows
<1> QED
  BY <1>3, <1>4


\* The copy of a catalog of any size: what a run read whole is in the tables as
\* Regiondo has it, until something changes there.
THEOREM CopiesMirror == Catalog!Spec => []CatalogMirrored
<1>1. Catalog!Init => CatalogInv
  <2> SUFFICES ASSUME Catalog!Init PROVE CatalogInv
    OBVIOUS
  <2>1. CatalogShape
    BY DEF Catalog!Init, CatalogShape, Catalog!Offer
  <2> QED
    BY <2>1 DEF Catalog!Init, CatalogInv, Catalog!Idle, CatalogMirrored, Catalog!CatalogMirrored
<1>2. CatalogInv /\ [Catalog!Next]_catalogVars => CatalogInv'
  <2> SUFFICES ASSUME CatalogInv, [Catalog!Next]_catalogVars PROVE CatalogInv'
    OBVIOUS
  <2>1. ASSUME QuietlyRead, DOMAIN sync' = DOMAIN Catalog!Idle, sync'.stage # "idle",
               sync'.disturbed = sync.disturbed, sync.stage # "idle",
               Undisturbed => Undisturbed'
        PROVE  CatalogInv'
    BY <2>1, QuietlyReadKeeps DEF CatalogInv
  <2>2. ASSUME QuietlyRead, sync' = Catalog!Idle PROVE CatalogInv'
    BY <2>2, QuietlyReadKeeps DEF CatalogInv, Catalog!Idle, Catalog!NoRows
  <2>3. DOMAIN sync = DOMAIN Catalog!Idle
    BY DEF CatalogInv
  <2>4. CASE Catalog!ChangeCatalog
    BY <2>4, ChangeKeeps
  <2>5. CASE Catalog!Start
    <3>1. QuietlyRead /\ sync' = [Catalog!Idle EXCEPT !.stage = "listing"]
      BY <2>5 DEF Catalog!Start, QuietlyRead
    <3>2. /\ DOMAIN sync' = DOMAIN Catalog!Idle /\ sync'.stage = "listing"
          /\ sync'.listed = {} /\ sync'.todo = {} /\ sync'.variants = {} /\ sync'.asking = {}
          /\ sync'.options = {} /\ sync'.incomplete = {}
      BY <3>1 DEF Catalog!Idle
    <3>3. Undisturbed'
      BY <3>2 DEF Undisturbed, ReadTruly, NotRead
    <3> QED
      BY <3>1, <3>2, <3>3, QuietlyReadKeeps DEF CatalogInv
  <2>6. CASE Catalog!ListPage
    <3>1. QuietlyRead /\ sync.stage = "listing"
      BY <2>6 DEF Catalog!ListPage, QuietlyRead
    <3>2. DOMAIN sync' = DOMAIN sync /\ sync'.stage # "idle" /\ sync'.disturbed = sync.disturbed
      BY <2>3, <2>6 DEF Catalog!ListPage, Catalog!Idle
    <3> QED
      BY <2>1, <2>3, <2>6, <3>1, <3>2, ListPageReads
  <2>7. ASSUME NEW p \in Products, Catalog!ReadDetail(p) PROVE CatalogInv'
    <3>1. QuietlyRead /\ sync.stage = "reading"
      BY <2>7 DEF Catalog!ReadDetail, QuietlyRead
    <3>2. DOMAIN sync' = DOMAIN sync /\ sync'.stage # "idle" /\ sync'.disturbed = sync.disturbed
      BY <2>3, <2>7, <3>1 DEF Catalog!ReadDetail, Catalog!Idle
    <3> QED
      BY <2>1, <2>3, <2>7, <3>1, <3>2, ReadDetailReads
  <2>8. ASSUME NEW p \in Products, NEW v \in Variants, Catalog!ReadOptions(p, v) PROVE CatalogInv'
    <3>1. QuietlyRead /\ sync.stage = "reading"
      BY <2>8 DEF Catalog!ReadOptions, QuietlyRead
    <3>2. DOMAIN sync' = DOMAIN sync /\ sync'.stage # "idle" /\ sync'.disturbed = sync.disturbed
      BY <2>3, <2>8, <3>1 DEF Catalog!ReadOptions, Catalog!Idle
    <3> QED
      BY <2>1, <2>3, <2>8, <3>1, <3>2, ReadOptionsReads
  <2>9. CASE Catalog!BeginStore
    <3>1. QuietlyRead /\ sync.stage = "reading"
      BY <2>9 DEF Catalog!BeginStore, QuietlyRead
    <3>2. DOMAIN sync' = DOMAIN sync /\ sync'.stage # "idle" /\ sync'.disturbed = sync.disturbed
      BY <2>3, <2>9 DEF Catalog!BeginStore, Catalog!Idle
    <3> QED
      BY <2>1, <2>3, <2>9, <3>1, <3>2, BeginStoreReads
  <2>10. ASSUME NEW p \in Products, Catalog!StoreProduct(p) PROVE CatalogInv'
    <3>1. QuietlyRead /\ sync.stage = "storing"
      BY <2>10 DEF Catalog!StoreProduct, QuietlyRead
    <3>2. DOMAIN sync' = DOMAIN sync /\ sync'.stage # "idle" /\ sync'.disturbed = sync.disturbed
      BY <2>3, <2>10, <3>1 DEF Catalog!StoreProduct, Catalog!Idle
    <3> QED
      BY <2>1, <2>3, <2>10, <3>1, <3>2, StoreProductReads
  <2>11. CASE Catalog!Commit
    <3>1. /\ sync' = Catalog!Idle /\ catalog' = catalog /\ sync.stage # "idle"
          /\ sync.disturbed => fresh' = {}
      BY <2>11 DEF Catalog!Commit
    <3>2. CatalogMirrored'
      <4>1. CASE Undisturbed
        BY <2>11, <4>1, CommitMirrors
      <4>2. CASE sync.disturbed
        BY <3>1, <4>2 DEF CatalogMirrored, Catalog!CatalogMirrored
      <4> QED
        BY <3>1, <4>1, <4>2 DEF CatalogInv
    <3> QED
      BY <3>1, <3>2 DEF CatalogInv, CatalogShape, Catalog!Offer, Catalog!Idle, Catalog!NoRows
  <2>12. CASE Catalog!AbortRun
    BY <2>2, <2>12 DEF Catalog!AbortRun, QuietlyRead
  <2>13. CASE UNCHANGED catalogVars
    <3>1. QuietlyRead /\ sync' = sync
      BY <2>13 DEF catalogVars, QuietlyRead
    <3>2. Undisturbed => Undisturbed'
      BY <3>1, QuietlyReadKeeps DEF Undisturbed, ReadTruly, DraftTrue, NotRead, QuietlyRead, OptionsOf
    <3> QED
      BY <3>1, <3>2, QuietlyReadKeeps DEF CatalogInv, Catalog!Idle, Catalog!NoRows
  <2> QED
    BY <2>4, <2>5, <2>6, <2>7, <2>8, <2>9, <2>10, <2>11, <2>12, <2>13 DEF Catalog!Next
<1>3. CatalogInv => CatalogMirrored
  BY DEF CatalogInv
<1> QED
  BY <1>1, <1>2, <1>3, CatalogSpec, PTL

-----------------------------------------------------------------------------
(* The run.                                                                    *)

\* A behaviour of the parts side by side is a behaviour of each of them.
LEMMA PartsRun == MCSpec => Spec /\ Catalog!Spec /\ Dates!Spec /\ Schema!Spec
<1>1. MCInit => Init /\ Catalog!Init /\ Dates!Init /\ Schema!Init
  BY DEF MCInit
<1>2. [MCNext]_<<part, vars, catalogVars, dateVars, schemaVars>> =>
        /\ [Next]_vars /\ [Catalog!Next]_catalogVars
        /\ [Dates!Next]_dateVars /\ [Schema!Next]_schemaVars
  BY DEF MCNext, InboxPart, CatalogPart, DatePart, SchemaPart
<1>3. MCSpec => /\ Init /\ [][Next]_vars
                /\ Catalog!Init /\ [][Catalog!Next]_catalogVars
                /\ Dates!Init /\ [][Dates!Next]_dateVars
                /\ Schema!Init /\ [][Schema!Next]_schemaVars
  BY <1>1, <1>2, PTL DEF MCSpec
<1> QED
  BY <1>3 DEF Spec, Catalog!Spec, Catalog!vars, catalogVars, Dates!Spec, Dates!vars, dateVars,
     Schema!Spec, Schema!vars, schemaVars

\* What the run checks of the four parts on a small instance holds of every one.
THEOREM UnattendedHolds ==
  MCSpec => /\ []( /\ TypeOK /\ ExclusiveClaims /\ AttemptsBounded /\ ProcessedReflected
                   /\ CatalogMirrored /\ DatesKeepTheirClock /\ SchemaFollowsReleases )
            /\ ProcessedIsFinal /\ NoStaleImport /\ ImplementsQueue
<1>1. Spec => []( TypeOK /\ ExclusiveClaims /\ AttemptsBounded /\ ProcessedReflected )
  BY TypeCorrect, ClaimsExclusive, AttemptsAreBounded, ProcessedAreReflected, PTL
<1>2. Spec => ProcessedIsFinal /\ NoStaleImport /\ ImplementsQueue
  BY ProcessedStays, ImportsNeverStale, InboxImplementsQueue
<1> QED
  BY <1>1, <1>2, PartsRun, CopiesMirror, DatesKept, SchemaFollows, PTL

=============================================================================
