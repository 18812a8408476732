---------------------- MODULE NormalizedCatalogProofs ----------------------
(***************************************************************************)
(* Proofs about NormalizedCatalog, for every catalog, every number of      *)
(* requests and every delete ratio: a run does to the rows it read what    *)
(* the workbook asks for, and no orphan appears without an overlap.        *)
(***************************************************************************)
EXTENDS NormalizedCatalog, TLAPS

USE CatalogAssumption DEF Key

Rows  == [Key -> Status]
Lines == [Key -> Line]

-----------------------------------------------------------------------------
(* diff_workbook *)

\* A parent a line hangs from is one the run does not delete.
LEMMA KnownStay ==
  ASSUME NEW t \in Rows, NEW w \in Lines
  PROVE  /\ ProductCodes(t, w) \cap Deletes(t, w) = {}
         /\ SeriesKeys(t, w) \cap Deletes(t, w) = {}
  BY DEF ProductCodes, SeriesKeys, ImplicitSeries, Known, Present, Readable,
         Deletes, Missing, GoneSeries, GoneAdmins

\* What is accepted is active after the run: it was, or the run writes it.
LEMMA AcceptedEnter ==
  ASSUME NEW t \in Rows, NEW w \in Lines,
         NEW k \in ProductCodes(t, w) \cup SeriesKeys(t, w) \cup Accepted(t, w)
  PROVE  k \in Active(t) \cup Inserts(t, w) \cup Restores(t, w)
  BY DEF ProductCodes, SeriesKeys, ImplicitSeries, Known, Present, Readable,
         Accepted, Inserts, Restores, Active, Rows, Status

\* The parent of an accepted line is known.
LEMMA AcceptedHang ==
  ASSUME NEW t \in Rows, NEW w \in Lines, NEW k \in Accepted(t, w)
  PROVE  /\ k \in Series => Parent[k] \in ProductCodes(t, w)
         /\ k \in Admin => Parent[k] \in SeriesKeys(t, w)
  BY DEF Accepted, ImplicitSeries

\* What hangs from a deleted row is deleted.
LEMMA DeletesCascade ==
  ASSUME NEW t \in Rows, NEW w \in Lines,
         NEW k \in (Series \cup Admin) \cap Active(t), Parent[k] \in Deletes(t, w)
  PROVE  k \in Deletes(t, w)
  BY DEF Deletes, GoneSeries, GoneAdmins

\* The reference's parts are the code's: the products the workbook knows ...
LEMMA WantedIsAsked ==
  ASSUME NEW t \in Rows, NEW w \in Lines
  PROVE  \A k : k \in Wanted(t, w) <=> \/ k \in ProductCodes(t, w)
                                       \/ k \in SeriesKeys(t, w)
                                       \/ k \in Known(t, w) \cap Admin /\ Parent[k] \in SeriesKeys(t, w)
<1> DEFINE known == {k \in Key : w[k] = "good" \/ (w[k] = "bad" /\ t[k] = "active")}
           products == known \cap Product
           series == {s \in Series : /\ Parent[s] \in products
                                     /\ \/ s \in known
                                        \/ \E a \in Admin : w[a] = "good" /\ Parent[a] = s}
<1>1. known = Known(t, w)
  BY DEF Known, Readable, Present, Active, Lines, Line
<1>2. products = ProductCodes(t, w)
  BY <1>1 DEF ProductCodes
<1>3. series = SeriesKeys(t, w)
  <2>1. ASSUME NEW s \in series PROVE s \in SeriesKeys(t, w)
    BY <1>1, <1>2 DEF SeriesKeys, ImplicitSeries, Known, Readable
  <2>2. ASSUME NEW s \in SeriesKeys(t, w) PROVE s \in series
    BY <1>1, <1>2 DEF SeriesKeys, ImplicitSeries, Readable
  <2> QED BY <2>1, <2>2
<1> HIDE DEF known, products, series
<1>4. Wanted(t, w) = products \cup series \cup {a \in known \cap Admin : Parent[a] \in series}
  BY DEF Wanted, known, products, series
<1> QED BY <1>1, <1>2, <1>3, <1>4

\* After the run, a catalog without orphans is what the workbook asks for.
LEMMA PlanMatches ==
  ASSUME NEW t \in Rows, NEW w \in Lines, Orphans(t) = {}
  PROVE  (Active(t) \cup Inserts(t, w) \cup Restores(t, w)) \ Deletes(t, w)
           = Wanted(t, w) \cup (IF Blocked(t, w) THEN Active(t) ELSE {})
<1> DEFINE asked == Wanted(t, w)
<1>1. Accepted(t, w) \subseteq asked
  <2> SUFFICES ASSUME NEW k \in Accepted(t, w) PROVE k \in asked
    OBVIOUS
  <2>1. k \in ImplicitSeries(t, w) \/ k \in Readable(w)
    BY DEF Accepted
  <2>2. CASE k \in ImplicitSeries(t, w)
    BY <2>2, WantedIsAsked DEF SeriesKeys
  <2>3. CASE k \in Readable(w)
    BY <2>3, WantedIsAsked, AcceptedHang DEF SeriesKeys, Known, ProductCodes, Readable
  <2> QED BY <2>1, <2>2, <2>3
<1>2. asked \subseteq Active(t) \cup Accepted(t, w)
  <2> SUFFICES ASSUME NEW k \in asked PROVE k \in Active(t) \cup Accepted(t, w)
    OBVIOUS
  <2>1. CASE k \in ProductCodes(t, w) \cup SeriesKeys(t, w)
    BY <2>1, AcceptedEnter DEF Inserts, Restores
  <2>2. CASE k \in Known(t, w) \cap Admin /\ Parent[k] \in SeriesKeys(t, w)
    BY <2>2 DEF Known, Accepted
  <2> QED BY <2>1, <2>2, WantedIsAsked
<1>3. asked \cap Deletes(t, w) = {}
  <2>1. \A a \in Admin \cap asked : a \notin Deletes(t, w)
    BY KnownStay, WantedIsAsked DEF SeriesKeys, Known, Present, Readable, Deletes,
       GoneAdmins, GoneSeries, Missing, ProductCodes, ImplicitSeries
  <2> QED BY <2>1, KnownStay, WantedIsAsked DEF ProductCodes, SeriesKeys
<1>4. ASSUME ~ Blocked(t, w), NEW k \in Active(t) \ asked PROVE k \in Deletes(t, w)
  <2>1. CASE k \in Product
    BY <1>4, <2>1, WantedIsAsked DEF Deletes, Missing, Known, ImplicitSeries, ProductCodes
  <2>2. CASE k \in Series
    <3>1. t[Parent[k]] = "active"
      BY <2>2, <1>4 DEF Orphans
    <3>2. k \in Missing(t, w) \/ Parent[k] \in Missing(t, w)
      BY <2>2, <3>1, <1>4, WantedIsAsked
      DEF Missing, SeriesKeys, Known, ProductCodes, ImplicitSeries, Active
    <3> QED BY <2>2, <3>2, <1>4 DEF Deletes, GoneSeries
  <2>3. CASE k \in Admin
    <3>1. Parent[k] \in Active(t)
      BY <2>3, <1>4 DEF Orphans, Active
    <3>2. k \in Missing(t, w) \/ Parent[k] \notin SeriesKeys(t, w)
      BY <2>3, <1>4, WantedIsAsked DEF Missing, Known, ImplicitSeries
    <3>3. CASE k \in Missing(t, w)
      BY <2>3, <3>3, <1>4 DEF Deletes, GoneAdmins
    <3>4. CASE Parent[k] \notin SeriesKeys(t, w)
      <4>1. t[Parent[Parent[k]]] = "active"
        BY <2>3, <3>1 DEF Orphans
      <4>2. Parent[k] \in Missing(t, w) \/ Parent[Parent[k]] \in Missing(t, w)
        BY <2>3, <3>1, <3>4, <4>1
        DEF Missing, SeriesKeys, Known, ProductCodes, ImplicitSeries, Active
      <4>3. Parent[k] \in GoneSeries(t, w)
        BY <2>3, <3>1, <4>2 DEF GoneSeries
      <4> QED BY <2>3, <4>3, <1>4 DEF Deletes, GoneAdmins
    <3> QED BY <3>2, <3>3, <3>4
  <2> QED BY <2>1, <2>2, <2>3 DEF Active
<1>5. Inserts(t, w) \cup Restores(t, w) \subseteq Accepted(t, w)
  BY DEF Inserts, Restores
<1>6. Accepted(t, w) \subseteq Active(t) \cup Inserts(t, w) \cup Restores(t, w)
  BY AcceptedEnter
<1>7. Blocked(t, w) => Deletes(t, w) = {}
  BY DEF Deletes
<1> HIDE DEF asked
<1>8. CASE Blocked(t, w)
  BY <1>1, <1>2, <1>5, <1>6, <1>7, <1>8 DEF asked
<1>9. CASE ~ Blocked(t, w)
  BY <1>1, <1>2, <1>3, <1>4, <1>5, <1>6, <1>9 DEF asked
<1> QED BY <1>8, <1>9
\* The rows c at commit time agree with the rows t the run read as far as the
\* edits allowed beside a run go: products come, administrators go.
Agree(t, c) ==
  /\ \A p \in Product : t[p] = "active" => c[p] = "active"
  /\ \A s \in Series : t[s] = c[s]
  /\ \A a \in Admin : c[a] = "active" => t[a] = "active"

\* Writing U active and D deleted over c leaves every child with its parent.
Closed(c, U, D) ==
  \A k \in Series \cup Admin :
    k \in U \/ (c[k] = "active" /\ k \notin D)
      => Parent[k] \notin D /\ (Parent[k] \in U \/ c[Parent[k]] = "active")

\* A run that read almost the current rows leaves no orphan.
LEMMA PlanClosed ==
  ASSUME NEW t \in Rows, NEW w \in Lines, NEW c \in Rows,
         Agree(t, c), Orphans(c) = {},
         NEW U, U = Inserts(t, w) \cup Restores(t, w),
         NEW D, D = Deletes(t, w) \cap Active(c)
  PROVE  Closed(c, U, D)
<1> SUFFICES ASSUME NEW k \in Series \cup Admin, k \in U \/ (c[k] = "active" /\ k \notin D)
             PROVE  Parent[k] \notin D /\ (Parent[k] \in U \/ c[Parent[k]] = "active")
  BY DEF Closed
<1>1. \A q \in Product \cup Series : t[q] = "active" => c[q] = "active"
  BY DEF Agree
<1>2. CASE k \in U
  <2>1. k \in Accepted(t, w)
    BY <1>2 DEF Inserts, Restores
  <2>2. Parent[k] \in ProductCodes(t, w) \cup SeriesKeys(t, w)
    BY <2>1, AcceptedHang
  <2>3. Parent[k] \notin Deletes(t, w)
    BY <2>2, KnownStay
  <2>4. Parent[k] \in Active(t) \cup U
    BY <2>2, AcceptedEnter
  <2> QED BY <1>1, <2>3, <2>4 DEF Active
<1>3. CASE k \notin U
  <2>1. c[k] = "active" /\ c[Parent[k]] = "active"
    BY <1>3 DEF Orphans, Active
  <2>2. k \in Active(t)
    BY <2>1 DEF Agree, Active
  <2>3. k \notin Deletes(t, w)
    BY <1>3, <2>1 DEF Active
  <2> QED BY <2>1, <2>2, <2>3, DeletesCascade
<1> QED BY <1>2, <1>3

-----------------------------------------------------------------------------
(* Types *)

LEMMA InitTypes == Init => TypeOK
<1> SUFFICES ASSUME Init PROVE TypeOK
  OBVIOUS
<1>1. row \in [Key -> Status] /\ seen \in [Key -> Status] /\ sheet \in [Key -> Line]
  BY DEF Init, NoRows, NoLines, Status, Line
<1>2. flagged \in [Request -> SUBSET Key] /\ \A r \in Request : flagged[r] = {}
  BY DEF Init
<1>3. stage \in [Request -> {"idle", "insert", "series", "admins", "commit"}]
  BY DEF Init
<1>4. target \in [Request -> Key \cup {NoKey}] /\ tangled \in BOOLEAN
  BY DEF Init
<1>5. ops \in 0..MaxOps
  BY DEF Init
<1> QED BY <1>1, <1>2, <1>3, <1>4, <1>5 DEF Init, TypeOK

\* Writing rows keeps them rows.
LEMMA WriteType ==
  ASSUME NEW K, NEW status \in Status, row \in Rows, Write(K, status)
  PROVE  row' \in Rows /\ \A k \in Key : row'[k] = IF k \in K THEN status ELSE row[k]
  BY DEF Write, Rows

LEMMA NextTypes == TypeOK /\ [Next]_vars => TypeOK'
<1> SUFFICES ASSUME TypeOK, [Next]_vars PROVE TypeOK'
  OBVIOUS
<1> USE DEF Rows, Lines
<1>1. ASSUME NEW k \in Product, CreateProduct(k) PROVE TypeOK'
  BY <1>1, WriteType DEF TypeOK, CreateProduct, Begin, edits, syncing, Status
<1>2. ASSUME NEW k \in Admin, DeleteAdmin(k) PROVE TypeOK'
  BY <1>2, WriteType DEF TypeOK, DeleteAdmin, Begin, edits, syncing, Status
<1>3. ASSUME NEW r \in Request, NEW k \in Series \cup Admin, CheckParent(r, k) PROVE TypeOK'
  BY <1>3 DEF TypeOK, CheckParent, Begin, Note, Creating, Deleting, Syncing, syncing
<1>4. ASSUME NEW r \in Request, NEW k \in Product \cup Series, DeleteTarget(r, k) PROVE TypeOK'
  <2>1. flagged' \in [Request -> SUBSET Key] /\ target' \in [Request -> Key \cup {NoKey}]
    BY <1>4 DEF TypeOK, DeleteTarget
  <2>2. stage' \in [Request -> {"idle", "insert", "series", "admins", "commit"}]
    BY <1>4 DEF TypeOK, DeleteTarget
  <2>3. \A q \in Request : flagged'[q] = IF q = r THEN {k} ELSE flagged[q]
    BY <1>4 DEF TypeOK, DeleteTarget
  <2>4. k \notin up \cup down /\ \A q \in Request : k \notin flagged[q]
    BY <1>4 DEF DeleteTarget, Locked
  <2> QED BY <1>4, <2>1, <2>2, <2>3, <2>4
      DEF TypeOK, DeleteTarget, Begin, Note, Creating, Deleting, Syncing, syncing
<1>5. ASSUME NEW r \in Request, CreateChild(r) PROVE TypeOK'
  <2>1. row' \in [Key -> Status]
    BY <1>5, WriteType DEF TypeOK, CreateChild, Status
  <2>2. flagged' \in [Request -> SUBSET Key] /\ target' \in [Request -> Key \cup {NoKey}]
    BY <1>5 DEF TypeOK, CreateChild, Answer
  <2> QED BY <1>5, <2>1, <2>2 DEF TypeOK, CreateChild, Answer, syncing
<1>6. ASSUME NEW r \in Request, NEW K \in SUBSET Key, Flag(r, K),
             stage' \in [Request -> {"idle", "insert", "series", "admins", "commit"}]
      PROVE  TypeOK'
  <2>1. flagged' \in [Request -> SUBSET Key]
    BY <1>6 DEF TypeOK, Flag
  <2>2. \A q \in Request : flagged'[q] = IF q = r THEN flagged[q] \cup K ELSE flagged[q]
    <3>1. DOMAIN flagged = Request /\ flagged' = [flagged EXCEPT ![r] = flagged[r] \cup K]
      BY <1>6 DEF TypeOK, Flag
    <3> QED BY <3>1
  <2>3. /\ (K \ flagged[r]) \cap (up \cup down) = {}
        /\ \A q \in Request : (K \ flagged[r]) \cap flagged[q] = {}
    BY <1>6 DEF Flag, Locked
  <2> QED BY <1>6, <2>1, <2>2, <2>3 DEF TypeOK, Flag, syncing
<1>7. ASSUME NEW r \in Request, FlagSeries(r) \/ FlagAdmins(r) PROVE TypeOK'
  BY <1>6, <1>7 DEF TypeOK, FlagSeries, FlagAdmins
<1>8. ASSUME NEW r \in Request, CommitDelete(r) PROVE TypeOK'
  <2>1. row' \in [Key -> Status]
    BY <1>8, WriteType DEF TypeOK, CommitDelete, Status
  <2>2. flagged' \in [Request -> SUBSET Key] /\ target' \in [Request -> Key \cup {NoKey}]
    BY <1>8 DEF TypeOK, CommitDelete, Answer
  <2> QED BY <1>8, <2>1, <2>2 DEF TypeOK, CommitDelete, Answer, syncing
<1>9. ASSUME NEW r \in Request, Abandon(r) PROVE TypeOK'
  <2>2. flagged' \in [Request -> SUBSET Key] /\ target' \in [Request -> Key \cup {NoKey}]
    BY <1>9 DEF TypeOK, Abandon, Answer
  <2> QED BY <1>9, <2>2 DEF TypeOK, Abandon, Answer, syncing
<1>10. ASSUME NEW w \in [Key -> Line], ReadProducts(w) PROVE TypeOK'
  BY <1>10 DEF TypeOK, ReadProducts, Load, Begin, Note, Creating, Deleting, edits
<1>11. ASSUME ReadSeries \/ ReadAdmins PROVE TypeOK'
  BY <1>11 DEF TypeOK, ReadSeries, ReadAdmins, Load, edits
<1>12. ASSUME Apply PROVE TypeOK'
  <2>1. up' \in SUBSET Key /\ down' \in SUBSET Key
    BY <1>12 DEF Apply, Inserts, Restores, Accepted, ImplicitSeries, Readable, Active
  <2>2. up' \cap down' = {}
    <3>1. up' \subseteq Accepted(seen, sheet) /\ up' \cap Active(seen) = {}
      BY <1>12 DEF Apply, Inserts, Restores, Active
    <3>2. Deletes(seen, sheet) \subseteq Active(seen)
      BY DEF Deletes, Missing, GoneSeries, GoneAdmins
    <3> QED BY <1>12, <3>1, <3>2 DEF Apply
  <2>3. \A r \in Request : flagged[r] \cap (up' \cup down') = {}
    BY <1>12 DEF Apply, Locked
  <2> QED BY <1>12, <2>1, <2>2, <2>3 DEF TypeOK, Apply, edits
<1>13. ASSUME CommitRun \/ FailRun PROVE TypeOK'
  <2>1. row' \in [Key -> Status]
    BY <1>13 DEF TypeOK, CommitRun, FailRun, Status
  <2>2. seen' \in [Key -> Status] /\ sheet' \in [Key -> Line]
    BY <1>13 DEF CommitRun, FailRun, EndRun, NoRows, NoLines, Status, Line
  <2> QED BY <1>13, <2>1, <2>2 DEF TypeOK, CommitRun, FailRun, EndRun, edits
<1>14. CASE UNCHANGED vars
  BY <1>14 DEF TypeOK, vars, edits, syncing
<1> QED
  BY <1>1, <1>2, <1>3, <1>4, <1>5, <1>7, <1>8, <1>9, <1>10, <1>11, <1>12, <1>13, <1>14 DEF Next

\* Every reachable state is typed, and the row locks keep open transactions off
\* each other's rows, whatever requests and runs overlap.
THEOREM TypeCorrect == Spec => []TypeOK
  BY InitTypes, NextTypes, PTL DEF Spec

\* Whatever overlaps a run, what it is about to write makes a catalog without
\* orphans what the workbook asks for.
THEOREM MatchesCorrect == Spec => []MatchesWorkbook
<1>1. TypeOK => MatchesWorkbook
  BY PlanMatches DEF TypeOK, MatchesWorkbook, Rows, Lines
<1> QED BY <1>1, TypeCorrect, PTL

-----------------------------------------------------------------------------
(* No orphans *)

\* A transaction in stage st that deletes x has flagged F: all that hangs from
\* F in the tables it has been through.
Cascade(c, st, x, F) ==
  /\ st \in {"series", "admins", "commit"} => x \in Product \cup Series
  /\ st = "series" => F = {x}
  /\ st = "admins" => \A f \in F : f = x \/ (f \in Series /\ Parent[f] = x)
  /\ st = "admins" => \A s \in Series : c[s] = "active" /\ Parent[s] \in F => s \in F
  /\ st = "commit" => \A k \in Series \cup Admin : c[k] = "active" /\ Parent[k] \in F => k \in F

\* A request that creates k has found its parent active.
Founded(c, st, k) == st = "insert" => k \in Series \cup Admin /\ c[Parent[k]] = "active"

\* How far the run's rows t agree with the current ones.
Follows(c, t, stg, U, D) ==
  /\ stg \in {"series", "admins", "apply"} => \A p \in Product : t[p] = "active" => c[p] = "active"
  /\ stg \in {"admins", "apply"} => \A s \in Series : t[s] = c[s]
  /\ stg = "apply" => \A a \in Admin : c[a] = "active" => t[a] = "active"
  /\ stg = "commit" => Closed(c, U, D)

Apart ==
  /\ Syncing => ~ Creating /\ ~ Deleting
  /\ Creating => ~ Deleting

Untangled ==
  /\ Orphans(row) = {}
  /\ Apart
  /\ \A r \in Request : Founded(row, stage[r], target[r])
  /\ \A r \in Request : Cascade(row, stage[r], target[r], flagged[r])
  /\ Follows(row, seen, run, up, down)

OrphanInv == TypeOK /\ (~ tangled => Untangled)

LEMMA InitUntangled == Init => Untangled
  BY DEF Init, Untangled, Orphans, Active, Status, Apart, Syncing, Creating, Deleting,
         Founded, Cascade, Follows

\* Rows that only come as products and go as administrators disturb nothing.
LEMMA Harmless ==
  ASSUME TypeOK, Untangled, TypeOK', UNCHANGED <<edits, syncing>>,
         \A p \in Product : row[p] = "active" => row'[p] = "active",
         \A s \in Series : row'[s] = row[s],
         \A a \in Admin : row'[a] = "active" => row[a] = "active"
  PROVE  Untangled'
<1>1. Orphans(row') = {}
  BY DEF Untangled, Orphans, Active
<1>2. Apart'
  BY DEF Untangled, Apart, Syncing, Creating, Deleting, edits, syncing
<1>3. \A r \in Request : Founded(row', stage'[r], target'[r])
  BY DEF Untangled, Founded, edits
<1>4. \A r \in Request : Cascade(row', stage'[r], target'[r], flagged'[r])
  BY DEF Untangled, Cascade, edits
<1>5. Follows(row', seen', run', up', down')
  BY DEF Untangled, Follows, Closed, syncing
<1> QED BY <1>1, <1>2, <1>3, <1>4, <1>5 DEF Untangled

\* A request that ends, or starts, leaves the others as they were.
LEMMA Others ==
  ASSUME TypeOK, Untangled, NEW r \in Request,
         \A q \in Request \ {r} : stage'[q] = stage[q] /\ target'[q] = target[q] /\ flagged'[q] = flagged[q],
         row' = row,
         Founded(row, stage'[r], target'[r]), Cascade(row, stage'[r], target'[r], flagged'[r]),
         UNCHANGED syncing, Apart'
  PROVE  Untangled'
<1>1. \A q \in Request : Founded(row', stage'[q], target'[q])
  BY DEF Untangled
<1>2. \A q \in Request : Cascade(row', stage'[q], target'[q], flagged'[q])
  BY DEF Untangled
<1> QED BY <1>1, <1>2 DEF Untangled, syncing

LEMMA NextUntangled == OrphanInv /\ [Next]_vars => (~ tangled' => Untangled')
<1> SUFFICES ASSUME TypeOK, ~ tangled => Untangled, TypeOK', [Next]_vars, ~ tangled'
             PROVE  Untangled'
  BY NextTypes DEF OrphanInv
<1> USE DEF Rows, Lines
<1>0. Untangled
  BY DEF Next, CreateProduct, DeleteAdmin, CheckParent, DeleteTarget, CreateChild, FlagSeries,
     FlagAdmins, Flag, CommitDelete, Abandon, ReadProducts, ReadSeries, ReadAdmins, Apply,
     CommitRun, FailRun, EndRun, Note, vars
<1>1. ASSUME NEW k \in Product, CreateProduct(k) PROVE Untangled'
  <2>1. \A j \in Key : row'[j] = IF j \in {k} THEN "active" ELSE row[j]
    BY <1>1, WriteType DEF CreateProduct, TypeOK, Status
  <2> QED BY <1>0, <1>1, <2>1, Harmless DEF CreateProduct
<1>2. ASSUME NEW k \in Admin, DeleteAdmin(k) PROVE Untangled'
  <2>1. \A j \in Key : row'[j] = IF j \in {k} THEN "deleted" ELSE row[j]
    BY <1>2, WriteType DEF DeleteAdmin, TypeOK, Status
  <2> QED BY <1>0, <1>2, <2>1, Harmless DEF DeleteAdmin
<1>3. ASSUME NEW r \in Request, NEW k \in Series \cup Admin, CheckParent(r, k) PROVE Untangled'
  <2>1. \A q \in Request : /\ stage'[q] = IF q = r THEN "insert" ELSE stage[q]
                           /\ target'[q] = IF q = r THEN k ELSE target[q]
    BY <1>3 DEF CheckParent, TypeOK
  <2>2. Founded(row, stage'[r], target'[r]) /\ Cascade(row, stage'[r], target'[r], flagged'[r])
    BY <1>3, <2>1 DEF CheckParent, Founded, Cascade
  <2>3. Apart'
    BY <1>0, <1>3, <2>1 DEF CheckParent, Note, Apart, Syncing, Creating, Deleting, syncing
  <2> QED BY <1>0, <1>3, <2>1, <2>2, <2>3, Others DEF CheckParent
<1>4. ASSUME NEW r \in Request, NEW k \in Product \cup Series, DeleteTarget(r, k) PROVE Untangled'
  <2>1. \A q \in Request :
          /\ stage'[q] = IF q = r THEN (IF k \in Product THEN "series" ELSE "admins") ELSE stage[q]
          /\ target'[q] = IF q = r THEN k ELSE target[q]
          /\ flagged'[q] = IF q = r THEN {k} ELSE flagged[q]
    BY <1>4 DEF DeleteTarget, TypeOK
  <2>2. Founded(row, stage'[r], target'[r]) /\ Cascade(row, stage'[r], target'[r], flagged'[r])
    BY <2>1 DEF Founded, Cascade
  <2>3. Apart'
    <3>1. ~ Creating /\ ~ Syncing
      BY <1>4 DEF DeleteTarget, Note
    <3>2. ~ Creating'
      BY <2>1, <3>1 DEF Creating
    <3>3. ~ Syncing'
      BY <1>4, <3>1 DEF DeleteTarget, Syncing, syncing
    <3> QED BY <3>2, <3>3 DEF Apart
  <2> QED BY <1>0, <1>4, <2>1, <2>2, <2>3, Others DEF DeleteTarget
<1>5. ASSUME NEW r \in Request, Answer(r)
      PROVE  /\ \A q \in Request : /\ stage'[q] = IF q = r THEN "idle" ELSE stage[q]
                                   /\ target'[q] = IF q = r THEN NoKey ELSE target[q]
                                   /\ flagged'[q] = IF q = r THEN {} ELSE flagged[q]
             /\ UNCHANGED syncing => Apart'
  <2>1. \A q \in Request : /\ stage'[q] = IF q = r THEN "idle" ELSE stage[q]
                           /\ target'[q] = IF q = r THEN NoKey ELSE target[q]
                           /\ flagged'[q] = IF q = r THEN {} ELSE flagged[q]
    BY <1>5 DEF Answer, TypeOK
  <2> QED BY <1>0, <2>1 DEF Untangled, Apart, Syncing, Creating, Deleting, syncing
<1>6. ASSUME NEW r \in Request, CreateChild(r) PROVE Untangled'
  <2>1. \A j \in Key : row'[j] = IF j \in {target[r]} THEN "active" ELSE row[j]
    BY <1>6, WriteType DEF CreateChild, TypeOK, Status
  <2>2. target[r] \in Series \cup Admin /\ row[Parent[target[r]]] = "active"
    BY <1>0, <1>6 DEF CreateChild, Untangled, Founded
  <2>3. Orphans(row') = {}
    BY <1>0, <2>1, <2>2 DEF Untangled, Orphans, Active
  <2>4. ~ Syncing /\ ~ Deleting
    BY <1>0, <1>6 DEF CreateChild, Untangled, Apart, Creating
  <2>5. \A q \in Request : Founded(row', stage'[q], target'[q])
    BY <1>0, <1>5, <1>6, <2>1 DEF CreateChild, Untangled, Founded
  <2>6. \A q \in Request : Cascade(row', stage'[q], target'[q], flagged'[q])
    BY <1>5, <1>6, <2>4 DEF CreateChild, Deleting, Cascade
  <2>7. Follows(row', seen', run', up', down')
    BY <1>6, <2>4 DEF CreateChild, Syncing, syncing, Follows
  <2> QED BY <1>5, <1>6, <2>3, <2>5, <2>6, <2>7 DEF CreateChild, Untangled
<1>7. ASSUME NEW r \in Request, FlagSeries(r) PROVE Untangled'
  <2> DEFINE K == {s \in Series \cap Active(row) : Parent[s] = target[r]}
  <2>1. \A q \in Request : /\ stage'[q] = IF q = r THEN "admins" ELSE stage[q]
                           /\ flagged'[q] = IF q = r THEN flagged[r] \cup K ELSE flagged[q]
                           /\ target'[q] = target[q]
    BY <1>7 DEF FlagSeries, Flag, TypeOK
  <2>0. row' = row /\ UNCHANGED syncing
    BY <1>7 DEF FlagSeries, Flag, syncing
  <2>2. flagged[r] = {target[r]} /\ target[r] \in Product \cup Series
    BY <1>0, <1>7 DEF FlagSeries, Untangled, Cascade
  <2> HIDE DEF K
  <2>3. Founded(row, stage'[r], target'[r])
    BY <2>1 DEF Founded
  <2>5. \A s \in Series : row[s] = "active" /\ Parent[s] \in flagged[r] \cup K => s \in flagged[r] \cup K
    BY <2>2 DEF K, Active
  <2>6. \A f \in flagged[r] \cup K : f = target[r] \/ (f \in Series /\ Parent[f] = target[r])
    BY <2>2 DEF K
  <2>7. Cascade(row, stage'[r], target'[r], flagged'[r])
    BY <2>1, <2>2, <2>5, <2>6 DEF Cascade
  <2>4. Apart'
    BY <1>0, <1>7, <2>0, <2>1 DEF FlagSeries, Untangled, Apart, Syncing, Creating, Deleting, syncing
  <2> QED BY <1>0, <2>0, <2>1, <2>3, <2>4, <2>7, Others
<1>8. ASSUME NEW r \in Request, FlagAdmins(r) PROVE Untangled'
  <2> DEFINE K == {a \in Admin \cap Active(row) : target[r] \in {Parent[a], Parent[Parent[a]]}}
  <2>1. \A q \in Request : /\ stage'[q] = IF q = r THEN "commit" ELSE stage[q]
                           /\ flagged'[q] = IF q = r THEN flagged[r] \cup K ELSE flagged[q]
                           /\ target'[q] = target[q]
    BY <1>8 DEF FlagAdmins, Flag, TypeOK
  <2>0. row' = row /\ UNCHANGED syncing
    BY <1>8 DEF FlagAdmins, Flag, syncing
  <2>2. /\ \A f \in flagged[r] : f = target[r] \/ (f \in Series /\ Parent[f] = target[r])
        /\ \A s \in Series : row[s] = "active" /\ Parent[s] \in flagged[r] => s \in flagged[r]
        /\ target[r] \in Product \cup Series
    BY <1>0, <1>8 DEF FlagAdmins, Untangled, Cascade
  <2>3. \A k \in Series \cup Admin :
          row[k] = "active" /\ Parent[k] \in flagged[r] \cup K => k \in flagged[r] \cup K
    BY <2>2 DEF Active
  <2> HIDE DEF K
  <2>4. Founded(row, stage'[r], target'[r]) /\ Cascade(row, stage'[r], target'[r], flagged'[r])
    BY <2>1, <2>2, <2>3 DEF Founded, Cascade
  <2>5. Apart'
    BY <1>0, <1>8, <2>0, <2>1 DEF FlagAdmins, Untangled, Apart, Syncing, Creating, Deleting, syncing
  <2> QED BY <1>0, <2>0, <2>1, <2>4, <2>5, Others
<1>9. ASSUME NEW r \in Request, CommitDelete(r) PROVE Untangled'
  <2>1. \A j \in Key : row'[j] = IF j \in flagged[r] THEN "deleted" ELSE row[j]
    BY <1>9, WriteType DEF CommitDelete, TypeOK, Status
  <2>2. \A k \in Series \cup Admin : row[k] = "active" /\ Parent[k] \in flagged[r] => k \in flagged[r]
    BY <1>0, <1>9 DEF CommitDelete, Untangled, Cascade
  <2>3. Orphans(row') = {}
    BY <1>0, <2>1, <2>2 DEF Untangled, Orphans, Active
  <2>4. ~ Syncing /\ ~ Creating
    BY <1>0, <1>9 DEF CommitDelete, Untangled, Apart, Deleting
  <2>5. \A q \in Request : Founded(row', stage'[q], target'[q])
    BY <1>5, <1>9, <2>4 DEF CommitDelete, Founded, Creating
  <2>6. \A q \in Request : Cascade(row', stage'[q], target'[q], flagged'[q])
    BY <1>0, <1>5, <1>9, <2>1 DEF CommitDelete, Untangled, Cascade
  <2>7. Follows(row', seen', run', up', down')
    BY <1>9, <2>4 DEF CommitDelete, Syncing, syncing, Follows
  <2> QED BY <1>5, <1>9, <2>3, <2>5, <2>6, <2>7 DEF CommitDelete, Untangled
<1>10. ASSUME NEW r \in Request, Abandon(r) PROVE Untangled'
  BY <1>0, <1>5, <1>10, Others DEF Abandon, Founded, Cascade
<1>11. ASSUME NEW w \in [Key -> Line], ReadProducts(w) PROVE Untangled'
  <2>1. \A p \in Product : seen'[p] = row[p]
    BY <1>11 DEF ReadProducts, Load
  <2>2. Apart' /\ Follows(row', seen', run', up', down')
    BY <1>0, <1>11, <2>1
    DEF ReadProducts, Note, Untangled, Apart, Syncing, Creating, Deleting, edits, Follows
  <2> QED BY <1>0, <1>11, <2>2 DEF ReadProducts, Untangled, edits
<1>12. ASSUME ReadSeries PROVE Untangled'
  <2>1. \A k \in Key : seen'[k] = IF k \in Series THEN row[k] ELSE seen[k]
    BY <1>12 DEF ReadSeries, Load
  <2>2. Apart' /\ Follows(row', seen', run', up', down')
    BY <1>0, <1>12, <2>1
    DEF ReadSeries, Untangled, Apart, Syncing, Creating, Deleting, edits, Follows
  <2> QED BY <1>0, <1>12, <2>2 DEF ReadSeries, Untangled, edits
<1>13. ASSUME ReadAdmins PROVE Untangled'
  <2>1. \A k \in Key : seen'[k] = IF k \in Admin THEN row[k] ELSE seen[k]
    BY <1>13 DEF ReadAdmins, Load
  <2>2. Apart' /\ Follows(row', seen', run', up', down')
    BY <1>0, <1>13, <2>1
    DEF ReadAdmins, Untangled, Apart, Syncing, Creating, Deleting, edits, Follows
  <2> QED BY <1>0, <1>13, <2>2 DEF ReadAdmins, Untangled, edits
<1>14. ASSUME Apply PROVE Untangled'
  <2>1. Agree(seen, row) /\ Orphans(row) = {}
    BY <1>0, <1>14 DEF Apply, Untangled, Follows, Agree
  <2>2. Closed(row, up', down')
    BY <1>14, <2>1, PlanClosed DEF Apply, TypeOK
  <2>3. Apart' /\ Follows(row', seen', run', up', down')
    BY <1>0, <1>14, <2>2
    DEF Apply, Untangled, Apart, Syncing, Creating, Deleting, edits, Follows
  <2> QED BY <1>0, <1>14, <2>3 DEF Apply, Untangled, edits
<1>15. ASSUME CommitRun PROVE Untangled'
  <2>1. \A j \in Key : row'[j] = IF j \in up THEN "active" ELSE IF j \in down THEN "deleted" ELSE row[j]
    BY <1>15 DEF CommitRun
  <2>2. Closed(row, up, down) /\ up \cap down = {}
    BY <1>0, <1>15 DEF CommitRun, Untangled, Follows, TypeOK
  <2>3. Orphans(row') = {}
    BY <2>1, <2>2 DEF Closed, Orphans, Active
  <2>4. ~ Creating /\ ~ Deleting
    BY <1>0, <1>15 DEF CommitRun, Untangled, Apart, Syncing
  <2>5. Apart'
    BY <1>15, <2>4 DEF CommitRun, EndRun, Apart, Syncing, Creating, Deleting, edits
  <2>6. \A q \in Request : /\ Founded(row', stage'[q], target'[q])
                           /\ Cascade(row', stage'[q], target'[q], flagged'[q])
    BY <1>15, <2>4 DEF CommitRun, EndRun, Founded, Cascade, Creating, Deleting, edits
  <2>7. Follows(row', seen', run', up', down')
    BY <1>15 DEF CommitRun, EndRun, Follows
  <2> QED BY <2>3, <2>5, <2>6, <2>7 DEF Untangled
<1>16. ASSUME FailRun PROVE Untangled'
  <2>1. Apart' /\ Follows(row', seen', run', up', down')
    BY <1>0, <1>16 DEF FailRun, EndRun, Untangled, Apart, Syncing, Creating, Deleting, edits, Follows
  <2> QED BY <1>0, <1>16, <2>1 DEF FailRun, EndRun, Untangled, edits
<1>17. CASE UNCHANGED vars
  BY <1>0, <1>17, Harmless DEF vars
<1> QED
  BY <1>1, <1>2, <1>3, <1>4, <1>6, <1>7, <1>8, <1>9, <1>10, <1>11, <1>12, <1>13, <1>14,
     <1>15, <1>16, <1>17 DEF Next

\* No catalog with an orphan is reached without a deletion that overlaps the
\* creation of a child, or a sync run that overlaps either of them.
THEOREM OrphansNeedOverlap == Spec => []NoOrphans
<1>1. Init => OrphanInv
  BY InitTypes, InitUntangled DEF OrphanInv
<1>2. OrphanInv /\ [Next]_vars => OrphanInv'
  BY NextTypes, NextUntangled DEF OrphanInv
<1>3. OrphanInv => NoOrphans
  BY DEF OrphanInv, Untangled, NoOrphans
<1> QED BY <1>1, <1>2, <1>3, PTL DEF Spec
=============================================================================
