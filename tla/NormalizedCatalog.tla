------------------------- MODULE NormalizedCatalog -------------------------
(***************************************************************************)
(* The normalized catalog (products, their series, the administrators of a *)
(* series): the administration routes that create and delete rows          *)
(* (db/catalog_normalized.py) and the sync run that makes the tables match *)
(* the workbook (catalog_normalized_sync).  Deleting only flags a row.     *)
(*                                                                         *)
(* A key stands for its row; the other columns, and the updates that only  *)
(* write them, are left out.  Every SQL statement is a step.  Only one     *)
(* sync runs at a time: that, and the hash that skips one, is SyncRuns.    *)
(***************************************************************************)
EXTENDS Integers, FiniteSets

CONSTANTS
  Product, Series, Admin,   \* business keys of the three tables
  Parent,                   \* series -> product, administrator -> series
  NoKey,
  Request,                  \* administration requests that may overlap
  Num, Den,                 \* MAX_DELETE_RATIO
  MaxOps                    \* bound on edits and sync runs

Key == Product \cup Series \cup Admin

ASSUME CatalogAssumption ==
  /\ Product \cap Series = {} /\ Product \cap Admin = {} /\ Series \cap Admin = {}
  /\ Parent \in [Series \cup Admin -> Product \cup Series]
  /\ \A s \in Series : Parent[s] \in Product
  /\ \A a \in Admin : Parent[a] \in Series
  /\ NoKey \notin Key
  /\ Num \in Nat /\ Den \in Nat \ {0} /\ MaxOps \in Nat

Status == {"none", "active", "deleted"}

\* What parse_workbook finds of a key: no line, one it can read, or one with
\* a bad value (skipped, with its key).
Line == {"absent", "good", "bad"}

VARIABLES
  row,       \* the committed rows
  stage,     \* what each administration request does next
  target,    \* the key it creates or deletes
  flagged,   \* the rows its open transaction has flagged, and locks
  run,       \* where the sync run is
  sheet,     \* the workbook it downloaded
  seen,      \* the rows list_for_sync has read
  up, down,  \* rows its open transaction has written, and locks
  ops,       \* spent so far
  tangled    \* history: did operations overlap that must not?

edits   == <<stage, target, flagged>>
syncing == <<run, sheet, seen, up, down>>
vars == <<row, edits, syncing, ops, tangled>>

-----------------------------------------------------------------------------
(* diff_workbook, from the rows t it was given and the workbook w *)

Active(t) == {k \in Key : t[k] = "active"}
Present(w) == {k \in Key : w[k] # "absent"}
Readable(w) == {k \in Key : w[k] = "good"}

\* Read, or only unreadable and already in use.
Known(t, w) == Readable(w) \cup (Present(w) \cap Active(t))

ProductCodes(t, w) == Product \cap Known(t, w)

\* Mutant: an administrator whose series has no line is dropped.
NoImplicitSeries(t, w) == {}

ImplicitSeries(t, w) ==
  {s \in Series \ Readable(w) :
     /\ Parent[s] \in ProductCodes(t, w)
     /\ \E a \in Admin \cap Readable(w) : Parent[a] = s}

SeriesKeys(t, w) ==
  {s \in Series \cap Known(t, w) : Parent[s] \in ProductCodes(t, w)}
    \cup ImplicitSeries(t, w)

\* The lines that are not ignored, and the series created for one.
Accepted(t, w) ==
  ImplicitSeries(t, w) \cup
  {k \in Readable(w) :
     /\ k \in Series => Parent[k] \in ProductCodes(t, w)
     /\ k \in Admin  => Parent[k] \in SeriesKeys(t, w)}

Inserts(t, w)  == {k \in Accepted(t, w) : t[k] = "none"}
Restores(t, w) == {k \in Accepted(t, w) : t[k] = "deleted"}

Missing(t, w) == Active(t) \ (Present(w) \cup ImplicitSeries(t, w))

\* _delete_guard looks at one level at a time.
Blocked(t, w) ==
  \E level \in {Product, Series, Admin} :
    Cardinality(Missing(t, w) \cap level) * Den > Cardinality(Active(t) \cap level) * Num

\* Mutant: a product does not take its series along.
GoneSeriesOnly(t, w) == Series \cap Missing(t, w)

GoneSeries(t, w) ==
  {s \in Series \cap Active(t) : {s, Parent[s]} \cap Missing(t, w) # {}}

GoneAdmins(t, w) ==
  {a \in Admin \cap Active(t) : \/ {a, Parent[Parent[a]]} \cap Missing(t, w) # {}
                                \/ Parent[a] \in GoneSeries(t, w)}

Deletes(t, w) ==
  IF Blocked(t, w) THEN {}
  ELSE (Product \cap Missing(t, w)) \cup GoneSeries(t, w) \cup GoneAdmins(t, w)

-----------------------------------------------------------------------------
Orphans(t) == {k \in (Series \cup Admin) \cap Active(t) : t[Parent[k]] # "active"}

NoLines == [k \in Key |-> "absent"]
NoRows  == [k \in Key |-> "none"]

\* Any catalog in which what hangs from a deleted row is deleted too.
Init ==
  /\ row \in {t \in [Key -> Status] :
                \A k \in Series \cup Admin :
                  /\ t[Parent[k]] = "none" => t[k] = "none"
                  /\ t[Parent[k]] = "deleted" => t[k] # "active"}
  /\ stage   = [r \in Request |-> "idle"]
  /\ target  = [r \in Request |-> NoKey]
  /\ flagged = [r \in Request |-> {}]
  /\ run = "idle" /\ sheet = NoLines /\ seen = NoRows /\ up = {} /\ down = {}
  /\ ops = 0 /\ tangled = FALSE

Begin == ops < MaxOps /\ ops' = ops + 1

\* Rows an open transaction has written: others wait for them.
Locked == up \cup down \cup UNION {flagged[r] : r \in Request}

Creating == \E r \in Request : stage[r] = "insert"
Deleting == \E r \in Request : stage[r] \in {"series", "admins", "commit"}
Syncing  == run # "idle"

Note(overlap) == tangled' = (tangled \/ overlap)

Write(K, status) == row' = [k \in Key |-> IF k \in K THEN status ELSE row[k]]

-----------------------------------------------------------------------------
(* Administration: db/catalog_normalized.py *)

\* INSERT ... ON CONFLICT: a deleted row comes back, an active one is an error.
CreateProduct(k) ==
  /\ k \notin Locked
  /\ row[k] # "active"
  /\ Begin
  /\ Write({k}, "active")
  /\ UNCHANGED <<edits, syncing, tangled>>

\* create_series and create_admin look for an active parent first.
CheckParent(r, k) ==
  /\ stage[r] = "idle"
  /\ row[Parent[k]] = "active"
  /\ Begin
  /\ stage'  = [stage EXCEPT ![r] = "insert"]
  /\ target' = [target EXCEPT ![r] = k]
  /\ Note(Deleting \/ Syncing)
  /\ UNCHANGED <<row, flagged, syncing>>

\* The request of r is answered, its transaction over.
Answer(r) ==
  /\ stage'   = [stage EXCEPT ![r] = "idle"]
  /\ target'  = [target EXCEPT ![r] = NoKey]
  /\ flagged' = [flagged EXCEPT ![r] = {}]

CreateChild(r) ==
  /\ stage[r] = "insert"
  /\ target[r] \notin Locked
  /\ Write({target[r]}, "active")
  /\ Answer(r)
  /\ UNCHANGED <<syncing, ops, tangled>>

DeleteAdmin(k) ==
  /\ k \notin Locked
  /\ row[k] = "active"
  /\ Begin
  /\ Write({k}, "deleted")
  /\ UNCHANGED <<edits, syncing, tangled>>

\* delete_product and delete_series: a transaction with a statement per table.
DeleteTarget(r, k) ==
  /\ stage[r] = "idle"
  /\ k \notin Locked
  /\ row[k] = "active"
  /\ Begin
  /\ stage'   = [stage EXCEPT ![r] = IF k \in Product THEN "series" ELSE "admins"]
  /\ target'  = [target EXCEPT ![r] = k]
  /\ flagged' = [flagged EXCEPT ![r] = {k}]
  /\ Note(Creating \/ Syncing)
  /\ UNCHANGED <<row, syncing>>

\* Mutant: a statement does not wait for the rows others have written.
FlagRegardless(r, K) ==
  /\ flagged' = [flagged EXCEPT ![r] = @ \cup K]
  /\ UNCHANGED <<row, target, syncing, ops, tangled>>

Flag(r, K) ==
  /\ (K \ flagged[r]) \cap Locked = {}
  /\ flagged' = [flagged EXCEPT ![r] = @ \cup K]
  /\ UNCHANGED <<row, target, syncing, ops, tangled>>

FlagSeries(r) ==
  /\ stage[r] = "series"
  /\ stage' = [stage EXCEPT ![r] = "admins"]
  /\ Flag(r, {s \in Series \cap Active(row) : Parent[s] = target[r]})

FlagAdmins(r) ==
  /\ stage[r] = "admins"
  /\ stage' = [stage EXCEPT ![r] = "commit"]
  /\ Flag(r, {a \in Admin \cap Active(row) : target[r] \in {Parent[a], Parent[Parent[a]]}})

CommitDelete(r) ==
  /\ stage[r] = "commit"
  /\ Write(flagged[r], "deleted")
  /\ Answer(r)
  /\ UNCHANGED <<syncing, ops, tangled>>

\* The connection is lost: nothing was written, or all of it is rolled back.
Abandon(r) ==
  /\ stage[r] # "idle"
  /\ Answer(r)
  /\ UNCHANGED <<row, syncing, ops, tangled>>

-----------------------------------------------------------------------------
(* The sync run: service.py, list_for_sync, apply_changeset *)

Load(level) == seen' = [k \in Key |-> IF k \in level THEN row[k] ELSE seen[k]]

\* Some workbook is downloaded and parsed; the products are read.
ReadProducts(w) ==
  /\ run = "idle"
  /\ Begin
  /\ run' = "series"
  /\ sheet' = w
  /\ Load(Product)
  /\ Note(Creating \/ Deleting)
  /\ UNCHANGED <<row, edits, up, down>>

ReadSeries ==
  /\ run = "series"
  /\ run' = "admins"
  /\ Load(Series)
  /\ UNCHANGED <<row, edits, sheet, up, down, ops, tangled>>

ReadAdmins ==
  /\ run = "admins"
  /\ run' = "apply"
  /\ Load(Admin)
  /\ UNCHANGED <<row, edits, sheet, up, down, ops, tangled>>

\* The statements of apply_changeset.  A plain INSERT of a key that is there
\* by now violates UNIQUE, and the run fails; deletes only touch active rows.
Apply ==
  /\ run = "apply"
  /\ \A k \in Inserts(seen, sheet) : row[k] = "none"
  /\ up'   = Inserts(seen, sheet) \cup Restores(seen, sheet)
  /\ down' = Deletes(seen, sheet) \cap Active(row)
  /\ (up' \cup down') \cap Locked = {}
  /\ run' = "commit"
  /\ UNCHANGED <<row, edits, sheet, seen, ops, tangled>>

EndRun ==
  /\ run' = "idle" /\ sheet' = NoLines /\ seen' = NoRows /\ up' = {} /\ down' = {}
  /\ UNCHANGED <<edits, ops, tangled>>

CommitRun ==
  /\ run = "commit"
  /\ row' = [k \in Key |-> IF k \in up THEN "active" ELSE IF k \in down THEN "deleted" ELSE row[k]]
  /\ EndRun

\* A UNIQUE violation, an error or a crash at any point.
FailRun ==
  /\ run # "idle"
  /\ row' = row
  /\ EndRun

-----------------------------------------------------------------------------
Next ==
  \/ \E k \in Product : CreateProduct(k)
  \/ \E k \in Admin : DeleteAdmin(k)
  \/ \E r \in Request :
       \/ \E k \in Series \cup Admin : CheckParent(r, k)
       \/ \E k \in Product \cup Series : DeleteTarget(r, k)
       \/ CreateChild(r) \/ FlagSeries(r) \/ FlagAdmins(r) \/ CommitDelete(r) \/ Abandon(r)
  \/ \E w \in [Key -> Line] : ReadProducts(w)
  \/ ReadSeries \/ ReadAdmins \/ Apply \/ CommitRun \/ FailRun

Spec == Init /\ [][Next]_vars

-----------------------------------------------------------------------------
(* Properties *)

\* Statuses and stages are those of the code, and no two open transactions
\* have written the same row.
TypeOK ==
  /\ row \in [Key -> Status] /\ seen \in [Key -> Status] /\ sheet \in [Key -> Line]
  /\ stage \in [Request -> {"idle", "insert", "series", "admins", "commit"}]
  /\ target \in [Request -> Key \cup {NoKey}]
  /\ flagged \in [Request -> SUBSET Key]
  /\ run \in {"idle", "series", "admins", "apply", "commit"}
  /\ up \in SUBSET Key /\ down \in SUBSET Key
  /\ ops \in 0..MaxOps /\ tangled \in BOOLEAN
  /\ up \cap down = {}
  /\ \A r \in Request : flagged[r] \cap (up \cup down) = {}
  /\ \A q, r \in Request : q # r => flagged[q] \cap flagged[r] = {}

\* An active series or administrator hangs from active rows.  No catalog with
\* an orphan is reached by edits and sync runs one after the other, nor by
\* creations among themselves, deletions among themselves, or a sync run with
\* edits that create a product or delete an administrator; only a deletion
\* that overlaps the creation of a child, or a sync run either of them, can.
NoOrphans == ~ tangled => Orphans(row) = {}

\* What the workbook asks for: the lines it can read and the unreadable ones
\* already in use, as far as their parents are there; a series also because
\* an administrator names it.
Wanted(t, w) ==
  LET known == {k \in Key : w[k] = "good" \/ (w[k] = "bad" /\ t[k] = "active")}
      products == known \cap Product
      series == {s \in Series : /\ Parent[s] \in products
                                /\ \/ s \in known
                                   \/ \E a \in Admin : w[a] = "good" /\ Parent[a] = s}
  IN  products \cup series \cup {a \in known \cap Admin : Parent[a] \in series}

\* Whoever overlaps the run, what it is about to write to the catalog it read
\* makes that catalog what the workbook asks for, or adds that to it when the
\* deletes are held back; provided it read no orphan.
MatchesWorkbook ==
  run = "apply" /\ Orphans(seen) = {} =>
    LET added  == Inserts(seen, sheet) \cup Restores(seen, sheet)
        result == (Active(seen) \cup added) \ Deletes(seen, sheet)
    IN  result = Wanted(seen, sheet) \cup (IF Blocked(seen, sheet) THEN Active(seen) ELSE {})

\* "A row that is in the workbook but could not be read still counts as
\* present, so it is never deleted for that": had the line been readable, the
\* row would be deleted as well.
NeverDeletedForABadValue ==
  run = "apply" =>
    \A k \in Deletes(seen, sheet) :
      sheet[k] = "bad" => k \in Deletes(seen, [sheet EXCEPT ![k] = "good"])
=============================================================================
