--------------------------- MODULE CatalogScreens ---------------------------
(* The forms of the flat catalog, or the page of the normalized one.  They   *)
(* share nothing, so a behaviour exercises one of them and the other stands  *)
(* still.                                                                    *)

CONSTANTS
  \* those of CatalogForms
  Text, Words, Alloc, Options, Percents, Who, Names, Scores, Alts, Rates,
  Number, Readable, Trims, Entities, Rows, Excel, Order, MaxRows, Budgets,
  MaxWrites,
  \* those of NormalizedPage
  Codes, Series, Admins, Terms, MaxTasks, MaxFaults,
  Typeable,  \* its Value
  Unnamed,   \* its Blank
  Tree,      \* its Stored
  MaxSaves,  \* its MaxWrites
  Nil        \* None of both

VARIABLES
  screen,    \* "forms" or "page"
  row, born, entity, known, pending, locking, mode, form, call, writes, edits,
  val, term, products, loading, listError, code, detail, detailError,
  observations, modal, dialog, deleting, tasks, clouded, spent

formVars == <<row, born, entity, known, pending, locking, mode, form, call, writes, edits>>
pageVars == <<val, term, products, loading, listError, code, detail, detailError,
              observations, modal, dialog, deleting, tasks, clouded, spent>>

F == INSTANCE CatalogForms WITH None <- Nil, lists <- known, managed <- locking

P == INSTANCE NormalizedPage WITH
       None <- Nil, Value <- Typeable, Blank <- Unnamed, Stored <- Tree,
       MaxWrites <- MaxSaves,
       fetching <- loading, selected <- code

ASSUME ScreensInstance == F!FormsAssumption /\ P!PageAssumption

\* While the page is exercised the forms stand in one of their first states.
ScreenInit ==
  /\ screen \in {"forms", "page"} /\ F!Init /\ P!Init
  /\ screen = "page" => edits = CHOOSE b \in Budgets : TRUE
ScreenNext ==
  /\ UNCHANGED screen
  /\ \/ screen = "forms" /\ F!Next /\ UNCHANGED pageVars
     \/ screen = "page" /\ P!Next /\ UNCHANGED formVars
ScreenSpec == ScreenInit /\ [][ScreenNext]_<<screen, formVars, pageVars>>

\* The type invariants of the forms and of the page.
ScreenTypeOK == F!TypeOK /\ P!TypeOK

\* What the form lets through the server accepts, scores with decimals apart,
\* and a name that was chosen carries its score unless a list came after it
\* (EditCatalogModal, CreateCatalogModal.tsx, db/models.py).
FormIsSound == F!FormIsSound

\* A product with a code keeps what the Excel owns (isFieldReadOnly).
ExcelKept == F!ExcelKept

\* What was saved is complete, and is what is shown when it is opened again
\* (handleSave of both forms, getObservations).
SavedIsShown == F!SavedIsShown

\* False of the code: the exception of FormIsSound (EditCatalogModal).
EveryChosenScore == F!EveryChosenScore

\* False of the code: an exception of SavedIsShown (parseReturnRate).
EveryRateIsShown == F!EveryRateIsShown

\* The page of the normalized catalog shows what the server has once nothing
\* is under way, and never waits for nothing (catalogo-normalizado/page.tsx).
PageSettles == P!PageSettles
=============================================================================
