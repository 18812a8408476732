----------------------------- MODULE FichaPage -----------------------------
(* The fichas: their review on the page, and what the approval of one card   *)
(* does to the normalized catalog.  Review and curation share no state: a    *)
(* behaviour exercises one of them and the other stands still.               *)
EXTENDS FichaReview

CONSTANTS
  \* those of FichaCuration
  CardId, Key, Product, Parent, Allocation, Whole, Null, Absent, Empty, Junk, NoRow, Unnamed,
  Grain, MaxText, Matches,
  StoredRows,    \* its Stored
  MaxCardActs,   \* its MaxActs
  MaxCardFaults  \* its MaxFaults

VARIABLES
  side,     \* "review" or "curation"
  catalog, born, history, written, lost, holding, card, job, cActs, cFaults

cVars == <<catalog, born, history, written, lost, holding, card, job, cActs, cFaults>>

C == INSTANCE FichaCuration WITH
       acts <- cActs, faults <- cFaults, Stored <- StoredRows,
       MaxActs <- MaxCardActs, MaxFaults <- MaxCardFaults

ASSUME CurationInstance == C!CurationAssumption

FichaInit ==
  /\ side \in {"review", "curation"} /\ Init /\ C!Init
  /\ side = "review" =>
       \A c \in CardId : card[c] = C!EditableRow(C!Enriched(0, FALSE), StoredRows)
FichaNext ==
  /\ UNCHANGED side
  /\ \/ side = "review" /\ Next /\ UNCHANGED cVars
     \/ side = "curation" /\ C!Next /\ UNCHANGED vars
FichaSpec == FichaInit /\ [][FichaNext]_<<side, vars, cVars>>

\* The type invariants of the review and of the curation.
FichaTypeOK == TypeOK /\ C!TypeOK

\* A holding comes after all of its approve's work on the catalog; what an approve
\* changed is in the history unless the request died in between; a product made
\* from a card has no row without its parent (catalog_curation.py,
\* admin_routes.py).
HoldingIsWhole == C!HoldingIsWhole

\* An approve changes what nobody touched no further than the card's rounding of
\* numbers, and its reducing a list of classes to the first one
\* (reviewTableShared.ts, catalog_curation.py).
UntouchedKept == C!UntouchedKept

\* Does not hold: an approve keeps the percentages of classes nobody touched.
ClassesKept == C!ClassesKept
=============================================================================
