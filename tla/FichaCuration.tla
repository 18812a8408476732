--------------------------- MODULE FichaCuration ---------------------------
(***************************************************************************)
(* One catalog product as the cards of the ficha workbench show it, and    *)
(* what approving a card does to it: reviewTableShared.ts turns the stored *)
(* fractions into percent texts and back, catalog_curation.py writes what  *)
(* differs, series by series and administrator by administrator, each in a *)
(* statement of its own.  Meanwhile other cards, and the workbook sync,    *)
(* write the same rows.                                                    *)
(*                                                                         *)
(* A key is a series, or an administrator of a series (its parent); the    *)
(* parent of a series is the product.  One number stands for the numeric   *)
(* columns of a key.  Fractions are counted in units of which Grain make   *)
(* the last decimal the card shows.                                        *)
(*                                                                         *)
(* Of the product's own columns asset_class is modelled, the one a card    *)
(* cannot show whole: it has a list of classes with percentages, the card  *)
(* has the first class of the list.  Classes are taken as the seven keys   *)
(* of the page, however the catalog spells them.                           *)
(***************************************************************************)
EXTENDS Integers

CONSTANTS
  CardId, Key,
  Product,     \* the row of the product itself
  Parent,      \* administrator -> its series; series -> Product
  Allocation,  \* lists of classes with percentages
  Whole,       \* allocation -> its first class, at 100
  Null, Absent, Empty, Junk, NoRow, Unnamed,
  Grain,       \* units per shown decimal: Math.round(pct * 10000) / 10000
  MaxText,     \* largest number an admin types
  Stored,      \* what the product holds at first, by row
  Matches,     \* the similarities the parse can report, in hundredths
  MaxActs, MaxFaults

Row      == Key \cup {Product}
Fraction == 0..(MaxText * Grain)
Value    == Fraction \cup Allocation \cup {Null, Absent}
Text     == (0..MaxText) \cup {Empty, Junk}
Class    == {a \in Allocation : Whole[a] = a}

CurationAssumption ==
  /\ Parent \in [Key -> Row] /\ Product \notin Key
  /\ Whole \in [Allocation -> Allocation] /\ \A a \in Allocation : Whole[a] \in Class
  /\ Grain \in Nat \ {0} /\ Grain % 2 = 1 /\ MaxText \in Nat
  /\ Stored \in [Row -> Value] /\ Stored[Product] \in Allocation
  /\ \A k \in Key : Stored[k] \in Fraction \cup {Null, Absent}
  /\ Absent \notin Fraction \cup Allocation /\ Null \notin Allocation
  /\ Matches \subseteq 0..100 /\ MaxActs \in Nat /\ MaxFaults \in Nat

VARIABLES
  catalog,   \* the product and its rows
  born,      \* card -> the rows of the product its approve created, or Absent
  history,   \* catalog_product_history: <<card, row, value written>>
  written,   \* <<card, row, value>> that an approve put into the catalog: history
  lost,      \* those whose approve died before it could tell: history
  holding,   \* card -> "none", "linked" or "created": what its holding hangs from
  card,      \* what each card holds
  job,       \* where the approve request of a card is, and what it carries
  acts, faults

told == <<written, lost>>
vars == <<catalog, born, history, told, holding, card, job, acts, faults>>

NoJob == [at |-> "none", known |-> FALSE, sent |-> <<>>, seen |-> <<>>, left |-> {}]

-----------------------------------------------------------------------------
(* Numbers and texts.                                                      *)

\* Mutant: the fraction is shown as it is stored.
FormatRaw(v) == IF v = Null THEN Empty ELSE v

\* Mutant: cut off, not rounded.
FormatTruncated(v) == IF v = Null THEN Empty ELSE v \div Grain

\* fractionToPercentNumber, formatFractionValue: unknown shows as blank.
FormatFractionValue(v) == IF v = Null THEN Empty ELSE (v + Grain \div 2) \div Grain

\* percentToFraction, parsePlainNumber: blank and non-numeric are unknown.
PercentToFraction(t) == IF t \in {Empty, Junk} THEN Null ELSE t * Grain

\* toEditableSeriesRows, toEditableAdminRows
EditableRows(rows) ==
  [k \in Key |-> IF rows[k] = Absent THEN NoRow ELSE FormatFractionValue(rows[k])]

\* buildApproveRequest: the class at 100, a row per line of the two tables.  The
\* server passes over a line without a name.
Requested(table, class) ==
  [r \in Row |-> IF r = Product THEN class
                 ELSE IF table[r] \in {NoRow, Unnamed} THEN Absent
                 ELSE PercentToFraction(table[r])]

-----------------------------------------------------------------------------
(* What the parse attaches, and what a card makes of it.                   *)

\* _classify_match
Matched(sim) == sim >= 40
Level(sim, hasData, web) ==
  LET level == IF sim >= 60 THEN "alta" ELSE IF sim >= 40 THEN "media"
               ELSE IF sim > 0 \/ hasData THEN "baja" ELSE "sin_datos"
  IN  IF web /\ hasData /\ level = "baja" THEN "media" ELSE level

\* _search_catalog_v2: any hit over the trigram threshold of 0.1 attaches its
\* code and its series; _classify_match decides apart from that.
Enriched(sim, web) ==
  [code |-> sim > 10, matched |-> Matched(sim), level |-> Level(sim, TRUE, web),
   source |-> IF sim > 10 THEN "catalog" ELSE IF web THEN "web_search" ELSE "claude_knowledge"]

\* research_web_v2: independent of the catalog.
WebEnriched ==
  [code |-> FALSE, matched |-> FALSE, level |-> Level(0, TRUE, TRUE), source |-> "web_search"]

\* toEditableRow
EditableRow(e, rows) ==
  LET shown == IF e.code THEN EditableRows(rows) ELSE [k \in Key |-> NoRow]
  IN  [enriched |-> e, table |-> shown, first |-> shown,
       class |-> Whole[rows[Product]], origin |-> rows]

Init ==
  /\ catalog = Stored
  /\ born = [c \in CardId |-> Absent] /\ history = {} /\ written = {} /\ lost = {}
  /\ holding = [c \in CardId |-> "none"]
  /\ \E sim \in [CardId -> Matches], web \in [CardId -> BOOLEAN] :
       card = [c \in CardId |-> EditableRow(Enriched(sim[c], web[c]), Stored)]
  /\ job = [c \in CardId |-> NoJob]
  /\ acts = 0 /\ faults = 0

-----------------------------------------------------------------------------
(* The admin at a card.                                                    *)

Act(c) ==
  acts < MaxActs /\ acts' = acts + 1 /\ UNCHANGED <<catalog, born, history, told, holding, faults>>

SetTable(c, table) ==
  card' = [card EXCEPT ![c].table = table] /\ UNCHANGED job

\* SeriesTable, AdminTable: an input of a row.
EditNumber(c, k, t) ==
  /\ Act(c) /\ card[c].table[k] \notin {NoRow, Unnamed, t}
  /\ SetTable(c, [card[c].table EXCEPT ![k] = t])

\* "+ agregar serie", "+ agregar administrador", with the name typed in or not.
AddRow(c, k, t) ==
  /\ Act(c) /\ card[c].table[k] = NoRow
  /\ SetTable(c, [card[c].table EXCEPT ![k] = t])

RemoveRow(c, k) ==
  /\ Act(c) /\ card[c].table[k] # NoRow
  /\ SetTable(c, [card[c].table EXCEPT ![k] = NoRow])

\* The select of the class.
ChooseClass(c, a) ==
  /\ Act(c) /\ card[c].class # a
  /\ card' = [card EXCEPT ![c].class = a]
  /\ UNCHANGED job

\* researchRow, applyResearchToRow: the enriched block is replaced as a whole,
\* code and match included; the two tables stay, and the class as if the admin
\* chose the one that was found.
Research(c) ==
  /\ Act(c) /\ card[c].enriched # WebEnriched
  /\ card' = [card EXCEPT ![c].enriched = WebEnriched]
  /\ UNCHANGED job

\* approveRow, buildApproveRequest.  Approved once: a second press repeats it.
Approve(c) ==
  /\ Act(c) /\ job[c].at = "none" /\ holding[c] = "none"
  /\ job' = [job EXCEPT ![c] =
       [at |-> "read", known |-> card[c].enriched.code,
        sent |-> Requested(card[c].table, card[c].class), seen |-> <<>>, left |-> {}]]
  /\ UNCHANGED card

-----------------------------------------------------------------------------
(* approve_ficha_line: one statement after the other.                      *)

Server == UNCHANGED <<card, acts, faults>>

\* The lines of a request that change a row: of a number, only one that is given.
Differing(sent, rows) == {r \in Row : sent[r] \notin {Absent, Null} /\ rows[r] \notin {Absent, sent[r]}}

\* get_product_detail, and the diff of the product and of every row against what
\* was read.  A product deleted since the parse changes nothing, and the route
\* goes on to the holding.
Read(c) ==
  /\ job[c].at = "read" /\ job[c].known
  /\ job' = [job EXCEPT ![c].at = IF catalog[Product] = Absent THEN "hold" ELSE "write",
                        ![c].seen = catalog, ![c].left = Differing(job[c].sent, catalog)]
  /\ UNCHANGED <<catalog, born, history, told, holding>> /\ Server

\* The product, then the series, then the administrators.
Rank(r) == IF r = Product THEN 0 ELSE IF Parent[r] = Product THEN 1 ELSE 2
First(r, left) == r \in left /\ \A x \in left : Rank(r) <= Rank(x)

\* update_product, update_series, update_admin: a row deleted since is passed over.
Write(c, r) ==
  /\ job[c].at = "write" /\ First(r, job[c].left)
  /\ IF catalog[r] = Absent
     THEN UNCHANGED <<catalog, written>>
     ELSE /\ catalog' = [catalog EXCEPT ![r] = job[c].sent[r]]
          /\ written' = written \cup {<<c, r, job[c].sent[r]>>}
  /\ job' = [job EXCEPT ![c].left = @ \ {r}]
  /\ UNCHANGED <<born, history, lost, holding>> /\ Server

Changes(c) == {<<c, r, job[c].sent[r]>> : r \in Differing(job[c].sent, job[c].seen)}

\* Mutant: recorded before the statements.
RecordFirst(c) ==
  /\ job[c].at = "write"
  /\ history' = history \cup Changes(c)
  /\ job' = [job EXCEPT ![c].at = IF job[c].left = {} THEN "hold" ELSE "write"]
  /\ UNCHANGED <<catalog, born, told, holding>> /\ Server

\* history_repo.record: one row with all the changes; none, no row.
Record(c) ==
  /\ job[c].at = "write" /\ job[c].left = {}
  /\ history' = history \cup Changes(c)
  /\ job' = [job EXCEPT ![c].at = "hold"]
  /\ UNCHANGED <<catalog, born, told, holding>> /\ Server

\* create_catalog_product_from_ficha: the product, then its series, then its
\* administrators.
Create(c) ==
  /\ job[c].at = "read" /\ ~job[c].known
  /\ born' = [born EXCEPT ![c] = [r \in Row |-> IF r = Product THEN job[c].sent[r] ELSE Absent]]
  /\ job' = [job EXCEPT ![c].at = "create",
                        ![c].left = {k \in Key : job[c].sent[k] # Absent}]
  /\ UNCHANGED <<catalog, history, told, holding>> /\ Server

CreateRow(c, k) ==
  /\ job[c].at = "create" /\ First(k, job[c].left)
  /\ born[c][Parent[k]] # Absent
  /\ born' = [born EXCEPT ![c][k] = job[c].sent[k]]
  /\ job' = [job EXCEPT ![c].left = @ \ {k}]
  /\ UNCHANGED <<catalog, history, told, holding>> /\ Server

\* _require_active: an administrator of a series the table does not have.
\* The request fails; what was created stays.
RefuseRow(c, k) ==
  /\ job[c].at = "create" /\ First(k, job[c].left)
  /\ born[c][Parent[k]] = Absent
  /\ job' = [job EXCEPT ![c] = NoJob]
  /\ UNCHANGED <<catalog, born, history, told, holding>> /\ Server

RecordCreate(c) ==
  /\ job[c].at = "create" /\ job[c].left = {}
  /\ history' = history \cup {<<c, Product, Null>>}
  /\ job' = [job EXCEPT ![c].at = "hold"]
  /\ UNCHANGED <<catalog, born, told, holding>> /\ Server

\* product_repo.create
Hold(c) ==
  /\ job[c].at = "hold"
  /\ holding' = [holding EXCEPT ![c] = IF job[c].known THEN "linked" ELSE "created"]
  /\ job' = [job EXCEPT ![c].at = "done"]
  /\ UNCHANGED <<catalog, born, history, told>> /\ Server

\* A lost connection or a crash between two statements: the admin sees nothing
\* (the page swallows the error) and may approve again.  What this approve had
\* already written it will not tell of: a repeated one finds it in place.
Crash(c) ==
  /\ faults < MaxFaults /\ job[c].at \notin {"none", "done"}
  /\ faults' = faults + 1
  /\ lost' = IF job[c].at # "write" THEN lost
             ELSE lost \cup {w \in written : w[1] = c /\ w \notin history}
  /\ job' = [job EXCEPT ![c] = NoJob]
  /\ UNCHANGED <<catalog, born, history, written, holding, card, acts>>

Meanwhile ==
  /\ faults < MaxFaults /\ faults' = faults + 1
  /\ UNCHANGED <<born, history, told, holding, card, job, acts>>

\* The workbook sync or the catalog screens write a number or the classes.
Sync(r, v) ==
  /\ Meanwhile /\ catalog[r] \notin {Absent, v}
  /\ catalog' = [catalog EXCEPT ![r] = v]

\* delete_product, delete_series, delete_admin: the row and what hangs from it.
Delete(r) ==
  /\ Meanwhile /\ catalog[r] # Absent
  /\ LET gone == IF r = Product THEN Row ELSE {r} \cup {x \in Key : Parent[x] = r}
     IN  catalog' = [x \in Row |-> IF x \in gone THEN Absent ELSE catalog[x]]

Next ==
  \/ \E c \in CardId, k \in Key :
       \/ \E t \in Text : EditNumber(c, k, t)
       \/ \E t \in {Empty, Unnamed} : AddRow(c, k, t)
       \/ RemoveRow(c, k) \/ CreateRow(c, k) \/ RefuseRow(c, k)
  \/ \E c \in CardId, r \in Row : Write(c, r)
  \/ \E c \in CardId, a \in Class : ChooseClass(c, a)
  \/ \E c \in CardId :
       Research(c) \/ Approve(c) \/ Read(c) \/ Record(c) \/ Create(c)
         \/ RecordCreate(c) \/ Hold(c) \/ Crash(c)
  \/ \E k \in Key, v \in Fraction : Sync(k, v)
  \/ \E a \in Allocation : Sync(Product, a)
  \/ \E r \in Row : Delete(r)

Spec == Init /\ [][Next]_vars

-----------------------------------------------------------------------------
(* Properties.                                                             *)

Rows == [Row -> Value]

\* Types; a request that has not read the product has nothing left to write,
\* and a card never sends a number outside the columns' range.
TypeOK ==
  /\ catalog \in Rows
  /\ \A c \in CardId :
       /\ born[c] = Absent \/ born[c] \in Rows
       /\ holding[c] \in {"none", "linked", "created"}
       /\ card[c].table \in [Key -> Text \cup {NoRow, Unnamed}] /\ card[c].class \in Class
       /\ job[c].at \in {"none", "read", "write", "create", "hold", "done"}
       /\ job[c].left \subseteq Row
       /\ job[c].at # "none" => job[c].sent \in Rows

Near(v, w) == v \in Fraction /\ w \in Fraction /\ 2 * (v - w) < Grain /\ 2 * (w - v) < Grain

\* An approve changes a row of the catalog for one of three reasons: the admin
\* edited it on the card, it changed under the card after the parse (it is
\* written back), or the card cannot show what is stored.  A number it shows
\* rounded, and it changes by less than half of what is shown; of the classes
\* it shows the first, and they change to that one at 100.
UntouchedKept ==
  [][\A c \in CardId, r \in Row :
       (job'[c].left # job[c].left /\ catalog'[r] # catalog[r])
         => \/ job[c].sent[r] # Requested(card[c].first, Whole[card[c].origin[Product]])[r]
            \/ catalog[r] # card[c].origin[r]
            \/ Near(catalog'[r], catalog[r])
            \/ r = Product /\ catalog'[r] = Whole[catalog[r]]]_vars

\* Does not hold: classes that nobody touched keep their percentages.
ClassesKept ==
  [][\A c \in CardId :
       (job'[c].left # job[c].left /\ catalog'[Product] # catalog[Product])
         => \/ job[c].sent[Product] # Whole[card[c].origin[Product]]
            \/ catalog[Product] # card[c].origin[Product]]_vars

\* A holding exists only when its approve has done with the catalog: a created
\* product has every row of the table that has a name, however the requests
\* before it died, and a matched one has in its history all that the approve
\* found different.  It found nothing in a product that was deleted since the
\* parse: the holding is made all the same, and what the admin edited is dropped.
HoldingIsComplete ==
  \A c \in CardId :
    /\ holding[c] = "created" =>
         \A r \in Row : job[c].sent[r] # Absent => born[c][r] = job[c].sent[r]
    /\ holding[c] = "linked" => Changes(c) \subseteq history

\* What an approve changed stands in the product's history as soon as the
\* approve is through, unless it died in between; and the history tells of no
\* change that was not made, unless its row was deleted meanwhile.
ChangesAreTold ==
  /\ \A w \in written \ (history \cup lost) : job[w[1]].at = "write"
  /\ \A h \in history \ written : h[3] = Null \/ catalog[h[2]] = Absent

\* No row without its parent in a product made from a card.
BornHasParents ==
  \A c \in CardId, k \in Key :
    (born[c] # Absent /\ born[c][k] # Absent) => born[c][Parent[k]] # Absent

\* A product made from a card may be left half made, by a refused row or a
\* crash; it then has no holding, and never a row without its parent.
HoldingIsWhole == HoldingIsComplete /\ ChangesAreTold /\ BornHasParents
=============================================================================
