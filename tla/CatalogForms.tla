---------------------------- MODULE CatalogForms ----------------------------
(***************************************************************************)
(* The forms that edit and create a product of the flat catalog: their     *)
(* fields, the checks that hold the button back, the delta the edit form   *)
(* sends, and the row the server makes of it (EditCatalogModal of          *)
(* app/admin/catalog/page.tsx, CreateCatalogModal.tsx,                     *)
(* catalogFormShared.tsx, AllocationListField.tsx, catalogObservations.ts, *)
(* db/models.py, db/catalog_repository.py).                                *)
(*                                                                         *)
(* One product is edited and others are created.  The lists of names are   *)
(* read once by each form; the list of the fields the Excel owns is read   *)
(* by the page.  At most one save is on its way, and what is typed         *)
(* meanwhile, which the save does not see, is left out.  The product under *)
(* the edit form is the server's: other writers, and a PATCH whose answer  *)
(* is lost, are CatalogPage's.                                             *)
(***************************************************************************)
EXTENDS Integers, FiniteSets, Sequences, FiniteSetsExt, SequencesExt, Functions, TLC

CONSTANTS
  Text,      \* required text fields: name, commission, currency
  Words,     \* what may be typed in them, "" apart
  Alloc,     \* fields that hold an allocation
  Options,   \* the names an allocation may use
  Percents,  \* percentages typed, in tenths
  Who,       \* administrator and manager
  Names,     \* names typed instead of chosen
  Scores,    \* scores typed, in tenths
  Alts,      \* alternative names
  Rates,     \* texts of a rate, as a number input holds them
  Number,    \* rate -> its value
  Readable,  \* the rates in digits, with decimals or none
  Trims,     \* texts with blanks around them -> the same without
  Entities,  \* who -> name -> [score, fixed], as the server has them at first
  Rows,      \* rows the edited product may have at first
  Excel,     \* fields the Excel owns
  None,
  Order,     \* bound: the order in which the fields of a new product are filled,
             \* <<>> for any: what is typed in one has no effect on another
  MaxRows,   \* bound on the rows of an allocation
  Budgets,   \* bounds on the inputs used: each says, for each mode, how many
  MaxWrites  \* bound on the products written

Field == Text \cup Alloc \cup Who \cup {"alternative_names", "return_rate"}

\* A score from 1 to 10, and those the server's int takes.
Mark  == 10 .. 100
Grade == {s \in Mark : s % 10 = 0}

\* A product as the table may hold it.  The Excel may bring a name of an
\* allocation twice, or one outside the lists.
IsAllocation(rows) == rows \in Seq([name : {rows[i].name : i \in DOMAIN rows}, pct : 0 .. 1000])
IsProduct(r) ==
  /\ r = [f |-> r.f, score |-> r.score, coded |-> r.coded]
  /\ r.f = [k \in Field |-> r.f[k]]
  /\ r.score \in [Who -> Grade \cup {None}] /\ r.coded \in BOOLEAN
  /\ \A k \in Alloc : IsAllocation(r.f[k])
  /\ r.f["return_rate"] \in {None} \cup Seq(Rates)

\* The administrators and the managers.
IsDirectory(e) ==
  /\ DOMAIN e = Who
  /\ \A w \in Who : e[w] \in [DOMAIN e[w] -> [score : Grade \cup {None}, fixed : BOOLEAN]]

FormsAssumption ==
  /\ Text \cap Alloc = {} /\ Text \cap Who = {} /\ Alloc \cap Who = {}
  /\ {"alternative_names", "return_rate"} \cap (Text \cup Alloc \cup Who) = {}
  /\ {"name", "commission"} \subseteq Text /\ "asset_class" \in Alloc /\ Excel \subseteq Field
  /\ \A r \in Rows : IsProduct(r)
  /\ Entities = [w \in Who |-> Entities[w]] /\ IsDirectory(Entities)
  /\ Scores \subseteq Int /\ Percents \subseteq 0 .. 1000
  /\ Number \in [Rates -> Int] /\ Readable \subseteq Rates
  /\ None \notin Int \cup Rates \cup Seq(Rates) \cup {"edit", "create"}
  /\ Order \in Seq(Field) /\ MaxRows \in Nat /\ MaxWrites \in Nat /\ Budgets \subseteq [{"edit", "create"} -> Nat]

VARIABLES
  row,      \* the edited product on the server
  born,     \* products created
  entity,   \* who -> name -> [score, fixed]: the server's
  lists,    \* mode -> the same, as its form read them
  pending,  \* mode -> the lists its form waits for
  managed,  \* the page has the list of the fields the Excel owns
  mode,     \* "edit", "create" or None
  form,     \* the fields, their scores, which names are being typed, and which
            \* of those chosen lost their score to a list that came later
  call,     \* the save on its way, or None
  writes,   \* products written
  edits     \* mode -> inputs left

vars == <<row, born, entity, lists, pending, managed, mode, form, call, writes, edits>>

Modes == {"edit", "create"}
NoLists == [w \in Who |-> [n \in {} |-> None]]
Form(f, score) == [f |-> f, score |-> score, draft |-> {}, reset |-> {}]
Blank ==
  Form([k \in Field |-> CASE k \in Text \cup Who   -> ""
                          [] k = "return_rate"     -> <<None, None>>
                          [] OTHER                 -> <<>>],
       [w \in Who |-> None])

Init ==
  /\ row \in Rows /\ born = <<>> /\ entity = Entities
  /\ lists = [m \in Modes |-> NoLists]
  /\ pending = [edit |-> Who, create |-> {}] /\ managed = FALSE
  /\ mode = None /\ form = Blank /\ call = None /\ writes = 0 /\ edits \in Budgets

-----------------------------------------------------------------------------
(* What the form shows and checks.                                         *)

\* isFieldReadOnly
ReadOnly(k) == mode = "edit" /\ row.coded /\ managed /\ k \in Excel

\* parseReturnRate: anything but "a%" and "a% - b%", in digits, shows as blank.
ParseRate(raw) ==
  IF raw = None \/ raw = <<>> \/ (\E i \in DOMAIN raw : raw[i] \notin Readable) THEN <<None, None>>
  ELSE <<raw[1], IF Len(raw) = 2 THEN raw[2] ELSE None>>

\* Mutant: the maximum is not written.
MinimumOnly(r) == IF r[1] = None THEN <<>> ELSE <<r[1]>>

WriteRate(r) == IF r[1] = None THEN <<>> ELSE IF r[2] = None THEN <<r[1]>> ELSE r

Shown(r) == [r.f EXCEPT !["return_rate"] = ParseRate(@)]

Fixed(l, n) == n \in DOMAIN l /\ l[n].fixed

\* prefillScore
Prefill(r, l) ==
  [w \in Who |-> IF r.score[w] = None /\ Fixed(l[w], r.f[w]) THEN l[w][r.f[w]].score ELSE r.score[w]]

AllocationSum(rows) ==
  LET sum[i \in 0 .. Len(rows)] == IF i = 0 THEN 0 ELSE sum[i - 1] + rows[i].pct
  IN  sum[Len(rows)]
Unbalanced(rows) == AllocationSum(rows) - 1000 >= 5 \/ 1000 - AllocationSum(rows) >= 5

Trim(v) == IF v \in DOMAIN Trims THEN Trims[v] ELSE v

\* What a field is checked and sent as.
Clean(k) == IF k \in Text \cup Who THEN Trim(form.f[k]) ELSE form.f[k]

Invalid(k) ==
  CASE k \in Text \cup Who    -> Clean(k) = ""
    [] k \in Alloc            -> form.f[k] = <<>> \/ Unbalanced(form.f[k])
    [] k = "return_rate"      ->
         LET r == form.f[k] IN r[1] = None \/ (r[2] # None /\ Number[r[1]] > Number[r[2]])
    [] OTHER                  -> FALSE

\* Mutant: a name needs no score.
ScoreNotAsked(w) == FALSE

\* administratorScoreMissing and managerScoreMissing
ScoreMissing(w) == Clean(w) # "" /\ form.score[w] = None

\* A field the Excel owns holds nothing back.
Held(k) == ~ReadOnly(k) /\ Invalid(k)

\* The button is enabled.
CanSave == call = None /\ \A k \in Field : ~Held(k) /\ (k \in Who => ~ScoreMissing(k))

-----------------------------------------------------------------------------
(* The administrator.                                                      *)

OpenEdit ==
  /\ mode = None /\ mode' = "edit"
  /\ form' = Form(Shown(row), Prefill(row, lists["edit"]))
  /\ UNCHANGED <<row, born, entity, lists, pending, managed, call, writes, edits>>

OpenCreate ==
  /\ mode = None /\ mode' = "create" /\ form' = Blank
  /\ lists' = [lists EXCEPT !["create"] = NoLists] /\ pending' = [pending EXCEPT !["create"] = Who]
  /\ UNCHANGED <<row, born, entity, managed, call, writes, edits>>

\* Mutant: a closed form still waits for its lists.
ClosedWaiting ==
  /\ mode' = None /\ form' = Blank
  /\ pending' = pending /\ lists' = [lists EXCEPT !["create"] = NoLists]

\* The form goes; a save on its way goes on.
Closed ==
  /\ mode' = None /\ form' = Blank
  /\ pending' = [pending EXCEPT !["create"] = {}] /\ lists' = [lists EXCEPT !["create"] = NoLists]

Close == mode # None /\ Closed /\ UNCHANGED <<row, born, entity, managed, call, writes, edits>>

Becomes(f) ==
  /\ form' = f /\ form' # form
  /\ edits[mode] > 0 /\ edits' = [edits EXCEPT ![mode] = @ - 1]
  /\ UNCHANGED <<row, born, entity, lists, pending, managed, mode, call, writes>>

Set(k, v) == Becomes([form EXCEPT !.f[k] = v])

\* Bound: the fields before this one are filled, those after it blank.
InTurn(k) ==
  mode = "create" => \A i \in DOMAIN Order : Order[i] = k => \A j \in DOMAIN Order :
    /\ j > i => form.f[Order[j]] = Blank.f[Order[j]]
    /\ j < i => ~Invalid(Order[j])

Editable(k) == mode # None /\ call = None /\ ~ReadOnly(k) /\ InTurn(k)

Type(k, v) == Editable(k) /\ Set(k, v)
SetRate(i, v) == Editable("return_rate") /\ Set("return_rate", [form.f["return_rate"] EXCEPT ![i] = v])

\* NameListField
AddName(n) ==
  LET ns == form.f["alternative_names"] IN
  Editable("alternative_names") /\ ~Contains(ns, n) /\ Set("alternative_names", Append(ns, n))
RemoveName(i) ==
  LET ns == form.f["alternative_names"] IN
  Editable("alternative_names") /\ i \in DOMAIN ns /\ Set("alternative_names", RemoveAt(ns, i))

\* optionsForRow
OptionsFor(rows, i) == Options \ {rows[j].name : j \in DOMAIN rows \ {i}}

\* AllocationListField: the row that is added takes a name still free.
AddRow(k) ==
  LET rows == form.f[k] used == {rows[i].name : i \in DOMAIN rows} IN
  /\ Editable(k) /\ Len(rows) < MaxRows /\ ~Options \subseteq used
  /\ Set(k, Append(rows, [name |-> CHOOSE o \in Options \ used : TRUE, pct |-> 0]))
SetRow(k, i, n, p) ==
  LET rows == form.f[k] IN
  /\ Editable(k) /\ i \in DOMAIN rows /\ n \in OptionsFor(rows, i) \cup {rows[i].name}
  /\ n = rows[i].name \/ p = rows[i].pct
  /\ Set(k, [rows EXCEPT ![i] = [name |-> n, pct |-> p]])
RemoveRow(k, i) == Editable(k) /\ i \in DOMAIN form.f[k] /\ Set(k, RemoveAt(form.f[k], i))

\* Mutant: the score of the name before stays.
KeepScore(w, n) == form.score[w]

\* The score a chosen name brings along.
ScoreOf(w, n) == LET l == lists[mode][w] IN IF Fixed(l, n) THEN l[n].score ELSE None

\* ScoredVocabularyField: a name chosen from the list
Choose(w, n) ==
  /\ Editable(w) /\ n # form.f[w] /\ n \in {""} \cup DOMAIN lists[mode][w]
  /\ Becomes([form EXCEPT !.f[w] = n, !.score[w] = ScoreOf(w, n),
                          !.draft = @ \ {w}, !.reset = @ \ {w}])

\* A name typed: the first letter takes the score away, the others do not.
TypeName(w, n) ==
  /\ Editable(w) /\ (n = "" => w \in form.draft)
  /\ Becomes([form EXCEPT !.f[w] = n,
                          !.score[w] = IF w \in form.draft \/ n = "" THEN @ ELSE None,
                          !.draft = IF n = "" THEN @ \ {w} ELSE @ \cup {w}])

\* A number is brought between 1 and 10, and keeps its decimals.
Clamp(s) == IF s = None THEN None ELSE IF s < 10 THEN 10 ELSE IF s > 100 THEN 100 ELSE s

TypeScore(w, s) ==
  /\ mode # None /\ call = None /\ ~Fixed(lists[mode][w], form.f[w]) /\ InTurn(w)
  /\ Becomes([form EXCEPT !.score[w] = Clamp(s)])

\* Mutant: only a score that changed goes with its name.
ScoresChanged(changed) == {w \in Who : form.score[w] # row.score[w]}

\* A name that changed takes its score along.
ScoresSent(changed) == {w \in Who : w \in changed \/ form.score[w] # row.score[w]}

\* Mutant: the field is sent whoever owns it.
AllChanged == {k \in Field : Clean(k) # Shown(row)[k]}

Changed == {k \in Field : ~ReadOnly(k) /\ Clean(k) # Shown(row)[k]}

Sent(ks, ws) ==
  [f |-> [k \in ks |-> IF k = "return_rate" THEN WriteRate(form.f[k]) ELSE Clean(k)],
   score |-> [w \in ws |-> form.score[w]]]

\* Names the form does not know, which are posted before the product.
NewNames ==
  {w \in Who : Clean(w) # "" /\ form.score[w] # None /\ Clean(w) \notin DOMAIN lists[mode][w]}

Saves(m, body) ==
  /\ mode = m /\ CanSave /\ writes < MaxWrites
  /\ call' = [mode |-> m, stage |-> "names",
              form |-> [f |-> [k \in Field |-> Clean(k)], score |-> form.score], new |-> NewNames,
              locked |-> {k \in Field : ReadOnly(k)}, body |-> body]
  /\ UNCHANGED <<row, born, entity, lists, pending, managed, mode, form, writes, edits>>

\* handleSave of EditCatalogModal: the delta
SaveEdit == Saves("edit", Sent(Changed, ScoresSent(Changed)))

\* handleSave of CreateCatalogModal: the whole form
SaveCreate == Saves("create", Sent(Field, Who))

-----------------------------------------------------------------------------
(* The server and the network.                                             *)

ManagedArrives == ~managed /\ managed' = TRUE /\ UNCHANGED <<row, born, entity, lists, pending, mode, form, call, writes, edits>>

\* A list arrives, the managers' after the administrators', or is skipped.
\* The edit form then fills both its scores again, from the product and the
\* lists it has, whatever name was chosen meanwhile.
ListsArrive(m, w, ok) ==
  /\ w \in pending[m] /\ pending' = [pending EXCEPT ![m] = @ \ {w}]
  /\ w = "manager" => "administrator" \notin pending[m]
  /\ lists' = IF ok THEN [lists EXCEPT ![m][w] = entity[w]] ELSE lists
  /\ form' = IF ok /\ m = "edit" /\ mode = "edit"
             THEN [form EXCEPT !.score = Prefill(row, lists'["edit"]),
                               !.reset = {x \in Who : form.f[x] # row.f[x]}]
             ELSE form
  /\ UNCHANGED <<row, born, entity, managed, mode, call, writes, edits>>

\* A name goes in the list; one that is there already stays as it is.
Listed(e, n, s) ==
  [x \in DOMAIN e \cup {n} |-> IF x \in DOMAIN e THEN e[x] ELSE [score |-> s, fixed |-> TRUE]]

\* create_administrator, create_manager: a score with decimals is refused, and
\* no failure is looked at.
PostNames(failed) ==
  /\ call # None /\ call.stage = "names" /\ failed \subseteq call.new
  /\ entity' = [w \in Who |-> IF w \in call.new \ failed /\ call.form.score[w] \in Grade
                              THEN Listed(entity[w], call.form.f[w], call.form.score[w])
                              ELSE entity[w]]
  /\ call' = [call EXCEPT !.stage = "write"]
  /\ UNCHANGED <<row, born, lists, pending, managed, mode, form, writes, edits>>

\* The validators of CatalogProductUpdate
AllocAccepted(rows) ==
  /\ {rows[i].name : i \in DOMAIN rows} \subseteq Options
  /\ Cardinality({rows[i].name : i \in DOMAIN rows}) = Len(rows)
  /\ rows # <<>> => ~Unbalanced(rows)
ScoresAccepted(b) == \A w \in DOMAIN b.score : b.score[w] \in Grade \cup {None}
Accepted(b) ==
  /\ ScoresAccepted(b)
  /\ \A k \in Alloc \cap DOMAIN b.f : AllocAccepted(b.f[k])
  /\ "commission" \in DOMAIN b.f => b.f["commission"] # ""
  /\ \A w \in Who \cap DOMAIN b.f : b.f[w] # "" => w \in DOMAIN b.score /\ b.score[w] # None

\* CatalogRepository.update: a null is not written.
Updated(r, b) ==
  [r EXCEPT !.f = [k \in Field |-> IF k \in DOMAIN b.f THEN b.f[k] ELSE r.f[k]],
            !.score = [w \in Who |-> IF w \in DOMAIN b.score /\ b.score[w] # None THEN b.score[w] ELSE @[w]]]

\* insert_if_not_duplicate
Duplicate(b) ==
  \E r \in {row} \cup ToSet(born) :
    Trim(r.f["name"]) = b.f["name"] /\ r.f["asset_class"] = b.f["asset_class"]

\* The answer comes; what is open now is closed, if it is a form of the kind.
Answered ==
  IF mode = call.mode THEN Closed ELSE UNCHANGED <<mode, form, pending, lists>>

Served(m) == call # None /\ call.stage = "write" /\ call.mode = m /\ call' = None
Stored == writes' = writes + 1 /\ UNCHANGED <<entity, managed, edits>>

\* update_catalog_entry.  A delta with nothing in it is not sent.
PatchEntry ==
  /\ Served("edit") /\ Accepted(call.body) /\ row' = Updated(row, call.body)
  /\ Stored /\ Answered /\ UNCHANGED born

\* create_catalog_entry; the answer may be lost, and the form then stays.
CreateEntry(answered) ==
  /\ Served("create") /\ ScoresAccepted(call.body) /\ ~Duplicate(call.body)
  /\ born' = Append(born, [f |-> call.body.f, score |-> call.body.score, coded |-> FALSE])
  /\ IF answered THEN Answered ELSE UNCHANGED <<mode, form, pending, lists>>
  /\ Stored /\ UNCHANGED row

\* Refused, or lost on its way: the form stays with its error.
WriteFails ==
  /\ \E m \in {"edit", "create"} : Served(m)
  /\ DOMAIN call.body.f \cup DOMAIN call.body.score # {}
  /\ UNCHANGED <<row, born, entity, lists, pending, managed, mode, form, writes, edits>>

User ==
  \/ OpenEdit \/ OpenCreate \/ Close \/ SaveEdit \/ SaveCreate
  \/ \E k \in Text, v \in Words \cup {""} : Type(k, v)
  \/ \E i \in 1 .. 2, v \in Rates \cup {None} : SetRate(i, v)
  \/ \E n \in Alts : AddName(n)
  \/ \E i \in 1 .. Cardinality(Alts) : RemoveName(i)
  \/ \E k \in Alloc : AddRow(k) \/ \E i \in 1 .. MaxRows :
       RemoveRow(k, i) \/ \E n \in Options \cup {form.f[k][j].name : j \in DOMAIN form.f[k]}, p \in Percents : SetRow(k, i, n, p)
  \/ \E w \in Who :
       \/ \E n \in DOMAIN entity[w] \cup {""} : Choose(w, n)
       \/ \E n \in Names \cup {""} : TypeName(w, n)
       \/ \E s \in Scores \cup {None} : TypeScore(w, s)

Server ==
  \/ ManagedArrives \/ PatchEntry \/ WriteFails
  \/ \E ok \in BOOLEAN : CreateEntry(ok) \/ \E m \in Modes, w \in Who : ListsArrive(m, w, ok)
  \/ \E failed \in SUBSET Who : PostNames(failed)

Next == User \/ Server
Spec == Init /\ [][Next]_vars

-----------------------------------------------------------------------------
(* Properties.                                                             *)

\* getObservations
AllocObservations(k, rows) ==
  (IF rows = <<>> THEN {"empty"} ELSE IF Unbalanced(rows) THEN {"allocation_sum"} ELSE {})
    \cup {"not_in_list" : i \in {i \in DOMAIN rows : rows[i].name \notin Options}}
NameObservations(w, n, s) ==
  (IF n = "" THEN {"empty"} ELSE {})
    \cup (IF n = "" /\ s # None THEN {"score_without_name"} ELSE {})
    \cup (IF n # "" /\ s = None THEN {"missing_score"} ELSE {})
    \cup (IF n # "" /\ n \notin DOMAIN entity[w] THEN {"not_in_list"} ELSE {})
Observations(r, k) ==
  CASE k \in Alloc       -> AllocObservations(k, r.f[k])
    [] k \in Who         -> NameObservations(k, r.f[k], r.score[k])
    [] k = "return_rate" -> IF r.f[k] = <<>> THEN {"empty"} ELSE {}
    [] k \in Text        -> IF r.f[k] = "" /\ k # "name" THEN {"empty"} ELSE {}
    [] OTHER             -> {}

\* The fields hold what their inputs can hold; a name that is being typed is
\* not blank, and a create form is over blank lists or the server's.
TypeOK ==
  /\ mode \in {None, "edit", "create"} /\ managed \in BOOLEAN /\ pending \in [Modes -> SUBSET Who]
  /\ DOMAIN form.f = Field /\ \A k \in Alloc : IsAllocation(form.f[k])
  /\ form.draft \subseteq Who /\ \A w \in form.draft : form.f[w] # ""
  /\ form.reset \subseteq Who /\ \A w \in Who : form.score[w] \in Mark \cup {None}
  /\ pending["create"] # {} => mode = "create"
  /\ mode = None => form = Blank
  /\ writes \in 0 .. MaxWrites

Legacy(rows)  == \E i \in DOMAIN rows : rows[i].name \notin Options
Repeats(rows) == \E i, j \in DOMAIN rows : i # j /\ rows[i].name = rows[j].name

\* A delta the form lets through is one the server's validators accept: the
\* two check the same things on their own (CanSave, CatalogProductUpdate).
\* Three things get past the form and are refused, or may be: a score typed
\* with decimals, an allocation that still has a name from before the lists,
\* and one that has a name twice in the product.
AcceptedByServer ==
  (/\ call # None /\ call.mode = "edit"
   /\ \A k \in Alloc : ~Legacy(call.form.f[k]) /\ ~Repeats(row.f[k])
   /\ \A w \in Who : call.form.score[w] \in Grade \cup {None})
    => Accepted(call.body)

\* A product with a code keeps what the Excel owns, whatever else of it is
\* edited, once the page knows the fields (isFieldReadOnly).
ExcelKept ==
  [][(call # None /\ call.locked # {}) => \A k \in Excel : row'.f[k] = row.f[k]]_vars

\* What the form held when it was saved, blanks around a text apart, is what it
\* shows when it is opened again: the delta, its rates written and parsed, and
\* the scores that go with it lose nothing.  A rate that is not in digits
\* (".5", "1e1", "-2") is not parsed, a score that was cleared is not written,
\* and fields locked meanwhile are not sent.
Unread(r) == \E i \in 1 .. 2 : r[i] \in Rates \ Readable
ShowsWhatWasSaved(r) ==
  /\ \A k \in Field \ call.locked :
       Shown(r)[k] = call.form.f[k] \/ (k = "return_rate" /\ Unread(call.form.f[k]))
  /\ \A w \in Who : call.form.score[w] # None => r.score[w] = call.form.score[w]
ReopenShowsSaved ==
  [][(row' # row => ShowsWhatWasSaved(row')) /\ (born' # born => ShowsWhatWasSaved(Last(born')))]_vars

\* A product that was saved has no observation the form could have prevented:
\* nothing empty, unbalanced or without its score, in the fields it may edit
\* (getObservations against the checks of handleSave).
Prevented(r) ==
  \A k \in Field \ call.locked : Observations(r, k) \subseteq {"not_in_list"}
SavedIsComplete ==
  [][(row' # row => Prevented(row')) /\ (born' # born => Prevented(Last(born')))]_vars

\* A name that was chosen in the form carries the score its entry of the list
\* fixes, whatever was typed, cleared or chosen before it and whenever its
\* list came (ScoredVocabularyField), but for the names chosen in the edit form
\* before the other list came, which takes their score away.
Chosen(w) ==
  /\ w \notin form.draft /\ form.f[w] # "" /\ Fixed(lists[mode][w], form.f[w])
  /\ mode = "edit" => form.f[w] # row.f[w]
HasListScore(w) == form.score[w] = lists[mode][w][form.f[w]].score
ChosenScore ==
  mode # None => \A w \in Who \ form.reset : Chosen(w) => HasListScore(w)

\* What the form lets through the server accepts, with the score that was
\* chosen.
FormIsSound == AcceptedByServer /\ ChosenScore

\* False of the code: the list that comes second leaves a name that was chosen
\* with the score of the one before it, in a field that is then locked.
EveryChosenScore == mode # None => \A w \in Who : Chosen(w) => HasListScore(w)

\* False of the code: a rate typed ".5" is stored ".5%" and shows blank.
EveryRateIsShown ==
  [][born' # born => Shown(Last(born'))["return_rate"] = call.form.f["return_rate"]]_vars

\* What was saved is complete, and is what is shown when it is opened again.
SavedIsShown == ReopenShowsSaved /\ SavedIsComplete
=============================================================================
