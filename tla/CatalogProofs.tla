--------------------------- MODULE CatalogProofs ---------------------------
(* Machine-checked proofs about the catalog screens.  First CatalogPage, for *)
(* every catalog, query and official list, any number of calls in flight and *)
(* of failures; then the forms (CatalogForms, through CatalogScreens), for   *)
(* every set of fields, names, scores and lists and any product the Excel    *)
(* may have brought; then the page of the normalized catalog                 *)
(* (NormalizedPage, through CatalogScreens), for all rows, names and         *)
(* searches, and any number of handlers, writes and failures.                *)
EXTENDS Sequences, CatalogPage, CatalogScreens, FiniteSetTheorems, TLAPS

-----------------------------------------------------------------------------
(* The inductive invariant *)

Op      == {"delete", "restore", "create", "edit", "export"}
Caller  == (Op \X (Id \cup {None})) \cup {None}
Patches == UNION {[fs -> Value] : fs \in SUBSET Field}

ALoad == [kind : {"effect", "refetch"}, q : Query, job : Caller, got : Listings \cup {None}]
AnAll == [job : Caller, newest : BOOLEAN, got : Listings \cup {None}]
AJob  == [op : Op, id : Id \cup {None}, q : Query, stage : {"call", "pause", "refresh"},
          live : BOOLEAN, table : BOOLEAN, banner : BOOLEAN, failed : BOOLEAN,
          patch : Patches \cup {None}, touched : SUBSET (Field \cup Id), refilled : SUBSET Field]

\* The page and the catalog; a form that is open is filled.
PageInv ==
  /\ db \in Listings /\ query \in Query /\ entries \in Listings \cup {None}
  /\ error \in BOOLEAN /\ fetching \in BOOLEAN /\ names \in BOOLEAN /\ managed \in BOOLEAN
  /\ obsOnly \in BOOLEAN /\ staleTable \in BOOLEAN /\ staleBanner \in BOOLEAN
  /\ all \in [rows : Listings \cup {None}, failed : BOOLEAN]
  /\ confirm \in Id \cup {None}
  /\ busy \in [deleting : Id \cup {None}, restoring : Id \cup {None}, exporting : BOOLEAN]
  /\ edit \in [on : Id \cup {None}, base : Data \cup {None}, draft : Data \cup {None}, saving : BOOLEAN]
  /\ edit.on # None => {edit.base, edit.draft} \subseteq Data
  /\ scorers \subseteq Scored
  /\ create \in [open : BOOLEAN, saving : BOOLEAN]
  /\ events \in 0 .. MaxEvents

\* A handler: only those that write and then read pass their call, and what
\* an edit writes was typed in its form, or filled in by it.
Handler(j) ==
  /\ j \in AJob
  /\ j.op # "export" => j.id \in Id
  /\ j.op \in {"edit", "export"} => j.stage = "call"
  /\ j.op = "create" => j.patch \in Data
  /\ j.op = "edit" => \E fs \in SUBSET (Field \cap (j.touched \cup j.refilled)) : j.patch \in [fs -> Value]

JobsInv == \A j \in jobs : Handler(j)

\* One load of the table; the effect's is of the query above it.
LoadsInv ==
  /\ loads = {} \/ \E l \in ALoad : loads = {l}
  /\ \A l \in loads : l.kind = "effect" => l.q = query

\* One request of the banner is the newest.
AllsInv ==
  /\ alls \subseteq AnAll
  /\ \A a, b \in alls : a.newest /\ b.newest => a = b

\* A deleted row fades: both lists are about to be read again.
Pausing == \E j \in jobs : j.stage = "pause"

\* A load that will bring what the server has, or leave the table stale.
Mends(l) == l.got = None \/ l.q # query \/ l.got = Listing(query)

\* A table that nothing spoils and no error hides is true or will be mended.
TableInv ==
  ~error /\ ~staleTable =>
     \/ Pausing
     \/ \E l \in loads : Mends(l)
     \/ loads = {} /\ entries = Listing(query)

\* So is the banner; an error of its own is forgotten by the next answer, so
\* that what is on its way has to be true behind the error too.
BannerInv ==
  ~staleBanner =>
     \/ Pausing
     \/ \E a \in alls : a.newest /\ a.got \in {None, Active}
     \/ (\A a \in alls : ~a.newest) /\ (all.failed \/ all.rows = Active)

\* A row that was read stays in the catalog, deleted or not, and a form is
\* opened over one that was read.
RowsInv ==
  /\ entries # None => \A i \in Id : entries[i] # None => db[i] # None
  /\ \A l \in loads : l.got # None => \A i \in Id : l.got[i] # None => db[i] # None
  /\ edit.on # None => db[edit.on] # None
  /\ \A j \in jobs : j.op = "edit" => db[j.id] # None

IInv ==
  /\ PageInv /\ JobsInv /\ LoadsInv /\ AllsInv /\ RowsInv
  /\ TableInv /\ BannerInv /\ SelectionIsVisible /\ ButtonsComeBack

-----------------------------------------------------------------------------
(* Handlers and what passes over them *)

USE CatalogAssumption

\* What the page relies on of a handler that only some call's end touches.
Like(j, k) == k.op = j.op /\ k.id = j.id /\ k.stage = j.stage /\ k.live = j.live

\* What makes a handler is the call it was made for.
LEMMA HandlerLike ==
  ASSUME NEW j, NEW k \in AJob, Handler(j), k.op = j.op, k.id = j.id, k.stage = j.stage,
         k.patch = j.patch, k.touched = j.touched, k.refilled = j.refilled
  PROVE  Handler(k)
  BY DEF Handler

\* An aborted load sets its handler free, and changes no other thing of it.
LEMMA ResumedLike ==
  ASSUME NEW js, NEW ls, \A j \in js : Handler(j)
  PROVE  /\ \A k \in Resumed(js, ls) : Handler(k) /\ \E j \in js : Like(j, k)
         /\ \A j \in js : \E k \in Resumed(js, ls) : Like(j, k)
<1> DEFINE R(j) == IF \E l \in ls : l.job = <<j.op, j.id>> THEN [j EXCEPT !.table = FALSE] ELSE j
<1>1. ASSUME NEW j \in js PROVE Handler(R(j)) /\ Like(j, R(j))
  <2>1. Handler(j) /\ R(j) \in AJob /\ Like(j, R(j))
    BY DEF Handler, AJob, Like
  <2>2. R(j).patch = j.patch /\ R(j).touched = j.touched /\ R(j).refilled = j.refilled
    BY <2>1 DEF Handler, AJob
  <2> HIDE DEF R
  <2> QED BY <2>1, <2>2, HandlerLike DEF Like
<1>2. Resumed(js, ls) = {R(j) : j \in js}
  BY DEF Resumed
<1> QED BY <1>1, <1>2

\* The answer of the banner sets free the handler that waited for it.
LEMMA CountedLike ==
  ASSUME NEW js, NEW a, \A j \in js : Handler(j)
  PROVE  /\ \A k \in Counted(js, a) : Handler(k) /\ \E j \in js : Like(j, k)
         /\ \A j \in js : \E k \in Counted(js, a) : Like(j, k)
<1> DEFINE R(j) == IF <<j.op, j.id>> = a.job THEN [j EXCEPT !.banner = FALSE] ELSE j
<1>1. ASSUME NEW j \in js PROVE Handler(R(j)) /\ Like(j, R(j))
  <2>1. Handler(j) /\ R(j) \in AJob /\ Like(j, R(j))
    BY DEF Handler, AJob, Like
  <2>2. R(j).patch = j.patch /\ R(j).touched = j.touched /\ R(j).refilled = j.refilled
    BY <2>1 DEF Handler, AJob
  <2> HIDE DEF R
  <2> QED BY <2>1, <2>2, HandlerLike DEF Like
<1>2. Counted(js, a) = {R(j) : j \in js}
  BY DEF Counted
<1> QED BY <1>1, <1>2

\* A handler that begins waits for its call.
LEMMA JobBegins ==
  ASSUME query \in Query, NEW op \in Op, NEW i \in Id \cup {None}
  PROVE  /\ Job(op, i) \in AJob
         /\ Job(op, i).op = op /\ Job(op, i).id = i /\ Job(op, i).stage = "call" /\ Job(op, i).live = TRUE
  BY DEF Job, AJob

\* Buttons that nobody pressed keep the handlers that release them.
LEMMA ButtonsKept ==
  ASSUME ButtonsComeBack, UNCHANGED <<busy, create>>, edit'.saving = edit.saving,
         \A j \in jobs : \E k \in jobs' : k.op = j.op /\ k.live = j.live
  PROVE  ButtonsComeBack'
  BY DEF ButtonsComeBack

LEMMA TableKept ==
  ASSUME TableInv, UNCHANGED <<db, query, entries, error, loads, staleTable>>, Pausing => Pausing'
  PROVE  TableInv'
  BY DEF TableInv, Mends, Listing, Matches

LEMMA BannerKept ==
  ASSUME BannerInv, UNCHANGED <<db, all, alls, staleBanner>>, Pausing => Pausing'
  PROVE  BannerInv'
  BY DEF BannerInv, Active

LEMMA RowsKept ==
  ASSUME RowsInv, UNCHANGED entries, PageInv, JobsInv,
         \A i \in Id : db[i] # None => db'[i] # None,
         \A l \in loads' : l.got = None \/ l \in loads,
         edit'.on = None \/ edit'.on = edit.on,
         \A k \in jobs' : k.op = "edit" => \E j \in jobs : j.op = "edit" /\ j.id = k.id
  PROVE  RowsInv'
  BY DEF RowsInv, PageInv, JobsInv, Handler

LEMMA SelectionKept ==
  ASSUME SelectionIsVisible, UNCHANGED <<entries, names, picked>>
  PROVE  SelectionIsVisible'
  BY DEF SelectionIsVisible, picked, Selectable, Shown, Observed

LEMMA EventCounts == ASSUME PageInv, Event PROVE events' \in 0 .. MaxEvents
<1>1. events \in 0 .. MaxEvents
  BY DEF PageInv
<1> QED BY <1>1 DEF Event

LEMMA LoadsKept ==
  ASSUME LoadsInv, UNCHANGED <<loads, query>> PROVE LoadsInv'
  BY DEF LoadsInv

\* A step of the page alone leaves the calls and what they bring.
LEMMA PageOnly ==
  ASSUME IInv, UNCHANGED <<db, query, entries, error, loads, all, alls, jobs, stale>>,
         PageInv', SelectionIsVisible', ButtonsComeBack', edit'.on # None => db[edit'.on] # None
  PROVE  IInv'
<1>1. TableInv' /\ BannerInv' /\ LoadsInv'
  BY TableKept, BannerKept, LoadsKept DEF IInv, stale, Pausing
<1>2. RowsInv'
  BY DEF IInv, RowsInv
<1> QED BY <1>1, <1>2 DEF IInv, JobsInv, AllsInv

\* A handler that begins adds itself to the others.
LEMMA Begun ==
  ASSUME IInv, NEW j, Handler(j), jobs' = jobs \cup {j},
         UNCHANGED <<db, table, banner, lists, picked, stale>>, PageInv', ButtonsComeBack',
         j.op = "edit" => db[j.id] # None, edit'.on = edit.on
  PROVE  IInv'
<1>1. TableInv' /\ BannerInv' /\ LoadsInv' /\ SelectionIsVisible'
  BY TableKept, BannerKept, LoadsKept, SelectionKept DEF IInv, table, banner, lists, stale, Pausing
<1>2. RowsInv'
  BY DEF IInv, RowsInv, table
<1> QED BY <1>1, <1>2 DEF IInv, JobsInv, AllsInv, banner

-----------------------------------------------------------------------------
(* The initial state *)

LEMMA InitIInv == Init => IInv
<1> SUFFICES ASSUME Init PROVE IInv
  OBVIOUS
<1>1. PageInv
  <2>1. edit = [on |-> None, base |-> None, draft |-> None, saving |-> FALSE]
    BY DEF Init, Closed
  <2>2. edit \in [on : Id \cup {None}, base : Data \cup {None}, draft : Data \cup {None}, saving : BOOLEAN]
    BY <2>1
  <2>3. edit.on # None => {edit.base, edit.draft} \subseteq Data
    BY <2>1
  <2>4. /\ all \in [rows : Listings \cup {None}, failed : BOOLEAN]
        /\ busy \in [deleting : Id \cup {None}, restoring : Id \cup {None}, exporting : BOOLEAN]
        /\ create \in [open : BOOLEAN, saving : BOOLEAN]
    BY DEF Init
  <2>5. /\ db \in Listings /\ query \in Query /\ entries \in Listings \cup {None}
        /\ confirm \in Id \cup {None} /\ events \in 0 .. MaxEvents
    BY DEF Init
  <2>6. /\ error \in BOOLEAN /\ fetching \in BOOLEAN /\ names \in BOOLEAN /\ managed \in BOOLEAN
        /\ obsOnly \in BOOLEAN /\ staleTable \in BOOLEAN /\ staleBanner \in BOOLEAN
    BY DEF Init
  <2>7. scorers \subseteq Scored
    BY DEF Init
  <2> QED BY <2>2, <2>3, <2>4, <2>5, <2>6, <2>7 DEF PageInv
<1>2. LoadsInv
  <2>1. Load("effect", First, None) \in ALoad /\ Load("effect", First, None).q = First
    BY DEF Load, ALoad, Caller
  <2> QED BY <2>1 DEF Init, LoadsInv
<1>3. AllsInv /\ BannerInv
  <2>1. All(None) \in AnAll /\ All(None).newest /\ All(None).got = None
    BY DEF All, AnAll, Caller
  <2> QED BY <2>1 DEF Init, AllsInv, BannerInv
<1>4. TableInv
  BY DEF Init, TableInv, Mends, Load
<1>5. JobsInv /\ SelectionIsVisible /\ ButtonsComeBack /\ RowsInv
  BY DEF Init, JobsInv, SelectionIsVisible, ButtonsComeBack, RowsInv, Closed, Load
<1> QED BY <1>1, <1>2, <1>3, <1>4, <1>5 DEF IInv

-----------------------------------------------------------------------------
(* Steps of the page alone *)

\* What is shown again is selected no more than it is shown.
LEMMA Pruned ==
  ASSUME SelectionIsVisible, Prune(entries', obsOnly', names'), entries' = None => entries = None
  PROVE  SelectionIsVisible'
<1>1. CASE entries' = None
  BY <1>1 DEF SelectionIsVisible, Prune, Selectable, Shown
<1>2. CASE entries' # None
  BY <1>2 DEF SelectionIsVisible, Prune
<1> QED BY <1>1, <1>2

LEMMA ListsKeep == ASSUME IInv, NamesArrive \/ ManagedArrive \/ ToggleObservations PROVE IInv'
<1>1. UNCHANGED <<db, table, banner, forms, jobs, stale, events>>
  BY DEF NamesArrive, ManagedArrive, ToggleObservations
<1>2. PageInv'
  <2>1. names' \in BOOLEAN /\ managed' \in BOOLEAN /\ obsOnly' \in BOOLEAN /\ scorers' \subseteq Scored
    BY DEF NamesArrive, ManagedArrive, ToggleObservations, IInv, PageInv, lists, picked
  <2> QED BY <1>1, <2>1 DEF IInv, PageInv, table, banner, forms, stale
<1>3. SelectionIsVisible'
  <2>1. CASE NamesArrive
    <3>1. Prune(entries', obsOnly', names')
      BY <2>1 DEF NamesArrive, table, Prune
    <3> QED BY <2>1, <3>1, Pruned DEF IInv, NamesArrive, table
  <2>2. CASE ManagedArrive
    BY <2>2, SelectionKept DEF ManagedArrive, IInv, table
  <2>3. CASE ToggleObservations
    <3>1. Prune(entries', obsOnly', names')
      BY <2>3 DEF ToggleObservations, table, lists, Prune
    <3> QED BY <2>3, <3>1, Pruned DEF IInv, ToggleObservations, table
  <2> QED BY <2>1, <2>2, <2>3
<1>4. ButtonsComeBack'
  BY <1>1 DEF IInv, ButtonsComeBack, forms
<1> QED BY <1>1, <1>2, <1>3, <1>4, PageOnly DEF IInv, RowsInv, table, banner, forms

LEMMA SelectKeeps == ASSUME IInv, ToggleAll \/ \E i \in Id : ToggleRow(i) PROVE IInv'
<1>1. UNCHANGED <<db, table, banner, lists, obsOnly, forms, jobs, stale, events>>
  BY DEF ToggleAll, ToggleRow
<1>2. PageInv' /\ ButtonsComeBack'
  BY <1>1 DEF IInv, PageInv, ButtonsComeBack, table, banner, lists, forms, stale
<1>3. selected' \subseteq Selectable(entries, obsOnly, names)
  BY DEF IInv, SelectionIsVisible, ToggleAll, ToggleRow
<1>4. SelectionIsVisible'
  BY <1>1, <1>3 DEF SelectionIsVisible, table, lists
<1> QED BY <1>1, <1>2, <1>4, PageOnly DEF IInv, RowsInv, table, banner, forms

\* What the form fills in is of the list, or what was there.
LEMMA PrefilledTyped ==
  ASSUME NEW d \in Data, NEW ss PROVE Prefilled(d, ss) \in Data
<1>1. \A f \in Field : d[f] \in Value
  BY DEF Data
<1>2. \A s \in Scored : Fixed(s, d, ss) => Fixes[s][d[NameOf[s]]] \in Value
  BY FormAssumption DEF Fixed
<1> QED BY <1>1, <1>2 DEF Prefilled, Data

\* A list of the edit form arrives.
LEMMA ScoresKeep == ASSUME IInv, NEW s \in Scored, ScoresArrive(s) PROVE IInv'
<1>1. /\ edit \in [on : Id \cup {None}, base : Data \cup {None}, draft : Data \cup {None}, saving : BOOLEAN]
      /\ edit.on # None => {edit.base, edit.draft} \subseteq Data
      /\ scorers \subseteq Scored
  BY DEF IInv, PageInv
<1>2. UNCHANGED <<db, table, banner, names, managed, picked, confirm, busy, create, jobs, stale, events>>
  BY DEF ScoresArrive
<1> DEFINE D == [f \in Field |-> IF f \in Scored THEN Prefilled(edit.base, scorers')[f] ELSE edit.draft[f]]
<1>3. edit' = IF edit.on = None THEN edit ELSE [edit EXCEPT !.draft = D]
  BY DEF ScoresArrive
<1>4. edit.on # None => D \in Data
  <2> SUFFICES ASSUME edit.on # None PROVE D \in Data
    OBVIOUS
  <2>1. edit.base \in Data /\ edit.draft \in Data
    BY <1>1
  <2>2. Prefilled(edit.base, scorers') \in Data
    BY <2>1, PrefilledTyped
  <2> QED BY <2>1, <2>2 DEF Data
<1> HIDE DEF D
<1>5. /\ edit' \in [on : Id \cup {None}, base : Data \cup {None}, draft : Data \cup {None}, saving : BOOLEAN]
      /\ edit'.on # None => {edit'.base, edit'.draft} \subseteq Data
      /\ edit'.on = edit.on /\ edit'.saving = edit.saving
  BY <1>1, <1>3, <1>4
<1>6. PageInv'
  <2>1. scorers' \subseteq Scored
    BY <1>1 DEF ScoresArrive
  <2> QED BY <1>2, <1>5, <2>1 DEF IInv, PageInv, table, banner, picked, stale
<1>7. ButtonsComeBack' /\ SelectionIsVisible'
  BY <1>2, <1>5, SelectionKept DEF IInv, ButtonsComeBack, table
<1> QED BY <1>2, <1>5, <1>6, <1>7, PageOnly DEF IInv, RowsInv, table, banner

\* The dialogs open, are typed in and close.
LEMMA DialogsKeep ==
  ASSUME IInv,
         \/ CancelDelete \/ OpenCreate \/ CloseEdit \/ (PressSave /\ Edits = {})
         \/ \E i \in Id : AskDelete(i) \/ OpenEdit(i)
         \/ \E f \in Field, v \in Inputs : TypeField(f, v)
  PROVE  IInv'
<1>1. UNCHANGED <<db, table, banner, lists, picked, busy, jobs, stale, events>>
  BY DEF CancelDelete, OpenCreate, CloseEdit, PressSave, AskDelete, OpenEdit, TypeField
<1>2. confirm' \in Id \cup {None}
  BY DEF CancelDelete, OpenCreate, CloseEdit, PressSave, AskDelete, OpenEdit, TypeField, IInv, PageInv
<1>3. create' = create \/ create' = [open |-> TRUE, saving |-> FALSE]
  BY DEF CancelDelete, OpenCreate, CloseEdit, PressSave, AskDelete, OpenEdit, TypeField
<1>4. /\ edit' \in [on : Id \cup {None}, base : Data \cup {None}, draft : Data \cup {None}, saving : BOOLEAN]
      /\ edit'.on # None => {edit'.base, edit'.draft} \subseteq Data
      /\ edit'.saving = edit.saving
  <2>1. /\ edit \in [on : Id \cup {None}, base : Data \cup {None}, draft : Data \cup {None}, saving : BOOLEAN]
        /\ edit.on # None => {edit.base, edit.draft} \subseteq Data
    BY DEF IInv, PageInv
  <2>2. CASE edit' = edit
    BY <2>1, <2>2
  <2>3. CASE CloseForm
    BY <2>1, <2>3 DEF CloseForm, Closed
  <2>4. ASSUME NEW i \in Id, OpenEdit(i) PROVE <1>4!1 /\ <1>4!2 /\ <1>4!3
    <3>1. entries[i].data \in Data
      BY <2>4 DEF OpenEdit, OnRow, Shown, IInv, PageInv, Listings, Row
    <3>2. Prefilled(entries[i].data, scorers) \in Data
      BY <3>1, PrefilledTyped
    <3>3. edit' = [edit EXCEPT !.on = i, !.base = entries[i].data, !.draft = Prefilled(entries[i].data, scorers)]
      BY <2>4 DEF OpenEdit
    <3> QED BY <2>1, <3>1, <3>2, <3>3
  <2>5. ASSUME NEW f \in Field, NEW v \in Inputs, TypeField(f, v) PROVE <1>4!1 /\ <1>4!2 /\ <1>4!3
    <3> DEFINE D == [g \in Field |-> IF g = f THEN v
                                     ELSE IF g \in Scored /\ NameOf[g] = f THEN Brought(g, v) ELSE edit.draft[g]]
    <3>1. edit' = [edit EXCEPT !.draft = D] /\ edit.on # None
      BY <2>5 DEF TypeField
    <3>2. \A g \in Scored : Brought(g, v) \in Value
      BY FormAssumption DEF Brought
    <3>3. D \in Data
      BY <2>1, <3>1, <3>2 DEF Data
    <3> HIDE DEF D
    <3> QED BY <2>1, <3>1, <3>3
  <2> QED BY <2>2, <2>3, <2>4, <2>5 DEF CancelDelete, OpenCreate, CloseEdit, PressSave, AskDelete
<1>5. PageInv'
  <2>1. create \in [open : BOOLEAN, saving : BOOLEAN]
    BY DEF IInv, PageInv
  <2>2. create' \in [open : BOOLEAN, saving : BOOLEAN]
    <3>1. CASE create' = create
      BY <2>1, <3>1
    <3>2. CASE create' = [open |-> TRUE, saving |-> FALSE]
      BY <3>2
    <3> QED BY <1>3, <3>1, <3>2
  <2> QED BY <1>1, <1>2, <1>4, <2>2 DEF IInv, PageInv, table, banner, lists, picked, stale
<1>6. ButtonsComeBack'
  BY <1>1, <1>3, <1>4 DEF IInv, ButtonsComeBack
<1>7. SelectionIsVisible'
  BY <1>1, SelectionKept DEF IInv, table, lists
<1>8. edit'.on # None => db[edit'.on] # None
  <2>1. edit' = edit \/ edit'.on = None \/ edit'.on = edit.on \/ \E i \in Id : OpenEdit(i)
    BY DEF IInv, PageInv, CancelDelete, OpenCreate, CloseEdit, CloseForm, Closed, PressSave, AskDelete, TypeField
  <2>2. ASSUME NEW i \in Id, OpenEdit(i) PROVE edit'.on = i /\ db[i] # None
    BY <2>2 DEF IInv, PageInv, RowsInv, OpenEdit, OnRow, Shown
  <2> QED BY <2>1, <2>2 DEF IInv, RowsInv
<1> QED BY <1>1, <1>5, <1>6, <1>7, <1>8, PageOnly DEF table, banner

-----------------------------------------------------------------------------
(* Handlers begin *)

LEMMA ExportKeeps == ASSUME IInv, PressExport PROVE IInv'
<1>0. PageInv /\ ButtonsComeBack /\ selected \subseteq Id
  BY DEF IInv, SelectionIsVisible, Selectable, Shown
<1>1. PICK j : j = [Job("export", None) EXCEPT !.touched = selected]
  OBVIOUS
<1>2. Handler(j) /\ j.op = "export"
  <2>1. query \in Query /\ "export" \in Op
    BY <1>0 DEF PageInv, Op
  <2>2. Job("export", None) \in AJob /\ Job("export", None).op = "export" /\ Job("export", None).stage = "call"
    <3>1. None \in Id \cup {None}
      OBVIOUS
    <3> QED BY <2>1, <3>1, JobBegins
  <2> QED BY <1>0, <1>1, <2>2 DEF Handler, AJob
<1>3. /\ jobs' = jobs \cup {j} /\ busy' = [busy EXCEPT !.exporting = TRUE] /\ events' \in 0 .. MaxEvents
      /\ UNCHANGED <<db, table, banner, lists, picked, confirm, edit, create, stale>>
  BY <1>0, <1>1 DEF PressExport, Act, Event, PageInv
<1>4. PageInv'
  <2>1. busy' \in [deleting : Id \cup {None}, restoring : Id \cup {None}, exporting : BOOLEAN]
    BY <1>0, <1>3 DEF PageInv
  <2> QED BY <1>0, <1>3, <2>1 DEF PageInv, table, banner, lists, picked, stale
<1>5. ButtonsComeBack'
  <2>1. busy'.deleting = busy.deleting /\ busy'.restoring = busy.restoring
    BY <1>0, <1>3 DEF PageInv
  <2> QED BY <1>0, <1>2, <1>3, <2>1 DEF ButtonsComeBack
<1> QED BY <1>2, <1>3, <1>4, <1>5, Begun

LEMMA PressKeeps == ASSUME IInv, PressDelete \/ \E i \in Id : PressRestore(i) PROVE IInv'
<1>0. PageInv /\ ButtonsComeBack
  BY DEF IInv
<1>1. PICK i \in Id, op \in {"delete", "restore"} :
        /\ jobs' = jobs \cup {Job(op, i)}
        /\ IF op = "delete" THEN busy' = [busy EXCEPT !.deleting = i] /\ confirm' = None
                            ELSE busy' = [busy EXCEPT !.restoring = i] /\ confirm' = confirm
        /\ UNCHANGED <<db, table, banner, lists, picked, edit, create, stale>>
        /\ events' = events + 1 /\ events < MaxEvents
  <2>1. CASE PressDelete
    <3>1. confirm \in Id
      BY <1>0, <2>1 DEF PressDelete, PageInv
    <3> QED BY <2>1, <3>1 DEF PressDelete, Act, Event
  <2>2. CASE \E i \in Id : PressRestore(i)
    BY <2>2 DEF PressRestore, Act, Event
  <2> QED BY <2>1, <2>2
<1>2. PICK j : j = Job(op, i)
  OBVIOUS
<1>3. Handler(j) /\ j.op = op
  <2>1. query \in Query /\ op \in Op /\ i \in Id \cup {None}
    BY <1>0 DEF PageInv, Op
  <2>2. Job(op, i) \in AJob /\ Job(op, i).op = op /\ Job(op, i).id = i /\ Job(op, i).stage = "call"
    BY <2>1, JobBegins
  <2> QED BY <1>2, <2>2 DEF Handler
<1>4. PageInv'
  <2>1. busy' \in [deleting : Id \cup {None}, restoring : Id \cup {None}, exporting : BOOLEAN]
    BY <1>0, <1>1 DEF PageInv
  <2>2. confirm' \in Id \cup {None} /\ events' \in 0 .. MaxEvents
    BY <1>0, <1>1 DEF PageInv
  <2> QED BY <1>0, <1>1, <2>1, <2>2 DEF PageInv, table, banner, lists, picked, stale
<1>5. ButtonsComeBack'
  <2>1. /\ busy'.exporting = busy.exporting
        /\ op = "delete" => busy'.restoring = busy.restoring
        /\ op = "restore" => busy'.deleting = busy.deleting
    BY <1>0, <1>1 DEF PageInv
  <2> QED BY <1>0, <1>1, <1>2, <1>3, <2>1 DEF ButtonsComeBack
<1> QED BY <1>1, <1>2, <1>3, <1>4, <1>5, Begun

LEMMA CreateKeeps == ASSUME IInv, NEW i \in Id, NEW d \in Data, PressCreate(i, d) PROVE IInv'
<1>0. PageInv /\ ButtonsComeBack
  BY DEF IInv
<1>1. PICK j : j = [Job("create", i) EXCEPT !.patch = d]
  OBVIOUS
<1>2. Handler(j) /\ j.op = "create" /\ j.live
  <2>1. query \in Query /\ "create" \in Op /\ i \in Id \cup {None}
    BY <1>0 DEF PageInv, Op
  <2>2. d \in Patches
    BY DEF Data, Patches
  <2>3. /\ Job("create", i) \in AJob /\ Job("create", i).op = "create" /\ Job("create", i).id = i
        /\ Job("create", i).stage = "call" /\ Job("create", i).live = TRUE
    BY <2>1, JobBegins
  <2> QED BY <1>1, <2>2, <2>3 DEF Handler, AJob
<1>3. /\ jobs' = jobs \cup {j} /\ create' = [create EXCEPT !.saving = TRUE] /\ events' \in 0 .. MaxEvents
      /\ UNCHANGED <<db, table, banner, lists, picked, confirm, busy, edit, stale>>
  BY <1>0, <1>1 DEF PressCreate, Act, Event, PageInv
<1>4. PageInv'
  <2>1. create' \in [open : BOOLEAN, saving : BOOLEAN]
    BY <1>0, <1>3 DEF PageInv
  <2> QED BY <1>0, <1>3, <2>1 DEF PageInv, table, banner, lists, picked, stale
<1>5. ButtonsComeBack'
  BY <1>0, <1>2, <1>3 DEF ButtonsComeBack
<1> QED BY <1>2, <1>3, <1>4, <1>5, Begun

\* The score of a name goes with it; what is sent was typed, or filled in by
\* the form.
LEMMA ScoreFollows ==
  ASSUME NEW s \in Scored
  PROVE  (NameOf[s] \in Touched => s \in Touched) /\ (NameOf[s] \in Refilled => s \in Refilled)
<1>1. NameOf[s] \notin Scored
  BY FormAssumption
<1> QED BY <1>1 DEF Touched, Refilled, WithScores

LEMMA EditsSeen ==
  ASSUME edit.draft \in [Field -> Value], edit.base \in [Field -> Value]
  PROVE  Edits \subseteq Touched \cup Refilled
<1> DEFINE shown == Prefilled(edit.base, scorers)
<1>1. \A f \in Field \ Scored : shown[f] = edit.base[f]
  BY DEF Prefilled
<1>2. ASSUME NEW f \in TextEdits
      PROVE  \/ f \in Field \ Scored /\ edit.draft[f] # shown[f]
             \/ f \in Field \ Scored /\ Trimmed[edit.base[f]] # edit.base[f]
  BY <1>1, <1>2 DEF TextEdits, Sent
<1>3. ASSUME NEW s \in Scored, Sent(s) # edit.base[s]
      PROVE  edit.draft[s] # shown[s] \/ shown[s] # edit.base[s]
  BY <1>3 DEF Sent
<1>7. \A f \in Field : shown[f] # edit.draft[f] => f \in Touched
  BY DEF Touched, WithScores
<1>8. \A s \in Scored : s \in Field /\ NameOf[s] \in Field \ Scored
  BY FormAssumption
<1>9. \A f \in Field : (IF f \in Scored THEN shown[f] # edit.base[f] ELSE Trimmed[edit.base[f]] # edit.base[f])
                       => f \in Refilled
  BY DEF Refilled, WithScores
<1> HIDE DEF shown
<1>4. \A f \in TextEdits : f \in Touched \/ f \in Refilled
  BY <1>2, <1>7, <1>9
<1>5. \A s \in Scored : NameOf[s] \in TextEdits => s \in Touched \/ s \in Refilled
  BY <1>4, <1>8, ScoreFollows
<1>6. \A s \in Scored : Sent(s) # edit.base[s] => s \in Touched \/ s \in Refilled
  BY <1>3, <1>7, <1>8, <1>9
<1> QED BY <1>4, <1>5, <1>6 DEF Edits

LEMMA SaveKeeps == ASSUME IInv, PressSave, Edits # {} PROVE IInv'
<1>0. PageInv /\ ButtonsComeBack
  BY DEF IInv
<1>1. PICK j : j = [Job("edit", edit.on) EXCEPT !.patch = Patch, !.touched = Touched, !.refilled = Refilled]
  OBVIOUS
<1>2. Handler(j) /\ j.op = "edit"
  <2>1. query \in Query /\ "edit" \in Op /\ edit.on \in Id \cup {None} /\ edit.on # None /\ edit.draft \in [Field -> Value] /\ edit.base \in [Field -> Value]
    BY <1>0 DEF PageInv, Op, PressSave, Data
  <2>2. Edits \subseteq Field /\ Touched \subseteq Field /\ Refilled \subseteq Field
    BY FormAssumption DEF Edits, TextEdits, Touched, Refilled, WithScores
  <2>3. Patch \in [Edits -> Value]
    BY <2>1, <2>2, FormAssumption DEF Patch, Sent
  <2>6. Edits \subseteq Touched \cup Refilled
    BY <2>1, EditsSeen
  <2>4. Patch \in Patches
    BY <2>2, <2>3 DEF Patches
  <2>5. /\ Job("edit", edit.on) \in AJob /\ Job("edit", edit.on).op = "edit" /\ Job("edit", edit.on).id = edit.on
        /\ Job("edit", edit.on).stage = "call"
    BY <2>1 DEF Job, AJob
  <2>7. j \in AJob /\ j.op = "edit" /\ j.id \in Id /\ j.stage = "call"
    BY <1>1, <2>1, <2>2, <2>4, <2>5 DEF AJob
  <2>8. j.patch = Patch /\ j.touched = Touched /\ j.refilled = Refilled
    BY <1>1, <2>5 DEF AJob
  <2>9. Edits \in SUBSET (Field \cap (j.touched \cup j.refilled)) /\ j.patch \in [Edits -> Value]
    BY <2>2, <2>3, <2>6, <2>8
  <2> QED BY <2>7, <2>9 DEF Handler
<1>3. /\ jobs' = jobs \cup {j} /\ edit' = [edit EXCEPT !.saving = TRUE] /\ events' \in 0 .. MaxEvents
      /\ UNCHANGED <<db, table, banner, lists, picked, confirm, busy, create, stale>>
  BY <1>0, <1>1 DEF PressSave, Act, Event, PageInv
<1>4. PageInv'
  <2>1. /\ edit' \in [on : Id \cup {None}, base : Data \cup {None}, draft : Data \cup {None}, saving : BOOLEAN]
        /\ edit'.on # None => {edit'.base, edit'.draft} \subseteq Data
    BY <1>0, <1>3 DEF PageInv
  <2> QED BY <1>0, <1>3, <2>1 DEF PageInv, table, banner, lists, picked, stale
<1>5. ButtonsComeBack'
  BY <1>0, <1>2, <1>3 DEF ButtonsComeBack
<1>6. db[j.id] # None /\ edit'.on = edit.on
  <2>1. j.id = edit.on /\ edit.on # None
    BY <1>0, <1>1 DEF PressSave, Job
  <2> QED BY <1>0, <1>3, <2>1 DEF IInv, RowsInv, PageInv
<1> QED BY <1>2, <1>3, <1>4, <1>5, <1>6, Begun

\* The modal that is closed leaves its call behind.
LEMMA CloseKeeps == ASSUME IInv, CloseCreate PROVE IInv'
<1>0. PageInv /\ ButtonsComeBack /\ JobsInv
  BY DEF IInv
<1>1. /\ create' = [open |-> FALSE, saving |-> FALSE]
      /\ UNCHANGED <<db, table, banner, lists, picked, confirm, busy, edit, stale, events>>
  BY DEF CloseCreate
<1> DEFINE R(j) == IF j.op = "create" THEN [j EXCEPT !.live = FALSE] ELSE j
<1>2. jobs' = {R(j) : j \in jobs}
  BY DEF CloseCreate
<1>3. ASSUME NEW j \in jobs PROVE Handler(R(j)) /\ R(j).op = j.op /\ R(j).id = j.id /\ R(j).stage = j.stage
  BY <1>0 DEF JobsInv, Handler, AJob
<1> HIDE DEF R
<1>4. JobsInv' /\ (Pausing => Pausing')
  BY <1>2, <1>3 DEF JobsInv, Pausing
<1>5. PageInv'
  <2>1. create' \in [open : BOOLEAN, saving : BOOLEAN]
    BY <1>1
  <2> QED BY <1>0, <1>1, <2>1 DEF PageInv, table, banner, lists, picked, stale
<1>6. ButtonsComeBack'
  BY <1>0, <1>1, <1>2, <1>3 DEF ButtonsComeBack
<1>7. TableInv' /\ BannerInv' /\ LoadsInv' /\ SelectionIsVisible'
  BY <1>1, <1>4, TableKept, BannerKept, LoadsKept, SelectionKept DEF IInv, table, banner, lists, stale
<1>8. RowsInv'
  <2>1. \A k \in jobs' : k.op = "edit" => \E j \in jobs : j.op = "edit" /\ j.id = k.id
    BY <1>2, <1>3
  <2> QED BY <1>1, <2>1, RowsKept DEF IInv, table
<1> QED BY <1>1, <1>4, <1>5, <1>6, <1>7, <1>8 DEF IInv, AllsInv, banner

-----------------------------------------------------------------------------
(* The table's loads *)

\* A new load replaces the one under way.
LEMMA LoadTyped ==
  ASSUME NEW kind \in {"effect", "refetch"}, NEW q \in Query, NEW j \in Caller
  PROVE  /\ Load(kind, q, j) \in ALoad /\ Load(kind, q, j).q = q
         /\ Load(kind, q, j).got = None /\ Load(kind, q, j).kind = kind
  BY DEF Load, ALoad

LEMMA CallerTyped == ASSUME NEW j, Handler(j) PROVE <<j.op, j.id>> \in Caller
  BY DEF Handler, AJob, Caller

LEMMA ListingTyped == ASSUME db \in Listings PROVE Active \in Listings /\ \A q : Listing(q) \in Listings
  BY DEF Listings, Listing, Active

LEMMA QueryKeeps == ASSUME IInv, NEW q \in Query, SetQuery(q) PROVE IInv'
<1>0. PageInv /\ ButtonsComeBack /\ JobsInv
  BY DEF IInv
<1>1. PICK l : l = Load("effect", q, None)
  OBVIOUS
<1>2. l \in ALoad /\ l.q = q /\ l.got = None
  <2>1. None \in Caller
    BY DEF Caller
  <2> QED BY <1>1, <2>1, LoadTyped
<1>3. /\ query' = q /\ error' = FALSE /\ fetching' = TRUE /\ loads' = {l} /\ jobs' = Resumed(jobs, loads)
      /\ UNCHANGED <<db, entries, banner, lists, picked, forms, stale, events>>
  BY <1>1 DEF SetQuery, Start
<1>4. /\ \A k \in jobs' : Handler(k) /\ \E j \in jobs : Like(j, k)
      /\ \A j \in jobs : \E k \in jobs' : Like(j, k)
  BY <1>0, <1>3, ResumedLike DEF JobsInv
<1>5. JobsInv' /\ (Pausing => Pausing') /\ ButtonsComeBack'
  BY <1>0, <1>3, <1>4, ButtonsKept DEF JobsInv, Pausing, Like, forms
<1>6. PageInv'
  <2>1. error' \in BOOLEAN /\ fetching' \in BOOLEAN /\ query' \in Query
    BY <1>3
  <2> QED BY <1>0, <1>3, <2>1 DEF PageInv, banner, lists, picked, forms, stale
<1>7. LoadsInv' /\ TableInv'
  BY <1>2, <1>3 DEF LoadsInv, TableInv, Mends
<1>8. BannerInv' /\ SelectionIsVisible' /\ AllsInv'
  BY <1>3, <1>5, BannerKept, SelectionKept DEF IInv, banner, lists, stale, AllsInv
<1>9. RowsInv'
  BY <1>0, <1>2, <1>3, <1>4, RowsKept DEF IInv, Like, forms
<1> QED BY <1>5, <1>6, <1>7, <1>8, <1>9 DEF IInv

LEMMA OneLoad == ASSUME LoadsInv, NEW l \in loads PROVE loads = {l} /\ l \in ALoad
  BY DEF LoadsInv

LEMMA ServeLoadKeeps == ASSUME IInv, NEW l \in loads, ServeLoad(l) PROVE IInv'
<1>0. PageInv /\ ButtonsComeBack /\ JobsInv /\ LoadsInv /\ loads = {l} /\ l \in ALoad
  BY OneLoad DEF IInv
<1>1. PICK m : m = [l EXCEPT !.got = Listing(l.q)]
  OBVIOUS
<1>2. m \in ALoad /\ m.q = l.q /\ m.kind = l.kind /\ m.got = Listing(m.q)
  <2>1. Listing(l.q) \in Listings
    BY <1>0, ListingTyped DEF PageInv
  <2> QED BY <1>0, <1>1, <2>1 DEF ALoad
<1>3. /\ loads' = {m} /\ staleTable' = (staleTable /\ l.q # query)
      /\ UNCHANGED <<db, query, entries, error, fetching, banner, lists, picked, forms, jobs, staleBanner, events>>
  BY <1>0, <1>1 DEF ServeLoad
<1>4. JobsInv' /\ (Pausing => Pausing') /\ ButtonsComeBack'
  BY <1>0, <1>3 DEF JobsInv, Pausing, ButtonsComeBack, forms
<1>5. PageInv'
  <2>1. staleTable' \in BOOLEAN
    BY <1>3
  <2> QED BY <1>0, <1>3, <2>1 DEF PageInv, banner, lists, picked, forms
<1>6. LoadsInv'
  BY <1>0, <1>2, <1>3 DEF LoadsInv
<1>7. TableInv'
  <2>1. Listing(m.q)' = Listing(m.q)
    BY <1>3 DEF Listing, Matches
  <2>2. Mends(m)'
    BY <1>2, <1>3, <2>1 DEF Mends
  <2> QED BY <1>3, <2>2 DEF TableInv
<1>8. BannerInv' /\ SelectionIsVisible' /\ AllsInv'
  BY <1>3, <1>4, BannerKept, SelectionKept DEF IInv, banner, lists, AllsInv
<1>9. RowsInv'
  BY <1>0, <1>2, <1>3 DEF IInv, RowsInv, Listing, Matches, forms
<1> QED BY <1>4, <1>5, <1>6, <1>7, <1>8, <1>9 DEF IInv

LEMMA LandLoadKeeps == ASSUME IInv, NEW l \in loads, LandLoad(l) PROVE IInv'
<1>0. PageInv /\ ButtonsComeBack /\ JobsInv /\ LoadsInv /\ loads = {l} /\ l \in ALoad
  BY OneLoad DEF IInv
<1>1. /\ loads' = {} /\ jobs' = Resumed(jobs, {l}) /\ entries' = l.got /\ l.got \in Listings
      /\ Prune(l.got, obsOnly, names) /\ fetching' = (fetching /\ l.kind # "effect")
      /\ staleTable' = (staleTable \/ (l.kind = "refetch" /\ l.q # query))
      /\ UNCHANGED <<db, query, error, banner, lists, obsOnly, forms, staleBanner, events>>
  BY <1>0 DEF LandLoad, ALoad
<1>2. /\ \A k \in jobs' : Handler(k) /\ \E j \in jobs : Like(j, k)
      /\ \A j \in jobs : \E k \in jobs' : Like(j, k)
  <2>1. jobs' = Resumed(jobs, loads) /\ \A j \in jobs : Handler(j)
    BY <1>0, <1>1 DEF JobsInv
  <2> QED BY <2>1, ResumedLike
<1>3. JobsInv' /\ (Pausing => Pausing') /\ ButtonsComeBack'
  <2>1. JobsInv' /\ (Pausing => Pausing')
    BY <1>2 DEF JobsInv, Pausing, Like
  <2>2. UNCHANGED <<busy, create>> /\ edit'.saving = edit.saving
    BY <1>1 DEF forms
  <2>3. \A j \in jobs : \E k \in jobs' : k.op = j.op /\ k.live = j.live
    BY <1>2 DEF Like
  <2> QED BY <1>0, <2>1, <2>2, <2>3, ButtonsKept
<1>4. PageInv'
  <2>1. staleTable' \in BOOLEAN /\ fetching' \in BOOLEAN
    BY <1>1
  <2> QED BY <1>0, <1>1, <2>1 DEF PageInv, banner, lists, forms
<1>5. LoadsInv'
  BY <1>1 DEF LoadsInv
<1>6. TableInv'
  <2> SUFFICES ASSUME ~error', ~staleTable', ~Pausing' PROVE entries' = Listing(query)'
    BY <1>1 DEF TableInv
  <2>1. ~error /\ ~staleTable /\ ~(l.kind = "refetch" /\ l.q # query) /\ ~Pausing
    BY <1>1, <1>3
  <2>2. l.q = query
    BY <1>0, <2>1 DEF LoadsInv, ALoad
  <2>3. Mends(l)
    BY <1>0, <2>1 DEF IInv, TableInv
  <2>4. l.got = Listing(query)
    BY <1>1, <2>2, <2>3 DEF Mends, LandLoad
  <2> QED BY <1>1, <2>4 DEF Listing, Matches
<1>7. SelectionIsVisible'
  <2>1. Prune(entries', obsOnly', names')
    BY <1>1 DEF Prune, lists
  <2> QED BY <1>1, <2>1, Pruned DEF IInv
<1>8. BannerInv' /\ AllsInv'
  BY <1>1, <1>3, BannerKept DEF IInv, banner, AllsInv
<1>9. RowsInv'
  <2>1. entries' # None => \A i \in Id : entries'[i] # None => db'[i] # None
    BY <1>0, <1>1 DEF IInv, RowsInv
  <2>2. \A k \in jobs' : k.op = "edit" => db'[k.id] # None
    <3>1. db' = db /\ \A j \in jobs : j.op = "edit" => db[j.id] # None
      BY <1>1 DEF IInv, RowsInv
    <3>2. \A k \in jobs' : \E j \in jobs : k.op = j.op /\ k.id = j.id
      BY <1>2 DEF Like
    <3> QED BY <3>1, <3>2
  <2> QED BY <1>1, <2>1, <2>2 DEF IInv, RowsInv, forms
<1> QED BY <1>3, <1>4, <1>5, <1>6, <1>7, <1>8, <1>9 DEF IInv

LEMMA LoadFailsKeeps == ASSUME IInv, NEW l \in loads, LoadFails(l) PROVE IInv'
<1>0. PageInv /\ ButtonsComeBack /\ JobsInv /\ LoadsInv /\ loads = {l} /\ l \in ALoad
  BY OneLoad DEF IInv
<1> DEFINE R(j) == IF <<j.op, j.id>> = l.job THEN [j EXCEPT !.table = FALSE, !.banner = FALSE, !.failed = TRUE]
                   ELSE j
<1>1. /\ loads' = {} /\ events' \in 0 .. MaxEvents
      /\ jobs' = jobs \/ jobs' = {R(j) : j \in jobs}
      /\ \/ error' = TRUE /\ fetching' = FALSE /\ staleTable' = staleTable
         \/ staleTable' = TRUE /\ error' = error /\ fetching' = fetching
      /\ UNCHANGED <<db, query, entries, banner, lists, picked, forms, staleBanner>>
  <2>1. loads' = {} /\ UNCHANGED <<db, query, entries, banner, lists, picked, forms, staleBanner>>
    BY <1>0 DEF LoadFails
  <2>2. events' \in 0 .. MaxEvents
    BY <1>0, EventCounts DEF LoadFails
  <2>3. CASE l.kind = "effect"
    BY <2>1, <2>2, <2>3 DEF LoadFails
  <2>4. CASE l.kind # "effect"
    BY <2>1, <2>2, <2>4 DEF LoadFails
  <2> QED BY <2>3, <2>4
<1>2. ASSUME NEW j \in jobs PROVE Handler(R(j)) /\ Like(j, R(j)) /\ Handler(j) /\ Like(j, j)
  BY <1>0 DEF JobsInv, Handler, AJob, Like
<1> HIDE DEF R
<1>3. /\ \A k \in jobs' : Handler(k) /\ \E j \in jobs : Like(j, k)
      /\ \A j \in jobs : \E k \in jobs' : Like(j, k)
  BY <1>1, <1>2
<1>4. JobsInv' /\ (Pausing => Pausing') /\ ButtonsComeBack'
  BY <1>0, <1>1, <1>3, ButtonsKept DEF JobsInv, Pausing, Like, forms
<1>5. PageInv'
  <2>1. error' \in BOOLEAN /\ fetching' \in BOOLEAN /\ staleTable' \in BOOLEAN
    <3>1. error \in BOOLEAN /\ fetching \in BOOLEAN /\ staleTable \in BOOLEAN
      BY <1>0 DEF PageInv
    <3> QED BY <1>1, <3>1
  <2> QED BY <1>0, <1>1, <2>1 DEF PageInv, banner, lists, picked, forms
<1>6. LoadsInv' /\ TableInv'
  BY <1>1 DEF LoadsInv, TableInv
<1>7. BannerInv' /\ SelectionIsVisible' /\ AllsInv'
  BY <1>1, <1>4, BannerKept, SelectionKept DEF IInv, banner, lists, AllsInv
<1>8. RowsInv'
  BY <1>0, <1>1, <1>3, RowsKept DEF IInv, Like, forms
<1> QED BY <1>4, <1>5, <1>6, <1>7, <1>8 DEF IInv

-----------------------------------------------------------------------------
(* The banner's loads *)

\* A step of the banner leaves the table, the forms and the catalog.
LEMMA BannerSteps ==
  ASSUME IInv, UNCHANGED <<db, table, lists, picked, forms, staleTable>>,
         JobsInv', Pausing => Pausing', \A j \in jobs : \E k \in jobs' : Like(j, k),
         \A k \in jobs' : \E j \in jobs : Like(j, k),
         all' \in [rows : Listings \cup {None}, failed : BOOLEAN], staleBanner' \in BOOLEAN,
         events' \in 0 .. MaxEvents, AllsInv', BannerInv'
  PROVE  IInv'
<1>1. PageInv'
  BY DEF IInv, PageInv, table, lists, picked, forms
<1>2. ButtonsComeBack'
  BY ButtonsKept DEF IInv, forms, Like
<1>3. TableInv' /\ SelectionIsVisible' /\ LoadsInv'
  BY TableKept, SelectionKept, LoadsKept DEF IInv, table, lists
<1>4. RowsInv'
  BY RowsKept DEF IInv, table, forms, Like
<1> QED BY <1>1, <1>2, <1>3, <1>4 DEF IInv

LEMMA ServeAllKeeps == ASSUME IInv, NEW a \in alls, ServeAll(a) PROVE IInv'
<1>0. PageInv /\ JobsInv /\ AllsInv /\ BannerInv /\ a \in AnAll
  BY DEF IInv, AllsInv
<1>1. PICK b : b = [a EXCEPT !.got = Active]
  OBVIOUS
<1>2. b \in AnAll /\ b.newest = a.newest /\ b.got = Active
  <2>1. Active \in Listings
    BY <1>0, ListingTyped DEF PageInv
  <2> QED BY <1>0, <1>1, <2>1 DEF AnAll
<1>3. /\ alls' = (alls \ {a}) \cup {b} /\ staleBanner' = (staleBanner /\ ~a.newest)
      /\ UNCHANGED <<db, table, all, lists, picked, forms, jobs, staleTable, events>>
  BY <1>1 DEF ServeAll
<1>4. JobsInv' /\ (Pausing => Pausing') /\ Active' = Active
  BY <1>0, <1>3 DEF JobsInv, Pausing, Active
<1>5. AllsInv'
  BY <1>0, <1>2, <1>3 DEF AllsInv
<1>6. BannerInv'
  <2>1. CASE a.newest
    BY <1>2, <1>3, <1>4, <2>1 DEF BannerInv
  <2>2. CASE ~a.newest
    BY <1>0, <1>2, <1>3, <1>4, <2>2 DEF BannerInv
  <2> QED BY <2>1, <2>2
<1>7. staleBanner' \in BOOLEAN /\ events' \in 0 .. MaxEvents /\ all' \in [rows : Listings \cup {None}, failed : BOOLEAN]
  BY <1>0, <1>3 DEF PageInv
<1>8. \A j \in jobs : Like(j, j)
  BY DEF Like
<1> QED BY <1>3, <1>4, <1>5, <1>6, <1>7, <1>8, BannerSteps

LEMMA EndAllKeeps == ASSUME IInv, NEW a \in alls, LandAll(a) \/ AllFails(a) PROVE IInv'
<1>0. PageInv /\ JobsInv /\ AllsInv /\ BannerInv /\ a \in AnAll
  BY DEF IInv, AllsInv
<1>1. /\ alls' = alls \ {a} /\ jobs' = Counted(jobs, a)
      /\ UNCHANGED <<db, table, lists, picked, forms, stale>>
  BY DEF LandAll, AllFails
<1>2. \/ a.newest /\ a.got \in Listings /\ a.got # None /\ all' = [rows |-> a.got, failed |-> FALSE]
      \/ a.newest /\ all' = [all EXCEPT !.failed = TRUE]
      \/ ~a.newest /\ all' = all
  <2>1. CASE LandAll(a)
    BY <1>0, <2>1 DEF LandAll, KeepNewest, AnAll
  <2>2. CASE AllFails(a)
    <3>1. all \in [rows : Listings \cup {None}, failed : BOOLEAN] /\ a.newest \in BOOLEAN
      BY <1>0 DEF PageInv, AnAll
    <3>2. all' = [all EXCEPT !.failed = @ \/ a.newest]
      BY <2>2 DEF AllFails
    <3>3. CASE a.newest
      BY <3>1, <3>2, <3>3
    <3>4. CASE ~a.newest
      <4>1. (all.failed \/ a.newest) = all.failed
        BY <3>1, <3>4
      <4> QED BY <3>1, <3>2, <3>4, <4>1
    <3> QED BY <3>3, <3>4
  <2> QED BY <2>1, <2>2
<1>3. \A j \in jobs : Handler(j)
  BY <1>0 DEF JobsInv
<1>4. /\ \A k \in jobs' : Handler(k) /\ \E j \in jobs : Like(j, k)
      /\ \A j \in jobs : \E k \in jobs' : Like(j, k)
  BY <1>1, <1>3, CountedLike
<1>5. JobsInv' /\ (Pausing => Pausing') /\ Active' = Active
  BY <1>1, <1>4 DEF JobsInv, Pausing, Like, Active
<1>6. AllsInv'
  BY <1>0, <1>1 DEF AllsInv
<1>7. events' \in 0 .. MaxEvents /\ staleBanner' = staleBanner /\ staleTable' = staleTable
  BY <1>0, <1>1, EventCounts DEF LandAll, AllFails, PageInv, stale
<1>8. all' \in [rows : Listings \cup {None}, failed : BOOLEAN]
  <2>1. all \in [rows : Listings \cup {None}, failed : BOOLEAN]
    BY <1>0 DEF PageInv
  <2>2. CASE a.got \in Listings /\ all' = [rows |-> a.got, failed |-> FALSE]
    BY <2>2
  <2>3. CASE all' = [all EXCEPT !.failed = TRUE]
    BY <2>1, <2>3
  <2> QED BY <1>2, <2>1, <2>2, <2>3
<1>9. BannerInv'
  <2> SUFFICES ASSUME ~staleBanner, ~Pausing, ~Pausing'
               PROVE  \/ \E b \in alls' : b.newest /\ b.got \in {None, Active'}
                      \/ (\A b \in alls' : ~b.newest) /\ (all'.failed \/ all'.rows = Active')
    BY <1>5, <1>7 DEF BannerInv
  <2>1. CASE a.newest
    <3>1. \A b \in alls' : ~b.newest
      BY <1>0, <1>1, <2>1 DEF AllsInv
    <3>2. a.got \in {None, Active}
      BY <1>0, <2>1 DEF BannerInv, AllsInv
    <3>3. CASE all' = [rows |-> a.got, failed |-> FALSE] /\ a.got # None
      BY <1>5, <3>1, <3>2, <3>3
    <3>4. CASE all' = [all EXCEPT !.failed = TRUE]
      <4>1. all'.failed
        BY <1>0, <3>4 DEF PageInv
      <4> QED BY <3>1, <4>1
    <3> QED BY <1>2, <2>1, <3>3, <3>4
  <2>2. CASE ~a.newest
    BY <1>0, <1>1, <1>2, <1>5, <2>2 DEF BannerInv
  <2> QED BY <2>1, <2>2
<1>10. /\ \A j \in jobs : \E k \in jobs' : Like(j, k)
       /\ \A k \in jobs' : \E j \in jobs : Like(j, k)
  BY <1>4
<1>11. UNCHANGED <<db, table, lists, picked, forms, staleTable>> /\ staleBanner' \in BOOLEAN
  BY <1>0, <1>1, <1>7 DEF PageInv
<1> QED BY <1>5, <1>6, <1>7, <1>8, <1>9, <1>10, <1>11, BannerSteps

-----------------------------------------------------------------------------
(* Handlers write and read again *)

Writes(j) == j.op \in {"delete", "restore", "create"}

\* A row is written over: the catalog has no fewer rows than before.
LEMMA RowWritten ==
  ASSUME db \in Listings, NEW i \in Id, NEW r \in Row
  PROVE  /\ [db EXCEPT ![i] = r] \in Listings
         /\ \A n \in Id : db[n] # None => [db EXCEPT ![i] = r][n] # None
<1>1. r # None
  OBVIOUS
<1> QED BY <1>1 DEF Listings

\* What a handler writes is a row, and no row goes.
LEMMA WrittenTyped ==
  ASSUME db \in Listings, NEW j, Handler(j), Writes(j), Accepted(j)
  PROVE  Written(j) \in Listings /\ \A i \in Id : db[i] # None => Written(j)[i] # None
<1>1. j.id \in Id
  BY DEF Handler, Writes
<1>2. PICK r : r = IF j.op = "delete" THEN [db[j.id] EXCEPT !.live = FALSE]
                   ELSE IF j.op = "restore" THEN [db[j.id] EXCEPT !.live = TRUE]
                   ELSE [live |-> TRUE, data |-> j.patch]
  OBVIOUS
<1>3. r \in Row
  <2>1. CASE j.op = "create"
    BY <1>2, <2>1 DEF Handler, Row
  <2>2. CASE j.op # "create"
    <3>1. db[j.id] \in Row
      BY <1>1, <2>2 DEF Accepted, Listings, Writes
    <3> QED BY <1>2, <2>2, <3>1 DEF Writes, Row
  <2> QED BY <2>1, <2>2
<1>4. Written(j) = [db EXCEPT ![j.id] = r]
  BY <1>2 DEF Written, Writes
<1>5. PICK i \in Id : i = j.id
  BY <1>1
<1>6. [db EXCEPT ![i] = r] \in Listings /\ \A n \in Id : db[n] # None => [db EXCEPT ![i] = r][n] # None
  BY <1>3, RowWritten
<1> QED BY <1>4, <1>5, <1>6

\* refreshAll makes both lists true to come, whatever was on its way.
LEMMA RefreshKeeps ==
  ASSUME IInv, NEW j \in jobs, Writes(j), Refresh(j, jobs \ {j}),
         db' \in Listings, \A i \in Id : db[i] # None => db'[i] # None,
         UNCHANGED <<query, entries, error, fetching, all, lists, picked, forms, stale, events>>
  PROVE  IInv'
<1>0. PageInv /\ JobsInv /\ AllsInv /\ ButtonsComeBack /\ RowsInv /\ Handler(j)
  BY DEF IInv, JobsInv
<1>1. PICK k : k = [j EXCEPT !.stage = "refresh", !.table = TRUE, !.banner = TRUE]
  OBVIOUS
<1>2. Handler(k) /\ k.op = j.op /\ k.id = j.id /\ k.live = j.live
  BY <1>0, <1>1 DEF Handler, AJob, Writes
<1>3. PICK c : c = <<j.op, j.id>>
  OBVIOUS
<1>4. c \in Caller
  BY <1>0, <1>3, CallerTyped
<1>5. PICK l : l = Load("refetch", j.q, c)
  OBVIOUS
<1>6. l \in ALoad /\ l.kind = "refetch" /\ l.got = None
  <2>1. j.q \in Query
    BY <1>0 DEF Handler, AJob
  <2> QED BY <1>4, <1>5, <2>1, LoadTyped
<1>7. PICK js : js = (jobs \ {j}) \cup {k}
  OBVIOUS
<1>8. loads' = {l} /\ jobs' = Resumed(js, loads) /\ alls' = Supersede(c)
  BY <1>1, <1>3, <1>5, <1>7 DEF Refresh, Start
<1>9. \A m \in js : Handler(m)
  BY <1>0, <1>2, <1>7 DEF JobsInv
<1>10. /\ \A n \in jobs' : Handler(n) /\ \E m \in js : Like(m, n)
       /\ \A m \in js : \E n \in jobs' : Like(m, n)
  BY <1>8, <1>9, ResumedLike
<1>11. JobsInv'
  BY <1>10 DEF JobsInv
<1>12. ButtonsComeBack'
  <2>1. \A m \in jobs : \E n \in js : n.op = m.op /\ n.live = m.live
    BY <1>2, <1>7
  <2>2. \A m \in js : \E n \in jobs' : n.op = m.op /\ n.live = m.live
    BY <1>10 DEF Like
  <2>3. \A m \in jobs : \E n \in jobs' : n.op = m.op /\ n.live = m.live
    BY <2>1, <2>2
  <2> QED BY <1>0, <2>3, ButtonsKept DEF forms
<1>13. PageInv'
  BY <1>0 DEF PageInv, lists, picked, forms, stale
<1>14. LoadsInv' /\ TableInv'
  BY <1>6, <1>8 DEF LoadsInv, TableInv, Mends
<1>15. /\ All(c) \in AnAll /\ All(c).newest /\ All(c).got = None
       /\ alls' = {[a EXCEPT !.newest = FALSE] : a \in alls} \cup {All(c)}
  BY <1>4, <1>8 DEF All, AnAll, Supersede
<1>16. \A a \in alls : [a EXCEPT !.newest = FALSE] \in AnAll /\ ~[a EXCEPT !.newest = FALSE].newest
  BY <1>0 DEF AllsInv, AnAll
<1>17. AllsInv' /\ BannerInv'
  BY <1>15, <1>16 DEF AllsInv, BannerInv
<1>18. SelectionIsVisible'
  BY SelectionKept DEF IInv, lists
<1>19. RowsInv'
  <2>1. \A n \in jobs' : n.op = "edit" => \E m \in jobs : m.op = "edit" /\ m.id = n.id
    BY <1>2, <1>7, <1>10 DEF Like, Writes
  <2>2. \A m \in loads' : m.got = None
    BY <1>6, <1>8
  <2> QED BY <1>0, <2>1, <2>2, RowsKept DEF forms
<1> QED BY <1>11, <1>12, <1>13, <1>14, <1>17, <1>18, <1>19 DEF IInv

\* A handler goes on to its next stage: its buttons stay pressed.
LEMMA StageKept ==
  ASSUME IInv, NEW j \in jobs, Writes(j), NEW k, Handler(k), k.op = j.op, k.live = j.live,
         jobs' = (jobs \ {j}) \cup {k}, UNCHANGED forms
  PROVE  JobsInv' /\ ButtonsComeBack'
         /\ \A n \in jobs' : n.op = "edit" => \E m \in jobs : m.op = "edit" /\ m.id = n.id
<1>1. JobsInv /\ ButtonsComeBack
  BY DEF IInv
<1>2. JobsInv'
  BY <1>1 DEF JobsInv
<1>3. \A m \in jobs : \E n \in jobs' : n.op = m.op /\ n.live = m.live
  OBVIOUS
<1>4. ButtonsComeBack'
  BY <1>1, <1>3, ButtonsKept DEF forms
<1> QED BY <1>2, <1>4 DEF Writes

LEMMA DoneKeeps == ASSUME IInv, NEW j \in jobs, Done(j) PROVE IInv'
<1>0. PageInv /\ JobsInv /\ AllsInv /\ RowsInv /\ Handler(j) /\ Writes(j) /\ db \in Listings
  BY DEF IInv, JobsInv, Done, Writes, PageInv
<1>1. /\ db' \in Listings /\ \A i \in Id : db[i] # None => db'[i] # None
      /\ UNCHANGED <<query, entries, error, fetching, all, lists, picked, forms, stale, events>>
  BY <1>0, WrittenTyped DEF Done
<1>2. CASE j.op # "delete"
  BY <1>0, <1>1, <1>2, RefreshKeeps DEF Done
<1>3. CASE j.op = "delete"
  <2>1. PICK k : k = [j EXCEPT !.stage = "pause"]
    OBVIOUS
  <2>2. Handler(k) /\ k.op = j.op /\ k.live = j.live /\ k.stage = "pause"
    BY <1>0, <1>3, <2>1 DEF Handler, AJob
  <2>3. jobs' = (jobs \ {j}) \cup {k} /\ UNCHANGED <<loads, alls>>
    BY <1>3, <2>1 DEF Done
  <2>4. /\ JobsInv' /\ ButtonsComeBack'
        /\ \A n \in jobs' : n.op = "edit" => \E m \in jobs : m.op = "edit" /\ m.id = n.id
    BY <1>0, <1>1, <2>2, <2>3, StageKept
  <2>5. Pausing'
    BY <2>2, <2>3 DEF Pausing
  <2>6. TableInv' /\ BannerInv'
    BY <2>5 DEF TableInv, BannerInv
  <2>7. PageInv'
    BY <1>0, <1>1 DEF PageInv, lists, picked, forms, stale
  <2>8. LoadsInv' /\ AllsInv' /\ SelectionIsVisible'
    BY <1>0, <1>1, <2>3, LoadsKept, SelectionKept DEF IInv, AllsInv, lists
  <2>9. RowsInv'
    BY <1>0, <1>1, <2>3, <2>4, RowsKept DEF forms
  <2> QED BY <2>4, <2>6, <2>7, <2>8, <2>9 DEF IInv
<1> QED BY <1>2, <1>3

LEMMA FadedKeeps == ASSUME IInv, NEW j \in jobs, Faded(j) PROVE IInv'
<1>1. Handler(j) /\ j.stage = "pause" /\ j.op \in Op /\ db' = db /\ db \in Listings
  BY DEF IInv, JobsInv, Handler, AJob, Faded, PageInv
<1>2. Writes(j)
  BY <1>1 DEF Handler, Writes, Op
<1> QED BY <1>1, <1>2, RefreshKeeps DEF Faded

LEMMA DoFailsKeeps == ASSUME IInv, NEW j \in jobs, NEW stored \in BOOLEAN, DoFails(j, stored) PROVE IInv'
<1>0. PageInv /\ JobsInv /\ AllsInv /\ RowsInv /\ Handler(j) /\ Writes(j) /\ db \in Listings
  BY DEF IInv, JobsInv, DoFails, Writes, PageInv
<1>1. PICK k : k = [j EXCEPT !.stage = "refresh", !.failed = TRUE]
  OBVIOUS
<1>2. Handler(k) /\ k.op = j.op /\ k.live = j.live /\ j.stage = "call"
  BY <1>0, <1>1 DEF Handler, AJob, Writes, DoFails
<1>3. jobs' = (jobs \ {j}) \cup {k} /\ UNCHANGED <<table, banner, lists, picked, forms>>
  BY <1>1 DEF DoFails
<1>4. /\ db' \in Listings /\ \A i \in Id : db[i] # None => db'[i] # None
      /\ staleTable' \in BOOLEAN /\ staleBanner' \in BOOLEAN /\ events' \in 0 .. MaxEvents
      /\ (db' = db /\ UNCHANGED stale) \/ (staleTable' /\ staleBanner')
  <2>1. CASE ~stored
    <3>1. db' = db /\ UNCHANGED stale
      BY <1>0, <2>1 DEF DoFails, stale, PageInv
    <3>2. events' \in 0 .. MaxEvents
      BY <1>0, EventCounts DEF DoFails, PageInv
    <3> QED BY <1>0, <3>1, <3>2 DEF PageInv, stale
  <2>2. CASE stored
    <3>1. Accepted(j) /\ db' = Written(j) /\ staleTable' = TRUE /\ staleBanner' = TRUE /\ Event
      BY <2>2 DEF DoFails
    <3> QED BY <1>0, <3>1, WrittenTyped, EventCounts
  <2> QED BY <2>1, <2>2
<1>5. /\ JobsInv' /\ ButtonsComeBack'
      /\ \A n \in jobs' : n.op = "edit" => \E m \in jobs : m.op = "edit" /\ m.id = n.id
  BY <1>0, <1>2, <1>3, StageKept
<1>6. Pausing => Pausing'
  BY <1>2, <1>3 DEF Pausing
<1>7. TableInv' /\ BannerInv'
  <2>1. CASE db' = db /\ UNCHANGED stale
    BY <1>3, <1>6, <2>1, TableKept, BannerKept DEF IInv, table, banner, stale
  <2>2. CASE staleTable' /\ staleBanner'
    BY <2>2 DEF TableInv, BannerInv
  <2> QED BY <1>4, <2>1, <2>2
<1>8. PageInv'
  BY <1>0, <1>3, <1>4 DEF PageInv, table, banner, lists, picked, forms
<1>9. LoadsInv' /\ AllsInv' /\ SelectionIsVisible'
  BY <1>0, <1>3, LoadsKept, SelectionKept DEF IInv, AllsInv, table, banner, lists
<1>10. RowsInv'
  BY <1>0, <1>3, <1>4, <1>5, RowsKept DEF table, forms
<1> QED BY <1>5, <1>7, <1>8, <1>9, <1>10 DEF IInv

-----------------------------------------------------------------------------
(* Handlers end *)

\* A handler that ends gives back what it pressed; the others keep theirs.
LEMMA FinishKeeps == ASSUME IInv, NEW j \in jobs, Finish(j) PROVE IInv'
<1>0. PageInv /\ JobsInv /\ ButtonsComeBack /\ Handler(j) /\ j.stage = "refresh" /\ Writes(j)
  <2>1. PageInv /\ JobsInv /\ ButtonsComeBack /\ Handler(j) /\ j.stage = "refresh"
    BY DEF IInv, JobsInv, Finish
  <2> QED BY <2>1 DEF Handler, AJob, Op, Writes
<1> DEFINE R(k) == IF j.op = "create" /\ ~j.failed /\ k.op = "create" THEN [k EXCEPT !.live = FALSE] ELSE k
<1>1. /\ jobs' = {R(k) : k \in jobs \ {j}} /\ Release(j)
      /\ UNCHANGED <<db, table, banner, lists, picked, confirm, edit, stale, events>>
  BY DEF Finish
<1>2. ASSUME NEW k \in jobs
      PROVE  /\ Handler(R(k)) /\ R(k).op = k.op /\ R(k).id = k.id /\ R(k).stage = k.stage
             /\ j.op # "create" \/ j.failed => R(k) = k
  BY <1>0 DEF JobsInv, Handler, AJob
<1> HIDE DEF R
<1>3. /\ JobsInv' /\ (Pausing => Pausing')
      /\ \A n \in jobs' : n.op = "edit" => \E m \in jobs : m.op = "edit" /\ m.id = n.id
  BY <1>0, <1>1, <1>2 DEF JobsInv, Pausing
<1>4. /\ busy' \in [deleting : Id \cup {None}, restoring : Id \cup {None}, exporting : BOOLEAN]
      /\ create' \in [open : BOOLEAN, saving : BOOLEAN]
      /\ busy'.deleting = IF j.op = "delete" THEN None ELSE busy.deleting
      /\ busy'.restoring = IF j.op = "restore" THEN None ELSE busy.restoring
      /\ busy'.exporting = busy.exporting
      /\ j.op = "create" /\ (~j.failed \/ j.live) => ~create'.saving
      /\ j.op # "create" \/ (j.failed /\ ~j.live) => create'.saving = create.saving
  <2>1. /\ busy \in [deleting : Id \cup {None}, restoring : Id \cup {None}, exporting : BOOLEAN]
        /\ create \in [open : BOOLEAN, saving : BOOLEAN]
    BY <1>0 DEF PageInv
  <2>2. CASE j.op = "delete"
    <3>1. busy' = [busy EXCEPT !.deleting = None] /\ create' = create
      BY <1>1, <2>2 DEF Release
    <3> QED BY <2>1, <2>2, <3>1
  <2>3. CASE j.op = "restore"
    <3>1. busy' = [busy EXCEPT !.restoring = None] /\ create' = create
      BY <1>1, <2>3 DEF Release
    <3> QED BY <2>1, <2>3, <3>1
  <2>4. CASE j.op = "create"
    <3>1. /\ busy' = busy
          /\ create' = IF ~j.failed THEN [open |-> FALSE, saving |-> FALSE]
                       ELSE IF j.live THEN [create EXCEPT !.saving = FALSE] ELSE create
      BY <1>1, <2>4 DEF Release
    <3>2. CASE ~j.failed
      BY <2>1, <2>4, <3>1, <3>2
    <3>3. CASE j.failed /\ j.live
      BY <2>1, <2>4, <3>1, <3>3
    <3>4. CASE j.failed /\ ~j.live
      BY <2>1, <2>4, <3>1, <3>4
    <3> QED BY <3>2, <3>3, <3>4
  <2> QED BY <1>0, <2>2, <2>3, <2>4 DEF Writes
<1>5. ButtonsComeBack'
  <2>1. \A k \in jobs : k # j => \E n \in jobs' : n.op = k.op /\ (j.op # "create" \/ j.failed => n = k)
    BY <1>1, <1>2
  <2>2. busy'.deleting # None => \E n \in jobs' : n.op = "delete"
    BY <1>0, <1>4, <2>1 DEF ButtonsComeBack
  <2>3. busy'.restoring # None => \E n \in jobs' : n.op = "restore"
    BY <1>0, <1>4, <2>1 DEF ButtonsComeBack
  <2>4. busy'.exporting => \E n \in jobs' : n.op = "export"
    BY <1>0, <1>4, <2>1 DEF ButtonsComeBack, Writes
  <2>5. create'.saving => \E n \in jobs' : n.op = "create" /\ n.live
    BY <1>0, <1>4, <2>1 DEF ButtonsComeBack
  <2>6. edit'.saving => \E n \in jobs' : n.op = "edit"
    BY <1>0, <1>1, <2>1 DEF ButtonsComeBack, Writes
  <2> QED BY <2>2, <2>3, <2>4, <2>5, <2>6 DEF ButtonsComeBack
<1>6. PageInv'
  BY <1>0, <1>1, <1>4 DEF PageInv, table, banner, lists, picked, stale
<1>7. TableInv' /\ BannerInv' /\ LoadsInv' /\ AllsInv' /\ SelectionIsVisible'
  BY <1>1, <1>3, TableKept, BannerKept, LoadsKept, SelectionKept DEF IInv, AllsInv, table, banner, lists, stale
<1>8. RowsInv'
  BY <1>0, <1>1, <1>3, RowsKept DEF IInv, table
<1> QED BY <1>3, <1>5, <1>6, <1>7, <1>8 DEF IInv

LEMMA ExportedKeeps == ASSUME IInv, NEW j \in jobs, Exported(j) PROVE IInv'
<1>0. PageInv /\ JobsInv /\ ButtonsComeBack /\ Handler(j) /\ j.stage = "call"
  BY DEF IInv, JobsInv, Exported, Handler
<1>1. /\ jobs' = jobs \ {j} /\ j.op = "export" /\ busy' = [busy EXCEPT !.exporting = FALSE]
      /\ UNCHANGED <<db, table, banner, lists, picked, confirm, edit, create, stale, events>>
  BY DEF Exported
<1>2. /\ busy' \in [deleting : Id \cup {None}, restoring : Id \cup {None}, exporting : BOOLEAN]
      /\ busy'.deleting = busy.deleting /\ busy'.restoring = busy.restoring /\ ~busy'.exporting
  BY <1>0, <1>1 DEF PageInv
<1>3. ButtonsComeBack'
  BY <1>0, <1>1, <1>2 DEF ButtonsComeBack
<1>4. JobsInv' /\ (Pausing => Pausing')
  BY <1>0, <1>1 DEF JobsInv, Pausing
<1>5. PageInv'
  BY <1>0, <1>1, <1>2 DEF PageInv, table, banner, lists, picked, stale
<1>6. TableInv' /\ BannerInv' /\ LoadsInv' /\ AllsInv' /\ SelectionIsVisible'
  BY <1>1, <1>4, TableKept, BannerKept, LoadsKept, SelectionKept DEF IInv, AllsInv, table, banner, lists, stale
<1>7. RowsInv'
  BY <1>0, <1>1, RowsKept DEF IInv, table
<1> QED BY <1>3, <1>4, <1>5, <1>6, <1>7 DEF IInv

\* The PATCH writes fields of a row that is there.
LEMMA PatchedTyped ==
  ASSUME IInv, NEW j \in jobs, j.op = "edit"
  PROVE  /\ Patched(j) \in Listings /\ \A n \in Id : db[n] # None => Patched(j)[n] # None
         /\ j.id \in Id /\ Patched(j)[j.id] \in Row /\ \A n \in Id : n # j.id => Patched(j)[n] = db[n]
         /\ \A f \in Field \ (j.touched \cup j.refilled) : Patched(j)[j.id].data[f] = db[j.id].data[f]
<1>1. /\ db \in Listings /\ Handler(j) /\ j.id \in Id /\ db[j.id] # None
      /\ DOMAIN j.patch \subseteq j.touched \cup j.refilled /\ \A f \in DOMAIN j.patch : j.patch[f] \in Value
  <2>1. db \in Listings /\ Handler(j) /\ j.id \in Id /\ db[j.id] # None
    BY DEF IInv, PageInv, JobsInv, Handler, RowsInv
  <2>2. PICK fs \in SUBSET (Field \cap (j.touched \cup j.refilled)) : j.patch \in [fs -> Value]
    BY <2>1 DEF Handler
  <2> QED BY <2>1, <2>2
<1>2. db[j.id] \in Row /\ db[j.id].data \in [Field -> Value]
  BY <1>1 DEF Listings, Row, Data
<1>3. PICK d : d = [f \in Field |-> IF f \in DOMAIN j.patch /\ (f \in Scored => j.patch[f] # NoScore) THEN j.patch[f] ELSE db[j.id].data[f]]
  OBVIOUS
<1>4. d \in Data /\ \A f \in Field \ (j.touched \cup j.refilled) : d[f] = db[j.id].data[f]
  BY <1>1, <1>2, <1>3 DEF Data
<1>5. PICK r : r = [db[j.id] EXCEPT !.data = d]
  OBVIOUS
<1>6. r \in Row /\ r.data = d
  BY <1>2, <1>4, <1>5 DEF Row
<1>7. Patched(j) = [db EXCEPT ![j.id] = r]
  BY <1>3, <1>5 DEF Patched
<1>8. PICK i \in Id : i = j.id
  BY <1>1
<1>9. [db EXCEPT ![i] = r] \in Listings /\ \A n \in Id : db[n] # None => [db EXCEPT ![i] = r][n] # None
  BY <1>1, <1>6, RowWritten
<1>10. [db EXCEPT ![i] = r][i] = r /\ \A n \in Id : n # i => [db EXCEPT ![i] = r][n] = db[n]
  BY <1>1 DEF Listings
<1> QED BY <1>1, <1>4, <1>6, <1>7, <1>8, <1>9, <1>10

LEMMA EditFailsKeeps == ASSUME IInv, NEW j \in jobs, NEW stored \in BOOLEAN, EditFails(j, stored) PROVE IInv'
<1>0. PageInv /\ JobsInv /\ ButtonsComeBack /\ RowsInv /\ Handler(j) /\ j.op = "edit" /\ j.stage = "call"
  BY DEF IInv, JobsInv, EditFails, Handler
<1>1. /\ jobs' = jobs \ {j} /\ edit' = [edit EXCEPT !.saving = FALSE] /\ Event
      /\ db' = (IF stored THEN Patched(j) ELSE db)
      /\ staleTable' = (staleTable \/ stored) /\ staleBanner' = (staleBanner \/ stored)
      /\ UNCHANGED <<table, banner, lists, picked, confirm, busy, create>>
  BY DEF EditFails
<1>2. /\ db' \in Listings /\ \A i \in Id : db[i] # None => db'[i] # None
      /\ staleTable' \in BOOLEAN /\ staleBanner' \in BOOLEAN
  BY <1>0, <1>1, PatchedTyped DEF PageInv
<1>3. /\ edit' \in [on : Id \cup {None}, base : Data \cup {None}, draft : Data \cup {None}, saving : BOOLEAN]
      /\ edit'.on = edit.on /\ (edit'.on # None => {edit'.base, edit'.draft} \subseteq Data) /\ ~edit'.saving
  BY <1>0, <1>1 DEF PageInv
<1>4. JobsInv' /\ (Pausing => Pausing')
  BY <1>0, <1>1 DEF JobsInv, Pausing
<1>5. ButtonsComeBack'
  BY <1>0, <1>1, <1>3 DEF ButtonsComeBack
<1>6. TableInv' /\ BannerInv'
  <2>1. CASE stored
    BY <1>1, <2>1 DEF TableInv, BannerInv
  <2>2. CASE ~stored
    <3>1. db' = db /\ staleTable' = staleTable /\ staleBanner' = staleBanner
      BY <1>0, <1>1, <2>2 DEF PageInv
    <3> QED BY <1>1, <1>4, <3>1, TableKept, BannerKept DEF IInv, table, banner
  <2> QED BY <2>1, <2>2
<1>7. PageInv'
  BY <1>0, <1>1, <1>2, <1>3, EventCounts DEF PageInv, table, banner, lists, picked
<1>8. LoadsInv' /\ AllsInv' /\ SelectionIsVisible'
  BY <1>1, LoadsKept, SelectionKept DEF IInv, AllsInv, table, banner, lists
<1>9. RowsInv'
  BY <1>0, <1>1, <1>2, <1>3, RowsKept DEF table
<1> QED BY <1>4, <1>5, <1>6, <1>7, <1>8, <1>9 DEF IInv

LEMMA ElsewhereKeeps == ASSUME IInv, NEW i \in Id, NEW r \in Incoming, Elsewhere(i, r) PROVE IInv'
<1>0. PageInv /\ JobsInv /\ ButtonsComeBack /\ RowsInv /\ r \in Row /\ db \in Listings
  BY DEF IInv, PageInv
<1>1. /\ db' = [db EXCEPT ![i] = r] /\ staleTable' = TRUE /\ staleBanner' = TRUE /\ Event
      /\ UNCHANGED <<table, banner, lists, picked, forms, jobs>>
  BY DEF Elsewhere
<1>2. db' \in Listings /\ \A n \in Id : db[n] # None => db'[n] # None
  BY <1>0, <1>1, RowWritten
<1>3. PageInv'
  <2>1. staleTable' \in BOOLEAN /\ staleBanner' \in BOOLEAN
    BY <1>1
  <2> QED BY <1>0, <1>1, <1>2, <2>1, EventCounts DEF PageInv, table, banner, lists, picked, forms
<1>4. TableInv' /\ BannerInv' /\ JobsInv' /\ ButtonsComeBack'
  BY <1>0, <1>1 DEF TableInv, BannerInv, JobsInv, ButtonsComeBack, forms
<1>5. LoadsInv' /\ AllsInv' /\ SelectionIsVisible'
  BY <1>1, LoadsKept, SelectionKept DEF IInv, AllsInv, table, banner, lists
<1>6. RowsInv'
  BY <1>0, <1>1, <1>2, RowsKept DEF table, forms
<1> QED BY <1>3, <1>4, <1>5, <1>6 DEF IInv

\* The answer of a PATCH replaces the row where it stands; a table that is
\* then not the query's says so.
LEMMA SavedKeeps == ASSUME IInv, NEW j \in jobs, SavedEdit(j) PROVE IInv'
<1>0. /\ PageInv /\ JobsInv /\ ButtonsComeBack /\ RowsInv /\ AllsInv /\ LoadsInv
      /\ Handler(j) /\ j.op = "edit" /\ j.stage = "call"
  BY DEF IInv, JobsInv, SavedEdit, Handler
<1>1. /\ db' \in Listings /\ \A n \in Id : db[n] # None => db'[n] # None
      /\ j.id \in Id /\ db'[j.id] \in Row /\ \A n \in Id : n # j.id => db'[n] = db[n]
  BY <1>0, PatchedTyped DEF SavedEdit
<1>2. PICK wrote : wrote = db'[j.id]
  OBVIOUS
<1>3. PICK t : t = IF entries # None /\ entries[j.id] # None THEN [entries EXCEPT ![j.id] = wrote] ELSE entries
  OBVIOUS
<1>4. /\ entries' = t /\ Prune(t, obsOnly, names) /\ edit' = Closed /\ alls' = Supersede(None)
      /\ jobs' = jobs \ {j}
      /\ staleTable' = (\/ staleTable \/ \E l \in loads : l.got # None
                        \/ t # None /\ (t[j.id] # None) # Matches(query, wrote))
      /\ UNCHANGED <<query, error, fetching, loads, all, lists, obsOnly, confirm, busy, create, staleBanner, events>>
  BY <1>2, <1>3 DEF SavedEdit
<1>5. wrote \in Row /\ wrote # None /\ entries \in Listings \cup {None} /\ db \in Listings
  BY <1>0, <1>1, <1>2 DEF PageInv
<1>6. /\ t \in Listings \cup {None} /\ (t = None <=> entries = None)
      /\ t # None => \A n \in Id : /\ t[n] # None <=> entries[n] # None
                                   /\ n # j.id => t[n] = entries[n]
                                   /\ n = j.id /\ t[n] # None => t[n] = wrote
  <2>1. CASE entries # None /\ entries[j.id] # None
    <3>1. t = [entries EXCEPT ![j.id] = wrote] /\ entries \in Listings
      BY <1>3, <1>5, <2>1
    <3>2. t \in Listings
      BY <1>1, <1>5, <3>1 DEF Listings
    <3> QED BY <1>1, <1>5, <2>1, <3>1, <3>2 DEF Listings
  <2>2. CASE ~(entries # None /\ entries[j.id] # None)
    BY <1>3, <1>5, <2>2
  <2> QED BY <2>1, <2>2
<1>7. /\ edit' \in [on : Id \cup {None}, base : Data \cup {None}, draft : Data \cup {None}, saving : BOOLEAN]
      /\ edit'.on = None /\ ~edit'.saving
  <2>1. edit' = [on |-> None, base |-> None, draft |-> None, saving |-> FALSE]
    BY <1>4 DEF Closed
  <2> QED BY <2>1
<1>8. PageInv'
  <2>1. staleTable' \in BOOLEAN
    BY <1>4
  <2> QED BY <1>0, <1>1, <1>4, <1>6, <1>7, <2>1 DEF PageInv, lists
<1>9. JobsInv' /\ (Pausing => Pausing') /\ ButtonsComeBack'
  BY <1>0, <1>4, <1>7 DEF JobsInv, Pausing, ButtonsComeBack
<1>10. TableInv'
  <2> SUFFICES ASSUME ~error', ~staleTable', ~Pausing'
               PROVE  (\E l \in loads : l.got = None) \/ (loads = {} /\ t = Listing(query)')
    BY <1>4 DEF TableInv, Mends
  <2>1. ~error /\ ~staleTable /\ ~Pausing /\ (\A l \in loads : l.got = None)
        /\ (t # None => ((t[j.id] # None) <=> Matches(query, wrote)))
    BY <1>4, <1>9
  <2>2. CASE loads # {}
    BY <2>1, <2>2
  <2>3. CASE loads = {}
    <3>1. entries = Listing(query) /\ entries \in Listings
      BY <1>0, <2>1, <2>3, ListingTyped DEF IInv, TableInv, PageInv
    <3>2. t # None /\ t \in Listings
      BY <1>6, <3>1
    <3>3. \A n \in Id : t[n] = IF Matches(query, db'[n]) THEN db'[n] ELSE None
      <4>1. ASSUME NEW n \in Id, n # j.id PROVE t[n] = IF Matches(query, db'[n]) THEN db'[n] ELSE None
        <5>1. entries[n] = IF Matches(query, db[n]) THEN db[n] ELSE None
          BY <3>1 DEF Listing
        <5> QED BY <1>1, <1>6, <3>2, <4>1, <5>1
      <4>2. t[j.id] = IF Matches(query, wrote) THEN wrote ELSE None
        BY <1>1, <1>6, <2>1, <3>2
      <4> QED BY <1>2, <4>1, <4>2
    <3>4. t = [n \in Id |-> IF Matches(query, db'[n]) THEN db'[n] ELSE None]
      BY <3>2, <3>3 DEF Listings
    <3> QED BY <1>4, <2>3, <3>4 DEF Listing, Matches
  <2> QED BY <2>2, <2>3
<1>11. AllsInv' /\ BannerInv'
  <2>1. /\ All(None) \in AnAll /\ All(None).newest /\ All(None).got = None
        /\ alls' = {[a EXCEPT !.newest = FALSE] : a \in alls} \cup {All(None)}
    BY <1>4 DEF All, AnAll, Supersede, Caller
  <2>2. \A a \in alls : [a EXCEPT !.newest = FALSE] \in AnAll /\ ~[a EXCEPT !.newest = FALSE].newest
    BY <1>0 DEF AllsInv, AnAll
  <2> QED BY <2>1, <2>2 DEF AllsInv, BannerInv
<1>12. LoadsInv'
  BY <1>4, LoadsKept DEF IInv
<1>13. SelectionIsVisible'
  <2>1. Prune(entries', obsOnly', names')
    BY <1>4 DEF Prune, lists
  <2> QED BY <1>4, <1>6, <2>1, Pruned DEF IInv
<1>14. RowsInv'
  <2>1. entries' # None => \A n \in Id : entries'[n] # None => db'[n] # None
    BY <1>0, <1>1, <1>4, <1>6 DEF RowsInv
  <2>2. \A l \in loads' : l.got # None => \A n \in Id : l.got[n] # None => db'[n] # None
    BY <1>0, <1>1, <1>4 DEF RowsInv
  <2>3. \A k \in jobs' : k.op = "edit" => db'[k.id] # None
    BY <1>0, <1>1, <1>4 DEF RowsInv, JobsInv, Handler
  <2> QED BY <1>7, <2>1, <2>2, <2>3 DEF RowsInv
<1> QED BY <1>8, <1>9, <1>10, <1>11, <1>12, <1>13, <1>14 DEF IInv

-----------------------------------------------------------------------------
(* Every step keeps the invariant *)

LEMMA NextIInv == IInv /\ [Next]_vars => IInv'
<1> SUFFICES ASSUME IInv, [Next]_vars PROVE IInv'
  OBVIOUS
<1>1. CASE Administrator
  <2>1. CASE PressSave
    BY <2>1, SaveKeeps, DialogsKeep
  <2>2. CASE CancelDelete \/ OpenCreate \/ CloseEdit
    BY <2>2, DialogsKeep
  <2>3. CASE \E f \in Field, v \in Inputs : TypeField(f, v)
    BY <2>3, DialogsKeep
  <2>4. CASE \E i \in Id : AskDelete(i) \/ OpenEdit(i)
    BY <2>4, DialogsKeep
  <2>5. CASE ToggleAll \/ \E i \in Id : ToggleRow(i)
    BY <2>5, SelectKeeps
  <2>6. CASE PressDelete \/ \E i \in Id : PressRestore(i)
    BY <2>6, PressKeeps
  <2>7. CASE \E i \in Id, d \in Data : PressCreate(i, d)
    BY <2>7, CreateKeeps
  <2>8. CASE ToggleObservations \/ PressExport \/ CloseCreate
    BY <2>8, ListsKeep, ExportKeeps, CloseKeeps
  <2>9. CASE \E q \in Query : SetQuery(q)
    BY <2>9, QueryKeeps
  <2> QED BY <1>1, <2>1, <2>2, <2>3, <2>4, <2>5, <2>6, <2>7, <2>8, <2>9 DEF Administrator
<1>2. CASE Network
  <2>1. CASE NamesArrive \/ ManagedArrive \/ \E s \in Scored : ScoresArrive(s)
    BY <2>1, ListsKeep, ScoresKeep
  <2>2. CASE \E l \in loads : ServeLoad(l) \/ LandLoad(l) \/ LoadFails(l)
    BY <2>2, ServeLoadKeeps, LandLoadKeeps, LoadFailsKeeps
  <2>3. CASE \E a \in alls : ServeAll(a) \/ LandAll(a) \/ AllFails(a)
    BY <2>3, ServeAllKeeps, EndAllKeeps
  <2>4. CASE \E j \in jobs : Exported(j) \/ Done(j) \/ Faded(j) \/ Finish(j) \/ SavedEdit(j)
    BY <2>4, ExportedKeeps, DoneKeeps, FadedKeeps, FinishKeeps, SavedKeeps
  <2>5. CASE \E j \in jobs : \E b \in BOOLEAN : DoFails(j, b) \/ EditFails(j, b)
    BY <2>5, DoFailsKeeps, EditFailsKeeps
  <2> QED BY <1>2, <2>1, <2>2, <2>3, <2>4, <2>5 DEF Network
<1>3. CASE Others
  BY <1>3, ElsewhereKeeps DEF Others
<1>4. CASE UNCHANGED vars
  <2>1. UNCHANGED <<db, table, banner, lists, picked, forms, jobs, stale, events>>
    BY <1>4 DEF vars
  <2>2. PageInv' /\ ButtonsComeBack' /\ RowsInv'
    BY <2>1 DEF IInv, PageInv, ButtonsComeBack, RowsInv, table, banner, lists, picked, forms, stale
  <2>3. SelectionIsVisible'
    BY <2>1, SelectionKept DEF IInv, table, lists
  <2> QED BY <2>1, <2>2, <2>3, PageOnly DEF RowsInv, table, banner
<1> QED BY <1>1, <1>2, <1>3, <1>4 DEF Next

THEOREM Invariance == Spec => []IInv
  BY InitIInv, NextIInv, PTL DEF Spec

-----------------------------------------------------------------------------
(* What follows *)

\* The page, the catalog and what is in flight have their types; a load of the
\* table cancels the one before, so that two never race.
THEOREM TypeCorrect == Spec => []TypeOK
<1>1. IInv => TypeOK
  <2> SUFFICES ASSUME IInv PROVE TypeOK
    OBVIOUS
  <2>1. Cardinality(loads) <= 1
    <3>1. CASE loads = {}
      BY <3>1, FS_EmptySet
    <3>2. ASSUME NEW l, loads = {l} PROVE Cardinality(loads) <= 1
      BY <3>2, FS_Singleton
    <3> QED BY <3>1, <3>2 DEF IInv, LoadsInv
  <2>2. /\ \A l \in loads : l.kind \in {"effect", "refetch"} /\ l.q \in Query /\ l.got \in Listings \cup {None}
        /\ \A a \in alls : a.newest \in BOOLEAN /\ a.got \in Listings \cup {None}
        /\ \A j \in jobs : j.op \in {"delete", "restore", "create", "edit", "export"} /\ j.id \in Id \cup {None}
    <3>1. \A l \in loads : l \in ALoad
      BY DEF IInv, LoadsInv
    <3>2. \A a \in alls : a \in AnAll
      BY DEF IInv, AllsInv
    <3>3. \A j \in jobs : j \in AJob
      BY DEF IInv, JobsInv, Handler
    <3> QED BY <3>1, <3>2, <3>3 DEF ALoad, AnAll, AJob, Op
  <2>3. /\ all.rows \in Listings \cup {None} /\ all.failed \in BOOLEAN
        /\ edit.on \in Id \cup {None} /\ {edit.base, edit.draft} \subseteq Data \cup {None}
        /\ edit.saving \in BOOLEAN
    BY DEF IInv, PageInv
  <2>4. selected \subseteq Id
    BY DEF IInv, SelectionIsVisible, Selectable, Shown
  <2> QED BY <2>1, <2>2, <2>3, <2>4 DEF IInv, PageInv, TypeOK
<1> QED BY <1>1, Invariance, PTL

\* At rest the table holds what the server has for the query above it, and the
\* banner counts the catalog: no order of answers, aborted loads and handlers
\* that end late leaves the page on an older catalog.
THEOREM PageTrue == Spec => []PageIsTrue
<1>1. IInv => PageIsTrue
  <2> SUFFICES ASSUME IInv PROVE TableIsQuery /\ BannerIsCatalog
    BY DEF PageIsTrue
  <2>1. TableIsQuery
    BY DEF IInv, TableInv, TableIsQuery, Quiet, Pausing
  <2>2. BannerIsCatalog
    BY DEF IInv, BannerInv, BannerIsCatalog, Pausing
  <2> QED BY <2>1, <2>2
<1> QED BY <1>1, Invariance, PTL

\* Only what the administrator sees is ever selected to be exported.
THEOREM SelectionVisible == Spec => []SelectionIsVisible
<1>1. IInv => SelectionIsVisible
  BY DEF IInv
<1> QED BY <1>1, Invariance, PTL

\* A button that is disabled while a call is made has a handler that will give
\* it back, also after the load it waited for was aborted.
THEOREM ButtonsReleased == Spec => []ButtonsComeBack
<1>1. IInv => ButtonsComeBack
  BY DEF IInv
<1> QED BY <1>1, Invariance, PTL

\* An edit that is stored leaves every field that was not changed in its form,
\* by the administrator or by the form itself (a missing score that the list of
\* names gives with the name's, blanks around a text), also
\* when the sync or another administrator wrote it meanwhile.
THEOREM OthersKept == Spec => EditsKeepOthers
<1>1. IInv /\ [Next]_vars => [\A j \in jobs : SavedEdit(j) =>
                               \A f \in Field \ (j.touched \cup j.refilled) : db'[j.id].data[f] = db[j.id].data[f]]_vars
  <2> SUFFICES ASSUME IInv, NEW j \in jobs, SavedEdit(j), NEW f \in Field \ (j.touched \cup j.refilled)
               PROVE  db'[j.id].data[f] = db[j.id].data[f]
    OBVIOUS
  <2> QED BY PatchedTyped DEF SavedEdit
<1> QED BY <1>1, Invariance, PTL DEF Spec, EditsKeepOthers

-----------------------------------------------------------------------------
(* The forms: what is known of a form, of a save on its way, and of the      *)
(* lists a form has.                                                         *)

Side == {"edit", "create"}
Rate == "return_rate"
Empty(v) == v = ""
Cell   == F!Mark \cup {Nil}
Graded == F!Grade \cup {Nil}
Figure == Rates \cup {Nil}
Pair   == Figure \X Figure

\* Fields, and the record of a form.
IsFields(f) == f = [k \in F!Field |-> f[k]]
IsRecord(x) == x = [f |-> x.f, score |-> x.score, draft |-> x.draft, reset |-> x.reset]

IsList(s) == s \in Seq({s[i] : i \in DOMAIN s})

IsForm(x) ==
  /\ IsRecord(x) /\ IsFields(x.f)
  /\ \A k \in Alloc : F!IsAllocation(x.f[k])
  /\ x.f[Rate] \in Pair
  /\ x.score \in [Who -> Cell]
  /\ x.draft \subseteq Who /\ \A w \in x.draft : ~Empty(x.f[w])
  /\ x.reset \subseteq Who

\* The record of what a save was made of.
IsSaved(x) ==
  /\ x = [f |-> x.f, score |-> x.score] /\ IsFields(x.f)
  /\ \A k \in Alloc : F!IsAllocation(x.f[k])
  /\ x.f[Rate] \in Pair
  /\ x.score \in [Who -> Cell]

\* The server and what the form is over; a save has room for its write.
FormsTypes ==
  /\ mode \in Side \cup {Nil} /\ locking \in BOOLEAN /\ pending \in [Side -> SUBSET Who]
  /\ F!IsProduct(row) /\ IsForm(form)
  /\ F!IsDirectory(entity) /\ DOMAIN known = Side /\ \A m \in Side : F!IsDirectory(known[m])
  /\ IsList(born)
  /\ mode = Nil => form = F!Blank
  /\ pending["create"] # {} => mode = "create"
  /\ writes \in 0 .. MaxWrites /\ (call # Nil => writes < MaxWrites)

\* A form never makes a name of an allocation appear twice.
FormRowsInv ==
  /\ mode = "edit"   => \A k \in Alloc : F!Repeats(form.f[k]) => F!Repeats(row.f[k])
  /\ mode = "create" => \A k \in Alloc : ~F!Repeats(form.f[k])

\* A name that was chosen came from a list, and brought its score, which only
\* a list that comes later takes away.
ChosenInv ==
  /\ \A m \in Side : \A w \in pending[m] : DOMAIN known[m][w] = {}
  /\ mode # Nil =>
       \A w \in Who \ form.reset :
         w \notin form.draft /\ ~Empty(form.f[w]) /\ (mode = "edit" => form.f[w] # row.f[w])
           => /\ w \notin pending[mode]
              /\ F!Fixed(known[mode][w], form.f[w]) => form.score[w] = known[mode][w][form.f[w]].score

\* What a save sends of the form it was made of.
Filled(x, k) ==
  /\ k \in Text \cup Who => ~Empty(x.f[k])
  /\ k \in Alloc => x.f[k] # <<>> /\ ~F!Unbalanced(x.f[k])
  /\ k = Rate => x.f[k][1] # Nil

Body(x, ks, ws) ==
  [f |-> [k \in ks |-> IF k = Rate THEN F!WriteRate(x.f[k]) ELSE x.f[k]],
   score |-> [w \in ws |-> x.score[w]]]

Delta(x, locked) == {k \in F!Field \ locked : x.f[k] # F!Shown(row)[k]}
Rescored(x, ks)  == {w \in Who : w \in ks \/ x.score[w] # row.score[w]}

IsEdit(c) ==
  /\ c.body = Body(c.form, Delta(c.form, c.locked), Rescored(c.form, Delta(c.form, c.locked)))
  /\ c.locked # {} => Excel \subseteq c.locked
  /\ \A k \in Alloc : F!Repeats(c.form.f[k]) => F!Repeats(row.f[k])

IsCreate(c) == c.locked = {} /\ c.body = Body(c.form, F!Field, Who)

IsSave(c) ==
  /\ c = [mode |-> c.mode, stage |-> c.stage, form |-> c.form, new |-> c.new, locked |-> c.locked, body |-> c.body]
  /\ c.mode \in Side /\ IsSaved(c.form) /\ c.locked \subseteq F!Field /\ c.new \subseteq Who
  /\ \A k \in F!Field \ c.locked : Filled(c.form, k)
  /\ \A w \in Who : ~Empty(c.form.f[w]) => c.form.score[w] # Nil
  /\ c.mode = "edit" => IsEdit(c)
  /\ c.mode = "create" => IsCreate(c)

SaveInv == call # Nil => IsSave(call)

FormsInv == FormsTypes /\ FormRowsInv /\ ChosenInv /\ SaveInv

-----------------------------------------------------------------------------
(* The fields.                                                               *)

LEMMA Kinds ==
  /\ Text \subseteq F!Field /\ Alloc \subseteq F!Field /\ Who \subseteq F!Field /\ Excel \subseteq F!Field
  /\ Rate \in F!Field /\ "alternative_names" \in F!Field \ {Rate} /\ "commission" \in Text
  /\ Text \cap Alloc = {} /\ Text \cap Who = {} /\ Alloc \cap Who = {}
  /\ Rate \notin Text \cup Alloc \cup Who
  /\ "alternative_names" \notin Text \cup Alloc \cup Who
  /\ Nil \notin Int \cup Rates \cup Seq(Rates) /\ Nil # "edit" /\ Nil # "create"
  /\ F!Grade \subseteq F!Mark /\ F!Mark \subseteq Int /\ Readable \subseteq Rates
  /\ Percents \subseteq 0 .. 1000 /\ Scores \subseteq Int /\ MaxWrites \in Nat
<1>1. F!FormsAssumption
  BY ScreensInstance
<1>2. /\ Text \cap Alloc = {} /\ Text \cap Who = {} /\ Alloc \cap Who = {}
      /\ {"alternative_names", "return_rate"} \cap (Text \cup Alloc \cup Who) = {}
      /\ "commission" \in Text /\ Excel \subseteq F!Field
      /\ Percents \subseteq 0 .. 1000 /\ Scores \subseteq Int /\ Readable \subseteq Rates /\ MaxWrites \in Nat
  BY <1>1 DEF F!FormsAssumption
<1>6. F!Grade \subseteq F!Mark /\ F!Mark \subseteq Int
  BY DEF F!Grade, F!Mark
<1>3. Nil \notin Int \cup Rates \cup Seq(Rates) /\ Nil # "edit" /\ Nil # "create"
  BY <1>1 DEF F!FormsAssumption
<1>4. /\ Text \subseteq F!Field /\ Alloc \subseteq F!Field /\ Who \subseteq F!Field
      /\ Rate \in F!Field /\ "alternative_names" \in F!Field \ {Rate}
  BY DEF F!Field, Rate
<1>5. Rate \notin Text \cup Alloc \cup Who /\ "alternative_names" \notin Text \cup Alloc \cup Who
  BY <1>2 DEF Rate
<1> QED
  BY <1>2, <1>3, <1>4, <1>5, <1>6

\* One field is written over.
WithField(x, k, v) == [x EXCEPT !.f[k] = v]
FieldBy(x, y, k, v) ==
  /\ IsRecord(y) /\ IsFields(y.f)
  /\ y.score = x.score /\ y.draft = x.draft /\ y.reset = x.reset
  /\ y.f[k] = v /\ \A j \in F!Field : j # k => y.f[j] = x.f[j]

LEMMA FieldSet ==
  ASSUME NEW x, NEW y, IsForm(x), NEW k \in F!Field, NEW v, y = WithField(x, k, v)
  PROVE  FieldBy(x, y, k, v)
BY DEF IsForm, IsFields, IsRecord, WithField, FieldBy

WithName(x, w, n, s, ds, rs) == [x EXCEPT !.f[w] = n, !.score[w] = s, !.draft = ds, !.reset = rs]

NamedBy(x, y, w, n, s, ds, rs) ==
  /\ IsRecord(y) /\ IsFields(y.f)
  /\ y.score \in [Who -> Cell] /\ y.draft = ds /\ y.reset = rs
  /\ y.f[w] = n /\ \A j \in F!Field : j # w => y.f[j] = x.f[j]
  /\ y.score[w] = s /\ \A u \in Who : u # w => y.score[u] = x.score[u]

LEMMA ScoreSet ==
  ASSUME NEW x, NEW y, IsForm(x), NEW w \in Who, NEW n, NEW s \in Cell, NEW ds, NEW rs,
         y = WithName(x, w, n, s, ds, rs)
  PROVE  NamedBy(x, y, w, n, s, ds, rs)
<1>1. /\ y = [f |-> [x.f EXCEPT ![w] = n], score |-> [x.score EXCEPT ![w] = s], draft |-> ds, reset |-> rs]
      /\ w \in F!Field /\ x.f = [k \in F!Field |-> x.f[k]] /\ x.score \in [Who -> Cell]
  <2>1. x = [f |-> x.f, score |-> x.score, draft |-> x.draft, reset |-> x.reset] /\ x.f = [k \in F!Field |-> x.f[k]]
    BY DEF IsForm, IsFields, IsRecord
  <2>2. y = [f |-> [x.f EXCEPT ![w] = n], score |-> [x.score EXCEPT ![w] = s], draft |-> ds, reset |-> rs]
    BY <2>1 DEF WithName
  <2> QED BY <2>1, <2>2, Kinds DEF IsForm
<1>2. y.f = [x.f EXCEPT ![w] = n] /\ y.score = [x.score EXCEPT ![w] = s]
  BY <1>1
<1> QED BY <1>1, <1>2 DEF IsFields, IsRecord, NamedBy

\* Fields other than those of the allocations and the rate are as they come.
LEMMA Opened ==
  ASSUME NEW r, F!IsProduct(r)
  PROVE  /\ F!Shown(r) = [k \in F!Field |-> IF k = Rate THEN F!ParseRate(r.f[k]) ELSE r.f[k]]
         /\ F!ParseRate(r.f[Rate]) \in Pair
<1>1. F!ParseRate(r.f[Rate]) \in Pair
  <2> PICK raw : raw = r.f[Rate]
    OBVIOUS
  <2>1. raw \in {Nil} \cup Seq(Rates)
    BY DEF F!IsProduct, Rate
  <2>2. CASE raw = Nil \/ raw = <<>> \/ (\E i \in DOMAIN raw : raw[i] \notin Readable)
    BY <2>2 DEF F!ParseRate, Figure, Pair
  <2>3. CASE ~(raw = Nil \/ raw = <<>> \/ (\E i \in DOMAIN raw : raw[i] \notin Readable))
    <3>1. raw \in Seq(Rates) /\ Len(raw) \in Nat /\ Len(raw) # 0 /\ DOMAIN raw = 1 .. Len(raw)
      BY <2>1, <2>3
    <3>2. raw[1] \in Rates /\ (Len(raw) = 2 => raw[2] \in Rates)
      BY <3>1
    <3> QED BY <2>3, <3>2 DEF F!ParseRate, Figure, Pair
  <2> QED BY <2>2, <2>3
<1> QED BY <1>1, Kinds DEF F!Shown, F!IsProduct, Rate

LEMMA ProductUpdated ==
  ASSUME NEW r, NEW b, F!IsProduct(r), NEW q, q = F!Updated(r, b)
  PROVE  /\ q = [f |-> q.f, score |-> q.score, coded |-> r.coded]
         /\ q.f = [k \in F!Field |-> IF k \in DOMAIN b.f THEN b.f[k] ELSE r.f[k]]
         /\ q.score = [w \in Who |-> IF w \in DOMAIN b.score /\ b.score[w] # Nil THEN b.score[w] ELSE r.score[w]]
BY DEF F!Updated, F!IsProduct

LEMMA BlankForm ==
  ASSUME NEW b, b = F!Blank
  PROVE  IsForm(b) /\ (\A k \in Alloc : ~F!Repeats(b.f[k])) /\ (\A w \in Who : Empty(b.f[w]))
<1>1. /\ IsRecord(b) /\ b.draft = {} /\ b.reset = {} /\ b.score \in [Who -> Cell]
      /\ b.f = [k \in F!Field |-> CASE k \in Text \cup Who -> ""
                                    [] k = Rate            -> <<Nil, Nil>>
                                    [] OTHER               -> <<>>]
  BY DEF F!Blank, F!Form, Cell, IsRecord, Rate
<1>2. /\ IsFields(b.f)
      /\ \A k \in Alloc : b.f[k] = <<>>
      /\ b.f[Rate] = <<Nil, Nil>>
  <2>1. IsFields(b.f)
    BY <1>1, Zenon DEF IsFields
  <2>2. ASSUME NEW k \in Alloc PROVE b.f[k] = <<>>
    <3>1. k \in F!Field /\ k \notin Text \cup Who /\ k # Rate
      BY Kinds
    <3> QED
      BY <1>1, <3>1, Zenon
  <2>3. Rate \in F!Field /\ Rate \notin Text \cup Who
    BY Kinds
  <2>4. b.f[Rate] = <<Nil, Nil>>
    BY <1>1, <2>3, Zenon
  <2> QED
    BY <2>1, <2>2, <2>4
<1>5. ASSUME NEW w \in Who PROVE Empty(b.f[w])
  <2>1. b.f[w] = ""
    BY <1>1, Kinds
  <2> QED BY <2>1 DEF Empty
<1>3. F!IsAllocation(<<>>) /\ ~F!Repeats(<<>>)
  BY DEF F!IsAllocation, F!Repeats
<1>4. <<Nil, Nil>> \in Pair
  BY DEF Figure, Pair
<1> QED BY <1>1, <1>2, <1>3, <1>4, <1>5 DEF IsForm

-----------------------------------------------------------------------------
(* The rows of an allocation.                                                *)

LEMMA SeqOver ==
  ASSUME NEW X, NEW Y, NEW s \in Seq(X), \A i \in DOMAIN s : s[i] \in Y PROVE s \in Seq(Y)
OBVIOUS

LEMMA SeqItem == ASSUME NEW X, NEW s \in Seq(X), NEW i \in DOMAIN s PROVE s[i] \in X
OBVIOUS

Join(a, b)     == a \o b
Before(a, s, i) == Len(a) = i - 1 /\ \A j \in 1 .. i - 1 : a[j] = s[j]
After(b, s, i)  == Len(b) = Len(s) - i /\ \A j \in 1 .. Len(s) - i : b[j] = s[i + j]

LEMMA Joined ==
  ASSUME NEW R, NEW a \in Seq(R), NEW b \in Seq(R), NEW t, t = Join(a, b)
  PROVE  t \in Seq(R) /\ Len(t) = Len(a) + Len(b)
BY DEF Join

LEMMA JoinedAt ==
  ASSUME NEW R, NEW a \in Seq(R), NEW b \in Seq(R), NEW t, t = Join(a, b), NEW j \in 1 .. Len(a) + Len(b)
  PROVE  t[j] = IF j <= Len(a) THEN a[j] ELSE b[j - Len(a)]
BY DEF Join

LEMMA Spliced ==
  ASSUME NEW R, NEW s \in Seq(R), NEW i \in 1 .. Len(s),
         NEW a \in Seq(R), Before(a, s, i), NEW b \in Seq(R), After(b, s, i), NEW t, t = Join(a, b)
  PROVE  /\ t \in Seq(R) /\ Len(t) = Len(s) - 1
         /\ \A j \in 1 .. Len(s) - 1 : t[j] = IF j < i THEN s[j] ELSE s[j + 1]
<1>1. Len(s) \in Nat /\ i \in Nat /\ 1 <= i /\ i <= Len(s)
  OBVIOUS
<1>2. /\ Len(a) = i - 1 /\ \A j \in 1 .. i - 1 : a[j] = s[j]
      /\ Len(b) = Len(s) - i /\ \A j \in 1 .. Len(s) - i : b[j] = s[i + j]
  BY DEF Before, After
<1>3. t \in Seq(R) /\ Len(t) = Len(a) + Len(b)
  BY Joined
<1>4. ASSUME NEW j \in 1 .. Len(a) + Len(b) PROVE t[j] = IF j <= Len(a) THEN a[j] ELSE b[j - Len(a)]
  BY JoinedAt
<1>5. ASSUME NEW j \in 1 .. Len(s) - 1 PROVE t[j] = IF j < i THEN s[j] ELSE s[j + 1]
  <2>1. j \in Nat /\ j \in 1 .. Len(a) + Len(b) /\ (j <= Len(a) <=> j < i)
    BY <1>1, <1>2
  <2>2. CASE j < i
    <3>1. j \in 1 .. i - 1
      BY <2>1, <2>2, <1>1
    <3> QED BY <1>2, <1>4, <2>1, <2>2, <3>1
  <2>3. CASE ~(j < i)
    <3>1. j - Len(a) \in 1 .. Len(s) - i /\ i + (j - Len(a)) = j + 1
      BY <2>3, <2>1, <1>1, <1>2
    <3>2. t[j] = b[j - Len(a)]
      BY <1>4, <2>1, <2>3
    <3> QED BY <1>2, <2>3, <3>1, <3>2
  <2> QED BY <2>2, <2>3
<1>6. Len(t) = Len(s) - 1
  BY <1>1, <1>2, <1>3
<1> QED BY <1>3, <1>5, <1>6

LEMMA Cut ==
  ASSUME NEW R, NEW s \in Seq(R), NEW i \in 1 .. Len(s), NEW t, t = F!RemoveAt(s, i)
  PROVE  /\ t \in Seq(R) /\ Len(t) = Len(s) - 1
         /\ \A j \in 1 .. Len(s) - 1 : t[j] = IF j < i THEN s[j] ELSE s[j + 1]
<1> DEFINE a == SubSeq(s, 1, i - 1)
           b == SubSeq(s, i + 1, Len(s))
<1>1. t = Join(a, b)
  BY DEF F!RemoveAt, Join
<1>2. a \in Seq(R) /\ Before(a, s, i)
  BY DEF Before
<1>3. b \in Seq(R) /\ After(b, s, i)
  BY DEF After
<1> HIDE DEF a, b
<1> QED BY <1>1, <1>2, <1>3, Spliced

\* A row of an allocation whose names are among N.
Share == 0 .. 1000
Rowed(N) == [name : N, pct : Share]
NamesOf(s) == {s[i].name : i \in DOMAIN s}

With(s, o)         == Append(s, [name |-> o, pct |-> 0])
Retyped(s, i, n, p) == [s EXCEPT ![i] = [name |-> n, pct |-> p]]

Usable(s, i, n)     == n = s[i].name \/ \A j \in DOMAIN s \ {i} : s[j].name # n

LEMMA IsRow == ASSUME NEW N, NEW M, NEW r \in Rowed(N), r.name \in M PROVE r \in Rowed(M)
BY DEF Rowed

LEMMA Allocated == ASSUME NEW s, NEW N, s \in Seq(Rowed(N)) PROVE F!IsAllocation(s)
<1>1. \A i \in DOMAIN s : s[i] \in Rowed(NamesOf(s))
  BY SeqItem, IsRow DEF NamesOf
<1>2. s \in Seq(Rowed(NamesOf(s)))
  BY <1>1, SeqOver
<1> QED BY <1>2 DEF F!IsAllocation, Rowed, Share, NamesOf

LEMMA Rows1 ==
  ASSUME NEW s, F!IsAllocation(s), NEW N, NamesOf(s) \subseteq N
  PROVE  s \in Seq(Rowed(N)) /\ \A i \in DOMAIN s : s[i] \in Rowed(N)
<1>1. s \in Seq(Rowed(NamesOf(s)))
  BY DEF F!IsAllocation, Rowed, Share, NamesOf
<1>2. \A i \in DOMAIN s : s[i] \in Rowed(N)
  BY <1>1, SeqItem, IsRow DEF NamesOf
<1> QED BY <1>1, <1>2, SeqOver

LEMMA RowAdded ==
  ASSUME NEW s, F!IsAllocation(s), NEW o, \A i \in DOMAIN s : s[i].name # o,
         NEW t, t = With(s, o)
  PROVE  F!IsAllocation(t) /\ (F!Repeats(t) => F!Repeats(s))
<1>1. s \in Seq(Rowed(NamesOf(s) \cup {o}))
  BY Rows1
<1>2. [name |-> o, pct |-> 0] \in Rowed(NamesOf(s) \cup {o})
  BY DEF Rowed, Share
<1>3. F!IsAllocation(t)
  <2>1. t \in Seq(Rowed(NamesOf(s) \cup {o}))
    BY <1>1, <1>2 DEF With
  <2> QED BY <2>1, Allocated
<1>4. /\ DOMAIN t = 1 .. Len(s) + 1 /\ DOMAIN s = 1 .. Len(s) /\ Len(s) \in Nat
      /\ \A i \in DOMAIN s : t[i] = s[i]
      /\ t[Len(s) + 1].name = o
  BY <1>1 DEF With
<1>5. F!Repeats(t) => F!Repeats(s)
  BY <1>4 DEF F!Repeats
<1> QED BY <1>3, <1>5

LEMMA RowChanged ==
  ASSUME NEW s, F!IsAllocation(s), NEW i \in DOMAIN s, NEW p \in Share,
         NEW n, Usable(s, i, n),
         NEW t, t = Retyped(s, i, n, p)
  PROVE  F!IsAllocation(t) /\ (F!Repeats(t) => F!Repeats(s))
<1>1. s \in Seq(Rowed(NamesOf(s) \cup {n}))
  BY Rows1
<1>2. [name |-> n, pct |-> p] \in Rowed(NamesOf(s) \cup {n}) /\ [name |-> n, pct |-> p].name = n
  BY DEF Rowed
<1>3. F!IsAllocation(t)
  <2>1. t \in Seq(Rowed(NamesOf(s) \cup {n}))
    BY <1>1, <1>2 DEF Retyped
  <2> QED BY <2>1, Allocated
<1>4. DOMAIN t = DOMAIN s /\ t[i].name = n /\ \A j \in DOMAIN s \ {i} : t[j] = s[j]
  BY <1>1, <1>2 DEF Retyped
<1>5. F!Repeats(t) => F!Repeats(s)
  BY <1>4 DEF F!Repeats, Usable
<1> QED BY <1>3, <1>5

LEMMA RowRemoved ==
  ASSUME NEW s, F!IsAllocation(s), NEW i \in DOMAIN s, NEW t, t = F!RemoveAt(s, i)
  PROVE  F!IsAllocation(t) /\ (F!Repeats(t) => F!Repeats(s))
<1>1. s \in Seq(Rowed(NamesOf(s)))
  BY Rows1
<1>2. /\ t \in Seq(Rowed(NamesOf(s))) /\ Len(t) = Len(s) - 1
      /\ \A j \in 1 .. Len(s) - 1 : t[j] = IF j < i THEN s[j] ELSE s[j + 1]
  BY <1>1, Cut
<1>3. F!IsAllocation(t)
  BY <1>2, Allocated
<1>4. ASSUME NEW j \in DOMAIN t, NEW k \in DOMAIN t, j # k, t[j].name = t[k].name
      PROVE  F!Repeats(s)
  <2> DEFINE at(m) == IF m < i THEN m ELSE m + 1
  <2>0. /\ DOMAIN s = 1 .. Len(s) /\ Len(s) \in Nat /\ i \in 1 .. Len(s)
        /\ j \in 1 .. Len(s) - 1 /\ k \in 1 .. Len(s) - 1
    BY <1>1, <1>2, <1>4
  <2>1. at(j) \in DOMAIN s /\ at(k) \in DOMAIN s /\ at(j) # at(k)
    BY <2>0, <1>4
  <2>2. s[at(j)].name = s[at(k)].name
    <3>1. t[j] = s[at(j)] /\ t[k] = s[at(k)]
      BY <1>2, <2>0
    <3> QED BY <1>4, <3>1
  <2> QED BY <2>1, <2>2 DEF F!Repeats
<1> QED BY <1>3, <1>4 DEF F!Repeats

-----------------------------------------------------------------------------
(* What is typed in the form.                                                *)

LEMMA SaveKept == ASSUME SaveInv, UNCHANGED <<row, call>> PROVE SaveInv'
BY DEF SaveInv, IsSave, IsEdit, Delta, Rescored

LEMMA FormKept ==
  ASSUME FormsInv, mode # Nil, IsForm(form'), FormRowsInv', ChosenInv',
         UNCHANGED <<row, born, entity, known, pending, locking, mode, call, writes>>
  PROVE  FormsInv'
<1>1. FormsTypes'
  BY DEF FormsInv, FormsTypes
<1> QED BY <1>1, SaveKept DEF FormsInv

LEMMA SetKeeps ==
  ASSUME FormsInv, mode # Nil, NEW k \in F!Field \ Who, NEW v, F!Set(k, v),
         k \in Alloc => F!IsAllocation(v) /\ (F!Repeats(v) => F!Repeats(form.f[k])),
         k = Rate => v \in Pair
  PROVE  FormsInv'
<1> PICK x : x = form
  OBVIOUS
<1> PICK y : y = form'
  OBVIOUS
<1>1. IsForm(x) /\ FormRowsInv /\ ChosenInv
  BY DEF FormsInv, FormsTypes
<1>2. y = WithField(x, k, v) /\ UNCHANGED <<row, born, entity, known, pending, locking, mode, call, writes>>
  BY DEF F!Set, F!Becomes, WithField
<1>3. FieldBy(x, y, k, v)
  BY <1>1, <1>2, FieldSet
<1>4. /\ \A w \in Who : y.f[w] = x.f[w]
      /\ \A j \in Alloc : F!IsAllocation(y.f[j]) /\ (F!Repeats(y.f[j]) => F!Repeats(x.f[j]))
      /\ y.f[Rate] \in Pair
  BY <1>1, <1>3, Kinds DEF IsForm, FieldBy
<1>5. IsForm(y)
  BY <1>1, <1>3, <1>4 DEF IsForm, FieldBy
<1>6. FormRowsInv'
  BY <1>1, <1>2, <1>4 DEF FormRowsInv
<1>7. ChosenInv'
  BY <1>1, <1>2, <1>3, <1>4 DEF ChosenInv, FieldBy
<1> QED BY <1>2, <1>5, <1>6, <1>7, FormKept

LEMMA PairSet == ASSUME NEW a \in Pair, NEW v \in Figure, NEW i \in 1 .. 2 PROVE [a EXCEPT ![i] = v] \in Pair
<1>1. PICK p \in Figure, q \in Figure : a = <<p, q>>
  BY DEF Pair
<1>2. CASE i = 1
  <2>1. [a EXCEPT ![i] = v] = <<v, q>>
    BY <1>1, <1>2
  <2> QED BY <1>1, <2>1 DEF Pair
<1>3. CASE i = 2
  <2>1. [a EXCEPT ![i] = v] = <<p, v>>
    BY <1>1, <1>3
  <2> QED BY <1>1, <2>1 DEF Pair
<1> QED BY <1>2, <1>3

LEMMA TypeKeeps ==
  ASSUME FormsInv, (\E k \in Text, v \in Words \cup {""} : F!Type(k, v))
                   \/ (\E i \in 1 .. 2, v \in Rates \cup {Nil} : F!SetRate(i, v))
  PROVE  FormsInv'
<1>1. ASSUME NEW k \in Text, NEW v, F!Type(k, v) PROVE FormsInv'
  BY <1>1, SetKeeps, Kinds DEF F!Type, F!Editable
<1>2. ASSUME NEW i \in 1 .. 2, NEW v \in Rates \cup {Nil}, F!SetRate(i, v) PROVE FormsInv'
  <2>1. form.f[Rate] \in Pair /\ v \in Figure
    BY DEF FormsInv, FormsTypes, IsForm, Figure
  <2>2. [form.f[Rate] EXCEPT ![i] = v] \in Pair
    BY <2>1, PairSet
  <2> QED BY <1>2, <2>1, <2>2, SetKeeps, Kinds DEF F!SetRate, F!Editable, Rate
<1> QED BY <1>1, <1>2

LEMMA NamesKeep ==
  ASSUME FormsInv, (\E n \in Alts : F!AddName(n)) \/ (\E i : F!RemoveName(i))
  PROVE  FormsInv'
<1> PICK k : k = "alternative_names"
  OBVIOUS
<1>1. k \in F!Field \ Who /\ k \notin Alloc /\ k # Rate
  BY Kinds
<1>2. mode # Nil /\ \E v : F!Set(k, v)
  BY DEF F!AddName, F!RemoveName, F!Editable
<1> QED BY <1>1, <1>2, SetKeeps

LEMMA RowsKeep ==
  ASSUME FormsInv, NEW k \in Alloc,
         \/ F!AddRow(k)
         \/ \E i \in 1 .. MaxRows : \/ F!RemoveRow(k, i)
                                    \/ \E n : \E p \in Percents : F!SetRow(k, i, n, p)
  PROVE  FormsInv'
<1>1. F!IsAllocation(form.f[k]) /\ k \in F!Field \ Who /\ k # Rate
  BY Kinds DEF FormsInv, FormsTypes, IsForm
<1> PICK s : s = form.f[k]
  OBVIOUS
<1>2. CASE F!AddRow(k)
  <2>1. \E o : o \notin NamesOf(s) /\ F!Set(k, With(s, o))
    <3>1. F!Set(k, With(s, CHOOSE o \in Options \ NamesOf(s) : TRUE))
      BY <1>2 DEF F!AddRow, NamesOf, With
    <3>2. (CHOOSE o \in Options \ NamesOf(s) : TRUE) \notin NamesOf(s)
      BY <1>2 DEF F!AddRow, NamesOf
    <3> QED BY <3>1, <3>2
  <2> PICK o : o \notin NamesOf(s) /\ F!Set(k, With(s, o))
    BY <2>1
  <2> PICK t : t = With(s, o)
    OBVIOUS
  <2>2. F!Set(k, t) /\ mode # Nil
    BY <1>2 DEF F!AddRow, F!Editable
  <2>3. F!IsAllocation(t) /\ (F!Repeats(t) => F!Repeats(s))
    <3>1. F!IsAllocation(s)
      BY <1>1
    <3>2. \A i \in DOMAIN s : s[i].name # o
      BY DEF NamesOf
    <3> QED BY <3>1, <3>2, RowAdded
  <2> QED BY <1>1, <2>2, <2>3, SetKeeps
<1>3. ASSUME NEW i, F!RemoveRow(k, i) PROVE FormsInv'
  BY <1>1, <1>3, RowRemoved, SetKeeps DEF F!RemoveRow, F!Editable
<1>4. ASSUME NEW i, NEW n, NEW p \in Percents, F!SetRow(k, i, n, p) PROVE FormsInv'
  <2> PICK t : t = Retyped(s, i, n, p)
    OBVIOUS
  <2>1. /\ i \in DOMAIN s /\ mode # Nil /\ F!Set(k, t)
        /\ Usable(s, i, n)
    BY <1>4 DEF F!SetRow, F!Editable, F!OptionsFor, Retyped, Usable
  <2>2. p \in Share
    BY Kinds DEF Share
  <2>3. F!IsAllocation(t) /\ (F!Repeats(t) => F!Repeats(s))
    <3>1. F!IsAllocation(s)
      BY <1>1
    <3>2. i \in DOMAIN s
      BY <2>1
    <3>3. Usable(s, i, n)
      BY <2>1
    <3> QED BY <2>2, <3>1, <3>2, <3>3, RowChanged, Zenon
  <2> QED BY <1>1, <2>1, <2>3, SetKeeps
<1> QED BY <1>2, <1>3, <1>4

\* The score of one name is set, and perhaps the name.
Renames(x, y, w) ==
  /\ IsRecord(y) /\ IsFields(y.f) /\ y.score \in [Who -> Cell]
  /\ y.draft \subseteq x.draft \cup {w} /\ x.draft \subseteq y.draft \cup {w}
  /\ y.reset \subseteq x.reset /\ x.reset \subseteq y.reset \cup {w}
  /\ \A j \in F!Field : j # w => y.f[j] = x.f[j]
  /\ \A u \in Who : u # w => y.score[u] = x.score[u]
  /\ w \in y.draft => ~Empty(y.f[w])

Brings(y, w) ==
  w \notin y.draft \cup y.reset /\ ~Empty(y.f[w]) /\ (mode = "edit" => y.f[w] # row.f[w])
    => /\ w \notin pending[mode]
       /\ F!Fixed(known[mode][w], y.f[w]) => y.score[w] = known[mode][w][y.f[w]].score

LEMMA Renamed ==
  ASSUME FormsInv, mode # Nil, NEW w \in Who, NEW y, Renames(form, y, w), Brings(y, w), y = form',
         UNCHANGED <<row, born, entity, known, pending, locking, mode, call, writes>>
  PROVE  FormsInv'
<1> PICK x : x = form
  OBVIOUS
<1>1. IsForm(x) /\ FormRowsInv /\ ChosenInv
  BY DEF FormsInv, FormsTypes
<1>2. /\ \A k \in Alloc : y.f[k] = x.f[k]
      /\ y.f[Rate] = x.f[Rate]
      /\ \A u \in Who : u # w => /\ y.f[u] = x.f[u] /\ y.score[u] = x.score[u]
                                 /\ u \in y.draft <=> u \in x.draft
                                 /\ u \in y.reset <=> u \in x.reset
  BY Kinds DEF Renames
<1>3. IsForm(y)
  BY <1>1, <1>2 DEF IsForm, Renames
<1>4. FormRowsInv'
  BY <1>1, <1>2 DEF FormRowsInv
<1>5. ChosenInv'
  <2>1. \A m \in Side : \A u \in pending[m] : DOMAIN known[m][u] = {}
    BY <1>1 DEF ChosenInv
  <2>2. ASSUME NEW u \in Who PROVE Brings(y, u)
    <3>1. CASE u # w
      BY <1>1, <1>2, <3>1 DEF ChosenInv, Brings
    <3> QED BY <3>1
  <2> QED BY <2>1, <2>2 DEF ChosenInv, Brings
<1> QED BY <1>3, <1>4, <1>5, FormKept

\* The scores of a list of names are those the server takes.
LEMMA DirectoryScore ==
  ASSUME NEW l, F!IsDirectory(l), NEW w \in Who, NEW n, n \in DOMAIN l[w] PROVE l[w][n].score \in Cell
<1>1. l[w] \in [DOMAIN l[w] -> [score : F!Grade \cup {Nil}, fixed : BOOLEAN]]
  BY DEF F!IsDirectory
<1>2. l[w][n] \in [score : F!Grade \cup {Nil}, fixed : BOOLEAN]
  BY <1>1, Zenon
<1>3. l[w][n].score \in F!Grade \cup {Nil}
  BY <1>2
<1> QED BY <1>3, Kinds DEF Cell

LEMMA ListScore ==
  ASSUME FormsInv, mode # Nil, NEW w \in Who, NEW n, n \in DOMAIN known[mode][w]
  PROVE  known[mode][w][n].score \in Cell
<1>1. F!IsDirectory(known[mode])
  BY DEF FormsInv, FormsTypes, Side
<1> QED BY <1>1, DirectoryScore

LEMMA ChooseKeeps ==
  ASSUME FormsInv, NEW w \in Who, NEW n, F!Choose(w, n) PROVE FormsInv'
<1> PICK x : x = form
  OBVIOUS
<1> PICK y : y = form'
  OBVIOUS
<1> PICK s : s = F!ScoreOf(w, n)
  OBVIOUS
<1>1. /\ mode # Nil /\ (Empty(n) \/ n \in DOMAIN known[mode][w])
      /\ y = WithName(x, w, n, s, x.draft \ {w}, x.reset \ {w})
      /\ UNCHANGED <<row, born, entity, known, pending, locking, mode, call, writes>>
  BY DEF F!Choose, F!Editable, F!Becomes, Empty, WithName
<1>2. IsForm(x) /\ ChosenInv
  BY DEF FormsInv, FormsTypes
<1>3. s \in Cell /\ (F!Fixed(known[mode][w], n) => s = known[mode][w][n].score)
  <2>1. CASE F!Fixed(known[mode][w], n)
    <3>1. known[mode][w][n].score \in Cell
      BY <1>1, <2>1, ListScore DEF F!Fixed
    <3> QED BY <2>1, <3>1 DEF F!ScoreOf
  <2>2. CASE ~F!Fixed(known[mode][w], n)
    BY <2>2 DEF F!ScoreOf, Cell
  <2> QED BY <2>1, <2>2
<1>4. NamedBy(x, y, w, n, s, x.draft \ {w}, x.reset \ {w})
  <2>1. IsForm(x) /\ s \in Cell /\ y = WithName(x, w, n, s, x.draft \ {w}, x.reset \ {w})
    BY <1>1, <1>2, <1>3
  <2> QED BY <2>1, ScoreSet
<1>5. w \in pending[mode] => DOMAIN known[mode][w] = {}
  BY <1>1, <1>2 DEF ChosenInv, FormsInv, FormsTypes
<1>6. /\ y.draft \subseteq x.draft \cup {w} /\ x.draft \subseteq y.draft \cup {w} /\ w \notin y.draft
      /\ y.reset \subseteq x.reset /\ x.reset \subseteq y.reset \cup {w}
      /\ ~Empty(y.f[w]) => w \notin pending[mode]
      /\ F!Fixed(known[mode][w], y.f[w]) => y.score[w] = known[mode][w][y.f[w]].score
  BY <1>1, <1>3, <1>4, <1>5 DEF NamedBy
<1>7. Renames(x, y, w) /\ Brings(y, w)
  BY <1>4, <1>6 DEF NamedBy, Renames, Brings
<1> QED BY <1>1, <1>7, Renamed

DraftOf(x, w, n) == IF Empty(n) THEN x.draft \ {w} ELSE x.draft \cup {w}

LEMMA TypeNameKeeps ==
  ASSUME FormsInv, NEW w \in Who, NEW n, F!TypeName(w, n) PROVE FormsInv'
<1> PICK x : x = form
  OBVIOUS
<1> PICK y : y = form'
  OBVIOUS
<1>2. IsForm(x)
  BY DEF FormsInv, FormsTypes
<1>1. /\ mode # Nil
      /\ \E s \in Cell : y = WithName(x, w, n, s, DraftOf(x, w, n), x.reset)
      /\ UNCHANGED <<row, born, entity, known, pending, locking, mode, call, writes>>
  <2>1. x.score[w] \in Cell /\ Nil \in Cell
    BY <1>2 DEF IsForm, Cell
  <2> DEFINE s  == IF w \in x.draft \/ Empty(n) THEN x.score[w] ELSE Nil
  <2>2. y = WithName(x, w, n, s, DraftOf(x, w, n), x.reset)
    <3>1. y = [x EXCEPT !.f[w] = n, !.score[w] = s, !.draft = DraftOf(x, w, n)]
      BY DEF F!TypeName, F!Becomes, Empty, DraftOf
    <3>2. x = [f |-> x.f, score |-> x.score, draft |-> x.draft, reset |-> x.reset]
      BY <1>2 DEF IsForm, IsRecord
    <3> HIDE DEF s
    <3> QED BY <3>1, <3>2 DEF WithName
  <2>3. mode # Nil /\ UNCHANGED <<row, born, entity, known, pending, locking, mode, call, writes>>
    BY DEF F!TypeName, F!Becomes, F!Editable
  <2> QED BY <2>1, <2>2, <2>3
<1>3. PICK s \in Cell : y = WithName(x, w, n, s, DraftOf(x, w, n), x.reset)
  BY <1>1
<1>4. NamedBy(x, y, w, n, s, DraftOf(x, w, n), x.reset)
  <2>1. IsForm(x) /\ s \in Cell /\ y = WithName(x, w, n, s, DraftOf(x, w, n), x.reset)
    BY <1>2, <1>3
  <2> QED BY <2>1, ScoreSet
<1>5. /\ y.draft \subseteq x.draft \cup {w} /\ x.draft \subseteq y.draft \cup {w}
      /\ (w \in y.draft <=> ~Empty(y.f[w])) /\ y.reset = x.reset
  BY <1>3, <1>4 DEF DraftOf, NamedBy
<1>6. Renames(x, y, w) /\ Brings(y, w)
  BY <1>4, <1>5 DEF NamedBy, Renames, Brings
<1> QED BY <1>1, <1>6, Renamed

LEMMA Clamped == ASSUME NEW s \in Int \cup {Nil} PROVE F!Clamp(s) \in Cell
BY Kinds DEF F!Clamp, F!Mark, Cell

LEMMA TypeScoreKeeps ==
  ASSUME FormsInv, NEW w \in Who, NEW s \in Scores \cup {Nil}, F!TypeScore(w, s) PROVE FormsInv'
<1> PICK x : x = form
  OBVIOUS
<1> PICK y : y = form'
  OBVIOUS
<1> PICK v : v = F!Clamp(s)
  OBVIOUS
<1>1. /\ mode # Nil /\ y = [x EXCEPT !.score[w] = v] /\ ~F!Fixed(known[mode][w], x.f[w])
      /\ UNCHANGED <<row, born, entity, known, pending, locking, mode, call, writes>>
  BY DEF F!TypeScore, F!Becomes
<1>2. IsForm(x) /\ ChosenInv /\ v \in Cell
  BY Kinds, Clamped DEF FormsInv, FormsTypes
<1>3. /\ IsRecord(y) /\ y.f = x.f /\ y.draft = x.draft /\ y.reset = x.reset /\ y.score = [x.score EXCEPT ![w] = v]
  BY <1>1, <1>2 DEF IsForm, IsRecord
<1>4. /\ IsFields(y.f) /\ y.score \in [Who -> Cell]
      /\ \A u \in Who : u # w => y.score[u] = x.score[u]
      /\ w \in y.draft => ~Empty(y.f[w])
      /\ ~F!Fixed(known[mode][w], y.f[w])
  BY <1>1, <1>2, <1>3 DEF IsForm
<1>5. w \notin y.draft \cup y.reset /\ ~Empty(y.f[w]) /\ (mode = "edit" => y.f[w] # row.f[w]) => w \notin pending[mode]
  BY <1>1, <1>2, <1>3 DEF ChosenInv
<1>6. Renames(x, y, w) /\ Brings(y, w)
  BY <1>3, <1>4, <1>5 DEF Renames, Brings
<1> QED BY <1>1, <1>6, Renamed

-----------------------------------------------------------------------------
(* The form comes and goes.                                                  *)

LEMMA NoListsYet == F!IsDirectory(F!NoLists)
<1> PICK d : d = F!NoLists
  OBVIOUS
<1>1. DOMAIN d = Who /\ \A w \in Who : DOMAIN d[w] = {} /\ d[w] = [n \in {} |-> Nil]
  BY DEF F!NoLists
<1>2. \A w \in Who : d[w] \in [DOMAIN d[w] -> [score : F!Grade \cup {Nil}, fixed : BOOLEAN]]
  BY <1>1
<1> QED BY <1>1, <1>2 DEF F!IsDirectory

LEMMA FormPrefilled ==
  ASSUME NEW r, F!IsProduct(r), NEW l, F!IsDirectory(l) PROVE F!Prefill(r, l) \in [Who -> Cell]
<1>1. \A w \in Who : r.score[w] \in Cell
  BY Kinds DEF F!IsProduct, Cell
<1>2. ASSUME NEW w \in Who, NEW n, n \in DOMAIN l[w] PROVE l[w][n].score \in Cell
  BY <1>2, DirectoryScore
<1> QED BY <1>1, <1>2 DEF F!Prefill, F!Fixed

LEMMA OpenedForm ==
  ASSUME NEW r, F!IsProduct(r), NEW l, F!IsDirectory(l), NEW x, x = F!Form(F!Shown(r), F!Prefill(r, l))
  PROVE  /\ IsForm(x) /\ \A w \in Who : x.f[w] = r.f[w]
         /\ \A k \in Alloc : x.f[k] = r.f[k]
<1>1. x.f = F!Shown(r) /\ x.score = F!Prefill(r, l) /\ x.draft = {} /\ x.reset = {} /\ IsRecord(x)
  BY DEF F!Form, IsRecord
<1>2. x.f = [k \in F!Field |-> IF k = Rate THEN F!ParseRate(r.f[k]) ELSE r.f[k]] /\ F!ParseRate(r.f[Rate]) \in Pair
  BY <1>1, Opened
<1>3. IsFields(x.f) /\ x.f[Rate] \in Pair /\ \A k \in F!Field : k # Rate => x.f[k] = r.f[k]
  BY <1>2, Kinds DEF IsFields
<1>4. /\ \A w \in Who : x.f[w] = r.f[w]
      /\ \A k \in Alloc : x.f[k] = r.f[k] /\ F!IsAllocation(r.f[k])
  <2>1. \A k \in Who \cup Alloc : k \in F!Field /\ k # Rate
    BY Kinds
  <2>2. \A k \in Who \cup Alloc : x.f[k] = r.f[k]
    BY <1>3, <2>1, Zenon
  <2>3. \A k \in Alloc : F!IsAllocation(r.f[k])
    BY Zenon DEF F!IsProduct
  <2> QED
    BY <2>2, <2>3, Zenon
<1>5. x.score \in [Who -> Cell]
  BY <1>1, FormPrefilled
<1> QED BY <1>1, <1>3, <1>4, <1>5 DEF IsForm

\* The screen, without the product under it.
OverServer ==
  /\ mode \in Side \cup {Nil} /\ pending \in [Side -> SUBSET Who] /\ IsForm(form)
  /\ DOMAIN known = Side /\ \A m \in Side : F!IsDirectory(known[m])
  /\ mode = Nil => form = F!Blank
  /\ pending["create"] # {} => mode = "create"
  /\ FormRowsInv /\ ChosenInv

LEMMA Over == FormsInv => OverServer
BY DEF FormsInv, FormsTypes, OverServer

LEMMA Assembled ==
  ASSUME FormsInv, OverServer', UNCHANGED <<row, born, entity, locking, writes>>,
         UNCHANGED call \/ (SaveInv' /\ writes < MaxWrites) \/ call' = Nil
  PROVE  FormsInv'
<1>1. FormsTypes'
  BY DEF FormsInv, FormsTypes, OverServer
<1>2. SaveInv'
  BY SaveKept DEF FormsInv, SaveInv
<1> QED BY <1>1, <1>2 DEF FormsInv, OverServer

LEMMA OpenEditKeeps == ASSUME FormsInv, F!OpenEdit PROVE FormsInv'
<1> PICK x : x = form'
  OBVIOUS
<1>1. /\ mode = Nil /\ mode' = "edit" /\ x = F!Form(F!Shown(row), F!Prefill(row, known["edit"]))
      /\ UNCHANGED <<row, born, entity, known, pending, locking, call, writes>>
  BY DEF F!OpenEdit
<1>2. F!IsProduct(row) /\ F!IsDirectory(known["edit"]) /\ OverServer
  BY Over DEF FormsInv, FormsTypes, Side
<1>3. /\ IsForm(x) /\ \A w \in Who : x.f[w] = row.f[w]
      /\ \A k \in Alloc : x.f[k] = row.f[k]
  BY <1>1, <1>2, OpenedForm
<1>4. FormRowsInv' /\ ChosenInv'
  BY <1>1, <1>2, <1>3 DEF OverServer, FormRowsInv, ChosenInv
<1>5. OverServer'
  BY <1>1, <1>2, <1>3, <1>4, Kinds DEF OverServer, Side
<1> QED BY <1>1, <1>5, Assembled

LEMMA OpenCreateKeeps == ASSUME FormsInv, F!OpenCreate PROVE FormsInv'
<1> PICK x : x = form'
  OBVIOUS
<1>1. /\ mode = Nil /\ mode' = "create" /\ x = F!Blank
      /\ known' = [known EXCEPT !["create"] = F!NoLists] /\ pending' = [pending EXCEPT !["create"] = Who]
      /\ UNCHANGED <<row, born, entity, locking, call, writes>>
  BY DEF F!OpenCreate
<1>2. OverServer
  BY Over
<1>3. IsForm(x) /\ (\A k \in Alloc : ~F!Repeats(x.f[k])) /\ (\A w \in Who : Empty(x.f[w]))
  BY <1>1, BlankForm
<1>4. /\ DOMAIN known' = Side /\ \A m \in Side : F!IsDirectory(known'[m])
      /\ known'["edit"] = known["edit"] /\ \A w \in Who : DOMAIN known'["create"][w] = {}
      /\ pending' \in [Side -> SUBSET Who] /\ pending'["edit"] = pending["edit"]
  BY <1>1, <1>2, NoListsYet DEF OverServer, Side, F!NoLists
<1>5. FormRowsInv' /\ ChosenInv'
  BY <1>1, <1>2, <1>3, <1>4 DEF OverServer, FormRowsInv, ChosenInv, Side
<1>6. OverServer'
  BY <1>1, <1>2, <1>3, <1>4, <1>5, Kinds DEF OverServer, Side
<1> QED BY <1>1, <1>6, Assembled

LEMMA ClosedKeeps == ASSUME OverServer, F!Closed PROVE OverServer'
<1> PICK x : x = form'
  OBVIOUS
<1>1. /\ mode' = Nil /\ x = F!Blank
      /\ known' = [known EXCEPT !["create"] = F!NoLists] /\ pending' = [pending EXCEPT !["create"] = {}]
  BY DEF F!Closed
<1>2. IsForm(x)
  BY <1>1, BlankForm
<1>3. /\ DOMAIN known' = Side /\ \A m \in Side : F!IsDirectory(known'[m])
      /\ known'["edit"] = known["edit"]
      /\ pending' \in [Side -> SUBSET Who] /\ pending'["edit"] = pending["edit"] /\ pending'["create"] = {}
  BY <1>1, NoListsYet DEF OverServer, Side
<1>4. FormRowsInv' /\ ChosenInv'
  BY <1>1, <1>3, Kinds DEF OverServer, FormRowsInv, ChosenInv, Side
<1> QED BY <1>1, <1>2, <1>3, <1>4, Kinds DEF OverServer, Side

LEMMA CloseFormKeeps == ASSUME FormsInv, F!Close PROVE FormsInv'
<1>1. F!Closed /\ UNCHANGED <<row, born, entity, locking, call, writes>>
  BY DEF F!Close
<1> QED BY <1>1, Over, ClosedKeeps, Assembled

LEMMA ManagedKeeps == ASSUME FormsInv, F!ManagedArrives PROVE FormsInv'
<1>1. locking' \in BOOLEAN /\ UNCHANGED <<row, born, entity, known, pending, mode, form, call, writes>>
  BY DEF F!ManagedArrives
<1>2. FormsTypes' /\ FormRowsInv' /\ ChosenInv'
  BY <1>1 DEF FormsInv, FormsTypes, FormRowsInv, ChosenInv
<1> QED BY <1>1, <1>2, SaveKept DEF FormsInv

-----------------------------------------------------------------------------
(* Lists, saves and answers.                                                 *)

LEMMA FormListsKeep ==
  ASSUME FormsInv, NEW m \in Side, NEW w \in Who, NEW ok \in BOOLEAN, F!ListsArrive(m, w, ok) PROVE FormsInv'
<1> PICK x : x = form
  OBVIOUS
<1> PICK y : y = form'
  OBVIOUS
<1> DEFINE lost == {u \in Who : x.f[u] # row.f[u]}
<1>1. /\ w \in pending[m] /\ pending' = [pending EXCEPT ![m] = @ \ {w}]
      /\ known' = IF ok THEN [known EXCEPT ![m][w] = entity[w]] ELSE known
      /\ y = IF ok /\ m = "edit" /\ mode = "edit"
             THEN [x EXCEPT !.score = F!Prefill(row, known'["edit"]), !.reset = lost] ELSE x
      /\ UNCHANGED <<row, born, entity, locking, mode, call, writes>>
  BY DEF F!ListsArrive
<1>2. OverServer /\ IsForm(x) /\ F!IsProduct(row) /\ F!IsDirectory(entity)
  BY Over DEF FormsInv, FormsTypes
<1>3. /\ DOMAIN known' = Side /\ DOMAIN known'[m] = Who
      /\ \A i \in Side : i # m => known'[i] = known[i]
      /\ \A u \in Who : u # w => known'[m][u] = known[m][u]
      /\ known'[m][w] = entity[w] \/ known'[m][w] = known[m][w]
  <2>1. DOMAIN known = Side /\ DOMAIN known[m] = Who
    BY <1>2 DEF OverServer, F!IsDirectory
  <2> QED BY <1>1, <2>1
<1>4. \A i \in Side : F!IsDirectory(known'[i])
  <2>1. F!IsDirectory(known[m]) /\ \A i \in Side : i # m => F!IsDirectory(known'[i])
    BY <1>2, <1>3 DEF OverServer
  <2>2. F!IsDirectory(known'[m])
    <3> SUFFICES ASSUME NEW u \in Who
                 PROVE  known'[m][u] \in [DOMAIN known'[m][u] -> [score : F!Grade \cup {Nil}, fixed : BOOLEAN]]
      BY <1>3 DEF F!IsDirectory
    <3>1. /\ known[m][u] \in [DOMAIN known[m][u] -> [score : F!Grade \cup {Nil}, fixed : BOOLEAN]]
          /\ entity[u] \in [DOMAIN entity[u] -> [score : F!Grade \cup {Nil}, fixed : BOOLEAN]]
      BY <1>2, <2>1 DEF F!IsDirectory
    <3>2. known'[m][u] = known[m][u] \/ known'[m][u] = entity[u]
      BY <1>3
    <3> QED BY <3>1, <3>2
  <2> QED BY <2>1, <2>2
<1>5. /\ pending' \in [Side -> SUBSET Who] /\ pending'[m] = pending[m] \ {w}
      /\ \A i \in Side : i # m => pending'[i] = pending[i]
  BY <1>1, <1>2 DEF OverServer
<1>6. /\ IsForm(y) /\ y.f = x.f /\ y.draft = x.draft
      /\ y = x \/ (mode = "edit" /\ m = "edit" /\ y.reset = lost)
  <2>1. CASE y = x
    BY <2>1, <1>2
  <2>2. CASE mode = "edit" /\ m = "edit" /\ y = [x EXCEPT !.score = F!Prefill(row, known'["edit"]), !.reset = lost]
    <3>1. F!Prefill(row, known'["edit"]) \in [Who -> Cell]
      BY <1>2, <1>4, FormPrefilled DEF Side
    <3>2. /\ y.f = x.f /\ y.draft = x.draft /\ y.reset = lost
          /\ y.score = F!Prefill(row, known'["edit"]) /\ IsRecord(y)
      BY <1>2, <2>2 DEF IsForm, IsRecord
    <3> QED BY <1>2, <2>2, <3>1, <3>2 DEF IsForm
  <2> QED BY <1>1, <2>1, <2>2
<1>7. FormRowsInv'
  BY <1>1, <1>2, <1>6 DEF OverServer, FormRowsInv
<1>8. ChosenInv'
  <2>1. \A i \in Side : \A u \in pending'[i] : DOMAIN known'[i][u] = {}
    <3> SUFFICES ASSUME NEW i \in Side, NEW u \in pending'[i] PROVE DOMAIN known'[i][u] = {}
      OBVIOUS
    <3>1. u \in pending[i] /\ u \in Who /\ (i = m => u # w)
      BY <1>2, <1>5 DEF OverServer
    <3>2. known'[i][u] = known[i][u]
      BY <1>3, <3>1
    <3> QED BY <1>2, <3>1, <3>2 DEF OverServer, ChosenInv
  <2>2. ASSUME mode # Nil, NEW u \in Who \ y.reset, u \notin y.draft, ~Empty(y.f[u]), mode = "edit" => y.f[u] # row.f[u]
        PROVE  /\ u \notin pending'[mode]
               /\ F!Fixed(known'[mode][u], y.f[u]) => y.score[u] = known'[mode][u][y.f[u]].score
    <3>1. y = x
      BY <1>6, <2>2
    <3>2. /\ mode \in Side /\ u \notin pending[mode]
          /\ F!Fixed(known[mode][u], x.f[u]) => x.score[u] = known[mode][u][x.f[u]].score
      BY <1>2, <2>2, <3>1 DEF OverServer, ChosenInv
    <3>3. known'[mode][u] = known[mode][u] /\ u \notin pending'[mode]
      BY <1>1, <1>3, <1>5, <3>2
    <3> QED BY <3>1, <3>2, <3>3
  <2> QED BY <1>1, <2>1, <2>2 DEF ChosenInv
<1>9. OverServer'
  <2>1. mode = Nil => y = F!Blank
    BY <1>2, <1>6, Kinds DEF OverServer
  <2>2. pending'["create"] # {} => mode = "create"
    BY <1>2, <1>5 DEF OverServer, Side
  <2> QED BY <1>1, <1>2, <1>3, <1>4, <1>5, <1>6, <1>7, <1>8, <2>1, <2>2 DEF OverServer
<1> QED BY <1>1, <1>9, Assembled

LEMMA ListedKeeps ==
  ASSUME NEW e, NEW s \in F!Grade, NEW n,
         e \in [DOMAIN e -> [score : F!Grade \cup {Nil}, fixed : BOOLEAN]],
         NEW l, l = F!Listed(e, n, s)
  PROVE  l \in [DOMAIN l -> [score : F!Grade \cup {Nil}, fixed : BOOLEAN]]
BY DEF F!Listed

LEMMA PostKeeps == ASSUME FormsInv, NEW failed, F!PostNames(failed) PROVE FormsInv'
<1> PICK c : c = call
  OBVIOUS
<1> PICK d : d = call'
  OBVIOUS
<1> PICK e : e = entity'
  OBVIOUS
<1>1. /\ c # Nil /\ d = [c EXCEPT !.stage = "write"]
      /\ e = [w \in Who |-> IF w \in c.new \ failed /\ c.form.score[w] \in F!Grade
                            THEN F!Listed(entity[w], c.form.f[w], c.form.score[w])
                            ELSE entity[w]]
      /\ UNCHANGED <<row, born, known, pending, locking, mode, form, writes>>
  BY DEF F!PostNames
<1>2. IsSave(c) /\ F!IsDirectory(entity)
  BY <1>1 DEF FormsInv, FormsTypes, SaveInv
<1>3. IsSave(d)
  <2>1. c = [mode |-> c.mode, stage |-> c.stage, form |-> c.form, new |-> c.new, locked |-> c.locked, body |-> c.body]
    BY <1>2 DEF IsSave
  <2>2. /\ d = [mode |-> d.mode, stage |-> d.stage, form |-> d.form, new |-> d.new, locked |-> d.locked, body |-> d.body]
        /\ d.mode = c.mode /\ d.form = c.form /\ d.new = c.new /\ d.locked = c.locked /\ d.body = c.body
    BY <1>1, <2>1
  <2> QED BY <1>2, <2>2 DEF IsSave, IsEdit, IsCreate
<1>4. ASSUME NEW w \in Who PROVE e[w] \in [DOMAIN e[w] -> [score : F!Grade \cup {Nil}, fixed : BOOLEAN]]
  <2>1. entity[w] \in [DOMAIN entity[w] -> [score : F!Grade \cup {Nil}, fixed : BOOLEAN]]
    BY <1>2 DEF F!IsDirectory
  <2>2. CASE w \in c.new \ failed /\ c.form.score[w] \in F!Grade
    <3>1. e[w] = F!Listed(entity[w], c.form.f[w], c.form.score[w])
      BY <1>1, <2>2
    <3> QED BY <2>1, <2>2, <3>1, ListedKeeps
  <2>3. CASE ~(w \in c.new \ failed /\ c.form.score[w] \in F!Grade)
    BY <1>1, <2>1, <2>3
  <2> QED BY <2>2, <2>3
<1>5. F!IsDirectory(e)
  BY <1>1, <1>4 DEF F!IsDirectory
<1>6. FormsTypes' /\ FormRowsInv' /\ ChosenInv'
  BY <1>1, <1>5 DEF FormsInv, FormsTypes, FormRowsInv, ChosenInv
<1>7. SaveInv'
  <2>1. IsSave(d)' <=> IsSave(d)
    BY <1>1 DEF IsSave, IsEdit, IsCreate, Delta, Rescored
  <2> QED BY <1>3, <2>1 DEF SaveInv
<1> QED BY <1>6, <1>7 DEF FormsInv

\* What a save is made of: the form, with blanks around its texts gone.
Cleaned == [f |-> [k \in F!Field |-> F!Clean(k)], score |-> form.score]

LEMMA CleanedForm ==
  ASSUME FormsInv, NEW x, x = Cleaned
  PROVE  /\ IsSaved(x) /\ x.score = form.score
         /\ \A k \in F!Field : x.f[k] = F!Clean(k)
         /\ \A k \in Alloc \cup {Rate} : x.f[k] = form.f[k]
<1>1. x = [f |-> x.f, score |-> x.score] /\ x.f = [k \in F!Field |-> F!Clean(k)] /\ x.score = form.score
  BY DEF Cleaned
<1>2. \A k \in Alloc \cup {Rate} : x.f[k] = form.f[k]
  BY <1>1, Kinds DEF F!Clean
<1>3. IsForm(form)
  BY DEF FormsInv, FormsTypes
<1> QED BY <1>1, <1>2, <1>3 DEF IsSaved, IsFields, IsForm

LEMMA BodySent ==
  ASSUME FormsInv, NEW x, x = Cleaned, NEW ks \in SUBSET F!Field, NEW ws PROVE F!Sent(ks, ws) = Body(x, ks, ws)
<1>1. x.score = form.score /\ (\A k \in F!Field : x.f[k] = F!Clean(k)) /\ x.f[Rate] = form.f[Rate]
  BY CleanedForm
<1>2. \A k \in ks : (IF k = Rate THEN F!WriteRate(form.f[k]) ELSE F!Clean(k)) = (IF k = Rate THEN F!WriteRate(x.f[k]) ELSE x.f[k])
  BY <1>1
<1> QED BY <1>1, <1>2 DEF F!Sent, Body, Rate

\* The checks that let a form be saved.
LEMMA Checked ==
  ASSUME FormsInv, F!CanSave, NEW x, x = Cleaned, NEW locked, locked = {k \in F!Field : F!ReadOnly(k)}
  PROVE  /\ \A k \in F!Field \ locked : Filled(x, k)
         /\ \A w \in Who : ~Empty(x.f[w]) => x.score[w] # Nil
<1>3. /\ \A k \in F!Field : x.f[k] = F!Clean(k)
      /\ \A k \in Alloc \cup {Rate} : x.f[k] = form.f[k]
      /\ x.score = form.score
  BY CleanedForm
<1>1. ASSUME NEW k \in F!Field \ locked PROVE Filled(x, k)
  <2>1. ~F!Invalid(k)
    BY DEF F!CanSave, F!Held
  <2>2. ASSUME k \in Text \cup Who PROVE ~Empty(x.f[k])
    <3>1. k \notin Alloc /\ k # Rate
      BY <2>2, Kinds
    <3>2. F!Invalid(k) <=> x.f[k] = ""
      BY <1>3, <2>2, <3>1 DEF F!Invalid, Rate
    <3> QED BY <2>1, <3>2 DEF Empty
  <2>3. ASSUME k \in Alloc PROVE x.f[k] # <<>> /\ ~F!Unbalanced(x.f[k])
    <3>1. k \notin Text \cup Who /\ k # Rate
      BY <2>3, Kinds
    <3>2. F!Invalid(k) <=> x.f[k] = <<>> \/ F!Unbalanced(x.f[k])
      BY <1>3, <2>3, <3>1 DEF F!Invalid, Rate
    <3> QED BY <2>1, <3>2
  <2>4. k = Rate => x.f[k][1] # Nil
    BY <1>3, <2>1, Kinds DEF F!Invalid, Rate
  <2> QED BY <2>2, <2>3, <2>4 DEF Filled
<1>2. ASSUME NEW w \in Who PROVE ~Empty(x.f[w]) => x.score[w] # Nil
  BY <1>3, Kinds DEF F!CanSave, F!ScoreMissing, Empty
<1> QED BY <1>1, <1>2

LEMMA SaveEditKeeps == ASSUME FormsInv, F!SaveEdit PROVE FormsInv'
<1> PICK c : c = call'
  OBVIOUS
<1> PICK locked : locked = {k \in F!Field : F!ReadOnly(k)}
  OBVIOUS
<1> PICK x : x = Cleaned
  OBVIOUS
<1> PICK body : body = F!Sent(F!Changed, F!ScoresSent(F!Changed))
  OBVIOUS
<1>1. /\ mode = "edit" /\ F!CanSave /\ writes < MaxWrites
      /\ c = [mode |-> "edit", stage |-> "names", form |-> x, new |-> F!NewNames, locked |-> locked, body |-> body]
      /\ UNCHANGED <<row, born, entity, known, pending, locking, mode, form, writes>>
  BY DEF F!SaveEdit, F!Saves, Cleaned
<1>2. /\ c.mode = "edit" /\ c.form = x /\ c.new = F!NewNames /\ c.locked = locked /\ c.body = body
      /\ c = [mode |-> c.mode, stage |-> c.stage, form |-> c.form, new |-> c.new, locked |-> c.locked, body |-> c.body]
  BY <1>1
<1>3. /\ \A k \in F!Field \ locked : Filled(x, k)
      /\ \A w \in Who : ~Empty(x.f[w]) => x.score[w] # Nil
  BY <1>1, Checked
<1>4. F!NewNames \subseteq Who /\ locked \subseteq F!Field
  BY DEF F!NewNames
<1>14. /\ IsSaved(x) /\ x.score = form.score
       /\ \A k \in F!Field : x.f[k] = F!Clean(k)
       /\ \A k \in Alloc \cup {Rate} : x.f[k] = form.f[k]
  BY CleanedForm
<1>5. F!Changed = Delta(x, locked) /\ F!Changed \subseteq F!Field
  BY <1>14 DEF F!Changed, Delta
<1>6. F!ScoresSent(F!Changed) = Rescored(x, Delta(x, locked))
  BY <1>5, <1>14 DEF F!ScoresSent, Rescored
<1>7. body = Body(x, Delta(x, locked), Rescored(x, Delta(x, locked)))
  BY <1>5, <1>6, BodySent
<1>8. locked # {} => Excel \subseteq locked
  BY Kinds DEF F!ReadOnly
<1>9. /\ IsSaved(x) /\ \A k \in Alloc : F!Repeats(x.f[k]) => F!Repeats(row.f[k])
  BY <1>1, <1>14 DEF FormsInv, FormRowsInv
<1>10. IsEdit(c)
  BY <1>2, <1>7, <1>8, <1>9 DEF IsEdit
<1>11. IsSave(c)
  BY <1>2, <1>3, <1>4, <1>9, <1>10, Kinds DEF IsSave, Side
<1>12. SaveInv'
  <2>1. IsSave(c)' <=> IsSave(c)
    BY <1>1 DEF IsSave, IsEdit, IsCreate, Delta, Rescored
  <2> QED BY <1>11, <2>1 DEF SaveInv
<1>13. OverServer'
  BY <1>1, Over DEF OverServer, FormRowsInv, ChosenInv
<1> QED BY <1>1, <1>12, <1>13, Assembled

LEMMA SaveCreateKeeps == ASSUME FormsInv, F!SaveCreate PROVE FormsInv'
<1> PICK c : c = call'
  OBVIOUS
<1> PICK locked : locked = {k \in F!Field : F!ReadOnly(k)}
  OBVIOUS
<1> PICK x : x = Cleaned
  OBVIOUS
<1> PICK body : body = F!Sent(F!Field, Who)
  OBVIOUS
<1>1. /\ mode = "create" /\ F!CanSave /\ writes < MaxWrites
      /\ c = [mode |-> "create", stage |-> "names", form |-> x, new |-> F!NewNames, locked |-> locked, body |-> body]
      /\ UNCHANGED <<row, born, entity, known, pending, locking, mode, form, writes>>
  BY DEF F!SaveCreate, F!Saves, Cleaned
<1>2. /\ c.mode = "create" /\ c.form = x /\ c.new = F!NewNames /\ c.locked = locked /\ c.body = body
      /\ c = [mode |-> c.mode, stage |-> c.stage, form |-> c.form, new |-> c.new, locked |-> c.locked, body |-> c.body]
  BY <1>1
<1>3. /\ \A k \in F!Field \ locked : Filled(x, k)
      /\ \A w \in Who : ~Empty(x.f[w]) => x.score[w] # Nil
  BY <1>1, Checked
<1>4. F!NewNames \subseteq Who /\ locked = {}
  BY <1>1 DEF F!NewNames, F!ReadOnly
<1>5. body = Body(x, F!Field, Who)
  BY BodySent
<1>6. IsSaved(x)
  BY CleanedForm
<1>7. IsCreate(c)
  BY <1>2, <1>4, <1>5 DEF IsCreate
<1>8. IsSave(c)
  BY <1>2, <1>3, <1>4, <1>6, <1>7, Kinds DEF IsSave, Side
<1>9. SaveInv'
  <2>1. IsSave(c)' <=> IsSave(c)
    BY <1>1 DEF IsSave, IsEdit, IsCreate, Delta, Rescored
  <2> QED BY <1>8, <2>1 DEF SaveInv
<1>10. OverServer'
  BY <1>1, Over DEF OverServer, FormRowsInv, ChosenInv
<1> QED BY <1>1, <1>9, <1>10, Assembled

\* The answer of a save closes the form that is open, if it is of the kind.
LEMMA AnsweredKeeps ==
  ASSUME FormsInv, call # Nil, F!Answered, row' = row \/ call.mode = "edit" PROVE OverServer'
<1>1. OverServer
  BY Over
<1>2. CASE mode = call.mode
  BY <1>1, <1>2, ClosedKeeps DEF F!Answered
<1>3. CASE mode # call.mode
  <2>1. UNCHANGED <<mode, form, pending, known>>
    BY <1>3 DEF F!Answered
  <2>2. mode # "edit" \/ row' = row
    BY <1>3
  <2>3. FormRowsInv' /\ ChosenInv'
    BY <1>1, <2>1, <2>2 DEF OverServer, FormRowsInv, ChosenInv
  <2> QED BY <1>1, <2>1, <2>3 DEF OverServer
<1> QED BY <1>2, <1>3

\* What a write makes of a product: the fields of the form, but those that were
\* locked.
WrittenAs(c, q) ==
  /\ q.f = [k \in F!Field |-> q.f[k]]
  /\ \A k \in F!Field \ c.locked : k # Rate => q.f[k] = c.form.f[k]
  /\ Rate \notin c.locked => q.f[Rate] = F!WriteRate(c.form.f[Rate]) \/ F!ParseRate(q.f[Rate]) = c.form.f[Rate]
  /\ \A w \in Who : c.form.score[w] # Nil => q.score[w] = c.form.score[w]

LEMMA RateWritten ==
  ASSUME NEW r \in Pair, r[1] # Nil PROVE F!WriteRate(r) \in Seq(Rates) /\ F!WriteRate(r) # <<>>
<1>1. PICK p \in Figure, q \in Figure : r = <<p, q>>
  BY DEF Pair
<1>2. p \in Rates
  BY <1>1 DEF Figure
<1>3. CASE q = Nil
  <2>1. F!WriteRate(r) = <<p>>
    BY <1>1, <1>3 DEF F!WriteRate
  <2> QED BY <1>2, <2>1
<1>4. CASE q # Nil
  <2>1. F!WriteRate(r) = <<p, q>> /\ q \in Rates
    BY <1>1, <1>4 DEF F!WriteRate, Figure
  <2> QED BY <1>2, <2>1
<1> QED BY <1>3, <1>4

\* The body of an edit, one field or score at a time.
LEMMA EditBody ==
  ASSUME NEW c, IsSave(c), c.mode = "edit", NEW d, d = Delta(c.form, c.locked)
  PROVE  /\ d \subseteq F!Field \ c.locked /\ DOMAIN c.body.f = d
         /\ \A k \in d : c.body.f[k] = IF k = Rate THEN F!WriteRate(c.form.f[k]) ELSE c.form.f[k]
         /\ \A w \in Who : w \in d \/ c.form.score[w] # row.score[w] => w \in DOMAIN c.body.score
         /\ DOMAIN c.body.score \subseteq Who
         /\ \A w \in DOMAIN c.body.score : c.body.score[w] = c.form.score[w]
<1>1. c.body = Body(c.form, d, Rescored(c.form, d))
  BY DEF IsSave, IsEdit
<1>2. /\ c.body.f = [k \in d |-> IF k = Rate THEN F!WriteRate(c.form.f[k]) ELSE c.form.f[k]]
      /\ c.body.score = [w \in Rescored(c.form, d) |-> c.form.score[w]]
  BY <1>1 DEF Body
<1>3. d \subseteq F!Field \ c.locked
  BY DEF Delta
<1> QED BY <1>2, <1>3 DEF Rescored

LEMMA PatchWritten ==
  ASSUME NEW c, IsSave(c), c.mode = "edit", F!Accepted(c.body), F!IsProduct(row), NEW q, q = F!Updated(row, c.body)
  PROVE  /\ F!IsProduct(q) /\ WrittenAs(c, q)
         /\ \A k \in c.locked : q.f[k] = row.f[k]
<1> PICK d : d = Delta(c.form, c.locked)
  OBVIOUS
<1>1. /\ d \subseteq F!Field \ c.locked /\ DOMAIN c.body.f = d
      /\ \A k \in d : c.body.f[k] = IF k = Rate THEN F!WriteRate(c.form.f[k]) ELSE c.form.f[k]
      /\ \A w \in Who : w \in d \/ c.form.score[w] # row.score[w] => w \in DOMAIN c.body.score
      /\ DOMAIN c.body.score \subseteq Who
      /\ \A w \in DOMAIN c.body.score : c.body.score[w] = c.form.score[w]
  BY EditBody
<1>2. /\ q = [f |-> q.f, score |-> q.score, coded |-> row.coded]
      /\ q.f = [k \in F!Field |-> IF k \in DOMAIN c.body.f THEN c.body.f[k] ELSE row.f[k]]
      /\ q.score = [w \in Who |-> IF w \in DOMAIN c.body.score /\ c.body.score[w] # Nil THEN c.body.score[w] ELSE row.score[w]]
  BY ProductUpdated
<1>3. \A k \in F!Field : q.f[k] = IF k \notin d THEN row.f[k]
                                  ELSE IF k = Rate THEN F!WriteRate(c.form.f[k]) ELSE c.form.f[k]
  BY <1>1, <1>2
<1>4. \A w \in Who : q.score[w] = IF w \in DOMAIN c.body.score /\ c.form.score[w] # Nil THEN c.form.score[w] ELSE row.score[w]
  BY <1>1, <1>2
<1>5. IsSaved(c.form) /\ (Rate \notin c.locked => c.form.f[Rate][1] # Nil) /\ c.locked \subseteq F!Field
  BY Kinds DEF IsSave, Filled
<1>6. \A k \in F!Field \ c.locked : k \notin d => c.form.f[k] = F!Shown(row)[k]
  BY DEF Delta
<1>7. F!Shown(row) = [k \in F!Field |-> IF k = Rate THEN F!ParseRate(row.f[k]) ELSE row.f[k]]
  BY Opened
<1>8. WrittenAs(c, q)
  <2>1. q.f = [k \in F!Field |-> q.f[k]]
    BY <1>2
  <2>2. \A k \in F!Field \ c.locked : k # Rate => q.f[k] = c.form.f[k]
    BY <1>3, <1>6, <1>7
  <2>3. Rate \notin c.locked => q.f[Rate] = F!WriteRate(c.form.f[Rate]) \/ F!ParseRate(q.f[Rate]) = c.form.f[Rate]
    BY <1>3, <1>6, <1>7, Kinds
  <2>4. \A w \in Who : c.form.score[w] # Nil => q.score[w] = c.form.score[w]
    BY <1>1, <1>4
  <2> QED BY <2>1, <2>2, <2>3, <2>4 DEF WrittenAs
<1>9. \A k \in c.locked : q.f[k] = row.f[k]
  BY <1>1, <1>3, <1>5
<1>10. F!IsProduct(q)
  <2>1. q.score \in [Who -> Graded]
    <3>1. \A w \in Who : row.score[w] \in Graded
      BY DEF F!IsProduct, Graded
    <3>2. \A w \in DOMAIN c.body.score : c.body.score[w] \in Graded
      BY DEF F!Accepted, F!ScoresAccepted, Graded
    <3> QED BY <1>2, <3>1, <3>2
  <2>2. \A k \in Alloc : F!IsAllocation(q.f[k])
    <3>1. \A k \in Alloc : F!IsAllocation(c.form.f[k]) /\ F!IsAllocation(row.f[k])
      BY <1>5 DEF IsSaved, F!IsProduct
    <3> QED BY <1>3, <3>1, Kinds
  <2>3. q.f[Rate] \in {Nil} \cup Seq(Rates)
    <3>1. CASE Rate \in d
      <4>1. c.form.f[Rate] \in Pair /\ c.form.f[Rate][1] # Nil
        BY <1>1, <1>5, <3>1 DEF IsSaved
      <4>2. q.f[Rate] = F!WriteRate(c.form.f[Rate])
        BY <1>3, <3>1, Kinds
      <4> QED BY <4>1, <4>2, RateWritten
    <3>2. CASE Rate \notin d
      <4>1. q.f[Rate] = row.f[Rate]
        BY <1>3, <3>2, Kinds
      <4> QED BY <4>1 DEF F!IsProduct, Rate
    <3> QED BY <3>1, <3>2
  <2>4. q = [f |-> q.f, score |-> q.score, coded |-> q.coded] /\ q.coded \in BOOLEAN
    BY <1>2 DEF F!IsProduct
  <2>5. q.f = [k \in F!Field |-> q.f[k]]
    BY <1>2
  <2> QED BY <2>1, <2>2, <2>3, <2>4, <2>5 DEF F!IsProduct, Graded, Rate
<1> QED BY <1>8, <1>9, <1>10

LEMMA WriteCounted ==
  ASSUME FormsInv, call # Nil, F!IsProduct(row'), OverServer', call' = Nil, writes' = writes + 1,
         IsList(born'), UNCHANGED <<entity, locking>>
  PROVE  FormsInv'
<1>1. writes' \in 0 .. MaxWrites
  BY Kinds DEF FormsInv, FormsTypes
<1>2. FormsTypes'
  BY <1>1 DEF FormsInv, FormsTypes, OverServer
<1> QED BY <1>2 DEF FormsInv, OverServer, SaveInv

LEMMA PatchKeeps == ASSUME FormsInv, F!PatchEntry PROVE FormsInv'
<1>1. /\ call # Nil /\ call.mode = "edit" /\ call' = Nil /\ F!Accepted(call.body)
      /\ row' = F!Updated(row, call.body) /\ writes' = writes + 1 /\ F!Answered
      /\ UNCHANGED <<born, entity, locking>>
  BY DEF F!PatchEntry, F!Served, F!Stored
<1>2. F!IsProduct(row')
  BY <1>1, PatchWritten DEF FormsInv, FormsTypes, SaveInv
<1>3. OverServer'
  BY <1>1, AnsweredKeeps
<1>4. IsList(born')
  BY <1>1 DEF FormsInv, FormsTypes
<1> QED BY <1>1, <1>2, <1>3, <1>4, WriteCounted

\* The product that a body creates, and the products with one more.
Made(b)    == [f |-> b.f, score |-> b.score, coded |-> FALSE]
Grow(s, e) == Append(s, e)

LEMMA Grown ==
  ASSUME NEW s, IsList(s), NEW e, NEW t, t = Grow(s, e)
  PROVE  IsList(t) /\ t # <<>> /\ t[Len(t)] = e
<1> PICK S : S = {s[i] : i \in DOMAIN s}
  OBVIOUS
<1>1. t \in Seq(S \cup {e}) /\ t # <<>> /\ t[Len(t)] = e
  BY DEF Grow, IsList
<1>2. \A i \in DOMAIN t : t[i] \in {t[j] : j \in DOMAIN t}
  OBVIOUS
<1>3. t \in Seq({t[i] : i \in DOMAIN t})
  BY <1>1, <1>2, SeqOver
<1> QED BY <1>1, <1>3 DEF IsList

LEMMA CreateEntryKeeps == ASSUME FormsInv, NEW answered \in BOOLEAN, F!CreateEntry(answered) PROVE FormsInv'
<1>1. /\ call # Nil /\ call' = Nil
      /\ born' = Grow(born, Made(call.body))
      /\ writes' = writes + 1 /\ (F!Answered \/ UNCHANGED <<mode, form, pending, known>>)
      /\ UNCHANGED <<row, entity, locking>>
  BY DEF F!CreateEntry, F!Served, F!Stored, Grow, Made
<1>2. OverServer'
  <2>1. CASE F!Answered
    BY <1>1, <2>1, AnsweredKeeps
  <2>2. CASE UNCHANGED <<mode, form, pending, known>>
    BY <1>1, <2>2, Over DEF OverServer, FormRowsInv, ChosenInv
  <2> QED BY <1>1, <2>1, <2>2
<1>3. F!IsProduct(row')
  BY <1>1 DEF FormsInv, FormsTypes
<1>4. IsList(born')
  <2>1. IsList(born)
    BY DEF FormsInv, FormsTypes
  <2> QED BY <1>1, <2>1, Grown
<1> QED BY <1>1, <1>2, <1>3, <1>4, WriteCounted

LEMMA FailsKeep == ASSUME FormsInv, F!WriteFails PROVE FormsInv'
<1>1. call' = Nil /\ UNCHANGED <<row, born, entity, known, pending, locking, mode, form, writes>>
  BY DEF F!WriteFails, F!Served
<1>2. OverServer'
  BY <1>1, Over DEF OverServer, FormRowsInv, ChosenInv
<1> QED BY <1>1, <1>2, Assembled

\* Only an edit that is written changes the product, and only a create the
\* list of those created.
LEMMA RowUntouched ==
  ASSUME F!Next \/ UNCHANGED F!vars
  PROVE  (F!PatchEntry \/ row' = row) /\ ((\E ok \in BOOLEAN : F!CreateEntry(ok)) \/ born' = born)
<1>1. ASSUME F!User PROVE UNCHANGED <<row, born>>
  BY <1>1 DEF F!User, F!OpenEdit, F!OpenCreate, F!Close, F!SaveEdit, F!SaveCreate, F!Saves, F!Type, F!SetRate,
       F!AddName, F!RemoveName, F!AddRow, F!RemoveRow, F!SetRow, F!Choose, F!TypeName, F!TypeScore, F!Set, F!Becomes
<1>2. ASSUME F!Server PROVE (F!PatchEntry \/ row' = row) /\ ((\E ok \in BOOLEAN : F!CreateEntry(ok)) \/ born' = born)
  BY <1>2 DEF F!Server, F!ManagedArrives, F!PatchEntry, F!CreateEntry, F!WriteFails, F!ListsArrive, F!PostNames
<1> QED BY <1>1, <1>2 DEF F!Next, F!vars

-----------------------------------------------------------------------------
(* The invariant of the forms.                                               *)

LEMMA FormsInit == F!Init => FormsInv
<1> SUFFICES ASSUME F!Init PROVE FormsInv
  OBVIOUS
<1>1. /\ row \in Rows /\ born = <<>> /\ entity = Entities
      /\ known = [m \in Side |-> F!NoLists] /\ pending = [edit |-> Who, create |-> {}] /\ locking = FALSE
      /\ mode = Nil /\ form = F!Blank /\ call = Nil /\ writes = 0
  BY DEF F!Init, Side, F!Modes
<1>2. F!IsProduct(row) /\ F!IsDirectory(entity) /\ MaxWrites \in Nat
  BY <1>1, ScreensInstance DEF F!FormsAssumption
<1>3. IsForm(form)
  BY <1>1, BlankForm
<1>4. DOMAIN known = Side /\ \A m \in Side : F!IsDirectory(known[m]) /\ known[m] = F!NoLists
  BY <1>1, NoListsYet
<1>5. IsList(born)
  BY <1>1 DEF IsList
<1>6. FormsTypes
  <2>1. mode \in Side \cup {Nil} /\ locking \in BOOLEAN /\ pending \in [Side -> SUBSET Who] /\ pending["create"] = {}
    <3>1. mode \in Side \cup {Nil} /\ locking \in BOOLEAN
      BY <1>1
    <3>2. DOMAIN pending = Side /\ pending["edit"] = Who /\ pending["create"] = {}
      BY <1>1 DEF Side
    <3>3. pending = [m \in Side |-> pending[m]] /\ \A m \in Side : pending[m] \in SUBSET Who
      BY <1>1, <3>2 DEF Side
    <3> QED BY <3>1, <3>2, <3>3
  <2>2. writes \in 0 .. MaxWrites
    BY <1>1, <1>2
  <2>3. DOMAIN known = Side /\ \A m \in Side : F!IsDirectory(known[m])
    BY <1>4
  <2> QED BY <1>1, <1>2, <1>3, <1>5, <2>1, <2>2, <2>3 DEF FormsTypes
<1>7. FormRowsInv /\ ChosenInv /\ SaveInv
  <2>1. \A m \in Side : \A w \in Who : DOMAIN known[m][w] = {}
    BY <1>4 DEF F!NoLists
  <2>2. \A m \in Side : pending[m] \subseteq Who
    BY <1>1 DEF Side
  <2> QED BY <1>1, <2>1, <2>2, Kinds DEF FormRowsInv, ChosenInv, SaveInv, Side
<1> QED BY <1>6, <1>7 DEF FormsInv

LEMMA UserKeeps == ASSUME FormsInv, F!User PROVE FormsInv'
<1>1. ASSUME F!OpenEdit \/ F!OpenCreate \/ F!Close \/ F!SaveEdit \/ F!SaveCreate PROVE FormsInv'
  BY <1>1, OpenEditKeeps, OpenCreateKeeps, CloseFormKeeps, SaveEditKeeps, SaveCreateKeeps
<1>2. ASSUME NEW k \in Text, NEW v \in Words \cup {""}, F!Type(k, v) PROVE FormsInv'
  BY <1>2, TypeKeeps
<1>3. ASSUME NEW i \in 1 .. 2, NEW v \in Rates \cup {Nil}, F!SetRate(i, v) PROVE FormsInv'
  BY <1>3, TypeKeeps
<1>4. ASSUME NEW n \in Alts, F!AddName(n) PROVE FormsInv'
  BY <1>4, NamesKeep
<1>5. ASSUME NEW i, F!RemoveName(i) PROVE FormsInv'
  BY <1>5, NamesKeep
<1>6. ASSUME NEW k \in Alloc, F!AddRow(k) PROVE FormsInv'
  BY <1>6, RowsKeep
<1>7. ASSUME NEW k \in Alloc, NEW i \in 1 .. MaxRows, F!RemoveRow(k, i) PROVE FormsInv'
  BY <1>7, RowsKeep
<1>8. ASSUME NEW k \in Alloc, NEW i \in 1 .. MaxRows, NEW n, NEW p \in Percents, F!SetRow(k, i, n, p) PROVE FormsInv'
  BY <1>8, RowsKeep
<1>9. ASSUME NEW w \in Who, NEW n, F!Choose(w, n) PROVE FormsInv'
  BY <1>9, ChooseKeeps
<1>10. ASSUME NEW w \in Who, NEW n, F!TypeName(w, n) PROVE FormsInv'
  BY <1>10, TypeNameKeeps
<1>11. ASSUME NEW w \in Who, NEW s \in Scores \cup {Nil}, F!TypeScore(w, s) PROVE FormsInv'
  BY <1>11, TypeScoreKeeps
<1>12. ASSUME NEW k \in Alloc,
              F!AddRow(k) \/ \E i \in 1 .. MaxRows :
                F!RemoveRow(k, i) \/ \E n \in Options \cup {form.f[k][j].name : j \in DOMAIN form.f[k]}, p \in Percents : F!SetRow(k, i, n, p)
       PROVE  FormsInv'
  BY <1>6, <1>7, <1>8, <1>12
<1>13. ASSUME NEW w \in Who,
              \/ \E n \in DOMAIN entity[w] \cup {""} : F!Choose(w, n)
              \/ \E n \in Names \cup {""} : F!TypeName(w, n)
              \/ \E s \in Scores \cup {Nil} : F!TypeScore(w, s)
       PROVE  FormsInv'
  BY <1>9, <1>10, <1>11, <1>13, Zenon
<1> QED BY <1>1, <1>2, <1>3, <1>4, <1>5, <1>12, <1>13, Zenon DEF F!User

LEMMA ServerKeeps == ASSUME FormsInv, F!Server PROVE FormsInv'
<1>1. ASSUME F!ManagedArrives \/ F!PatchEntry \/ (\E ok \in BOOLEAN : F!CreateEntry(ok)) \/ F!WriteFails PROVE FormsInv'
  BY <1>1, ManagedKeeps, PatchKeeps, CreateEntryKeeps, FailsKeep
<1>2. ASSUME NEW m \in F!Modes, NEW w \in Who, NEW ok \in BOOLEAN, F!ListsArrive(m, w, ok) PROVE FormsInv'
  BY <1>2, FormListsKeep DEF Side, F!Modes
<1>3. ASSUME NEW failed \in SUBSET Who, F!PostNames(failed) PROVE FormsInv'
  BY <1>3, PostKeeps
<1> QED BY <1>1, <1>2, <1>3 DEF F!Server

\* A step of either screen is a step of the forms or leaves them as they are.
LEMMA FormsStep == [ScreenNext]_<<screen, formVars, pageVars>> => F!Next \/ UNCHANGED F!vars
BY DEF ScreenNext, formVars, F!vars

LEMMA FormsInvariance == ScreenSpec => []FormsInv
<1>1. ScreenInit => FormsInv
  BY FormsInit DEF ScreenInit
<1>2. FormsInv /\ UNCHANGED F!vars => FormsInv'
  <2> SUFFICES ASSUME FormsInv, UNCHANGED F!vars PROVE FormsInv'
    OBVIOUS
  <2>1. UNCHANGED <<row, born, entity, known, pending, locking, mode, form, call, writes>>
    BY DEF F!vars
  <2>2. FormsTypes' /\ FormRowsInv' /\ ChosenInv'
    BY <2>1 DEF FormsInv, FormsTypes, FormRowsInv, ChosenInv
  <2> QED BY <2>1, <2>2, SaveKept DEF FormsInv
<1>3. FormsInv /\ [ScreenNext]_<<screen, formVars, pageVars>> => FormsInv'
  BY <1>2, FormsStep, UserKeeps, ServerKeeps DEF F!Next
<1> QED BY <1>1, <1>3, PTL DEF ScreenSpec

-----------------------------------------------------------------------------
(* What the forms promise.                                                   *)

LEMMA UpTo == ASSUME NEW n \in Nat PROVE IsFiniteSet(1 .. n) /\ Cardinality(1 .. n) = n
BY FS_Interval

LEMMA SameSize == ASSUME NEW S PROVE F!Cardinality(S) = Cardinality(S)
BY DEF F!Cardinality, Cardinality

\* An allocation without a name twice has as many names as rows.
LEMMA Distinct ==
  ASSUME NEW s, F!IsAllocation(s), ~F!Repeats(s) PROVE Cardinality(NamesOf(s)) = Len(s)
<1> DEFINE S == 1 .. Len(s)
           T == NamesOf(s)
           f == [i \in S |-> s[i].name]
<1>1. Len(s) \in Nat /\ DOMAIN s = S
  BY DEF F!IsAllocation
<1>2. f \in [S -> T] /\ (\A t \in T : \E i \in S : f[i] = t) /\ (\A i, j \in S : f[i] = f[j] => i = j)
  <2>1. T = {s[i].name : i \in S} /\ \A i \in S : f[i] = s[i].name
    BY <1>1 DEF NamesOf
  <2>2. \A i, j \in S : s[i].name = s[j].name => i = j
    BY <1>1 DEF F!Repeats
  <2>3. f \in [S -> T]
    BY <2>1
  <2> HIDE DEF S, T, f
  <2> QED BY <2>1, <2>2, <2>3
<1>3. IsFiniteSet(S) /\ Cardinality(S) = Len(s)
  BY <1>1, UpTo
<1> HIDE DEF S, T, f
<1>4. f \in Surjection(S, T) /\ f \in Injection(S, T)
  BY <1>2 DEF Surjection, Injection, IsInjective
<1>5. Cardinality(T) = Cardinality(S)
  BY <1>3, <1>4, FS_Surjection
<1> QED BY <1>3, <1>5 DEF T

LEMMA EditAccepted ==
  ASSUME NEW c, IsSave(c), c.mode = "edit",
         \A k \in Alloc : ~F!Legacy(c.form.f[k]) /\ ~F!Repeats(row.f[k]),
         \A w \in Who : c.form.score[w] \in F!Grade \cup {Nil}
  PROVE  F!Accepted(c.body)
<1> PICK d : d = Delta(c.form, c.locked)
  OBVIOUS
<1>1. /\ d \subseteq F!Field \ c.locked /\ DOMAIN c.body.f = d
      /\ \A k \in d : c.body.f[k] = IF k = Rate THEN F!WriteRate(c.form.f[k]) ELSE c.form.f[k]
      /\ \A w \in Who : w \in d \/ c.form.score[w] # row.score[w] => w \in DOMAIN c.body.score
      /\ DOMAIN c.body.score \subseteq Who
      /\ \A w \in DOMAIN c.body.score : c.body.score[w] = c.form.score[w]
  BY EditBody
<1>2. /\ \A k \in d : Filled(c.form, k)
      /\ \A w \in Who : ~Empty(c.form.f[w]) => c.form.score[w] # Nil
      /\ \A k \in Alloc : F!IsAllocation(c.form.f[k]) /\ ~F!Repeats(c.form.f[k])
  BY <1>1 DEF IsSave, IsEdit, IsSaved
<1>3. ASSUME NEW k \in Alloc, k \in d PROVE F!AllocAccepted(c.body.f[k])
  <2> PICK rows : rows = c.form.f[k]
    OBVIOUS
  <2>1. c.body.f[k] = rows
    BY <1>1, <1>3, Kinds
  <2>2. F!IsAllocation(rows) /\ ~F!Repeats(rows) /\ ~F!Legacy(rows) /\ ~F!Unbalanced(rows)
    BY <1>2, <1>3 DEF Filled
  <2>3. Cardinality(NamesOf(rows)) = Len(rows)
    BY <2>2, Distinct
  <2>4. NamesOf(rows) \subseteq Options
    BY <2>2 DEF F!Legacy, NamesOf
  <2>5. F!AllocAccepted(rows)
    <3>1. F!Cardinality(NamesOf(rows)) = Len(rows)
      BY <2>3, SameSize
    <3> QED BY <2>2, <2>4, <3>1, Zenon DEF F!AllocAccepted, NamesOf
  <2> QED BY <2>1, <2>5
<1>4. ASSUME "commission" \in d PROVE c.body.f["commission"] # ""
  <2>1. "commission" \in Text /\ "commission" # Rate
    BY Kinds
  <2>2. c.body.f["commission"] = c.form.f["commission"] /\ ~Empty(c.form.f["commission"])
    BY <1>1, <1>2, <1>4, <2>1 DEF Filled
  <2> QED BY <2>2 DEF Empty
<1>5. ASSUME NEW w \in Who, w \in d PROVE w \in DOMAIN c.body.score /\ c.body.score[w] # Nil
  <2>1. ~Empty(c.form.f[w])
    BY <1>2, <1>5 DEF Filled
  <2> QED BY <1>1, <1>2, <1>5, <2>1
<1>6. F!ScoresAccepted(c.body)
  BY <1>1 DEF F!ScoresAccepted
<1> QED BY <1>1, <1>3, <1>4, <1>5, <1>6 DEF F!Accepted

\* A delta that the form lets through is one that the validators of the server
\* accept, scores with decimals and names that stood in the product apart, and
\* a name that was chosen carries the score its list fixes unless a list came
\* after it, in whatever order the two lists arrive and the administrator
\* types.
THEOREM FormSound == ScreenSpec => []FormIsSound
<1>1. FormsInv => F!AcceptedByServer
  BY EditAccepted DEF FormsInv, SaveInv, F!AcceptedByServer
<1>2. FormsInv => F!ChosenScore
  <2> SUFFICES ASSUME FormsInv, mode # Nil, NEW w \in Who \ form.reset, F!Chosen(w) PROVE F!HasListScore(w)
    BY DEF F!ChosenScore
  <2>1. /\ w \notin form.draft /\ ~Empty(form.f[w]) /\ (mode = "edit" => form.f[w] # row.f[w])
        /\ F!Fixed(known[mode][w], form.f[w])
    BY DEF F!Chosen, Empty
  <2> QED BY <2>1 DEF FormsInv, ChosenInv, F!HasListScore
<1> QED BY <1>1, <1>2, FormsInvariance, PTL DEF FormIsSound, F!FormIsSound

\* What the Excel owns of a product with a code outlives every save.
THEOREM ExcelOwned == ScreenSpec => ExcelKept
<1>1. ASSUME FormsInv, [ScreenNext]_<<screen, formVars, pageVars>>, call # Nil, call.locked # {}, NEW k \in Excel
      PROVE  row'.f[k] = row.f[k]
  <2>1. CASE F!PatchEntry
    <3>1. call.mode = "edit" /\ F!Accepted(call.body) /\ row' = F!Updated(row, call.body)
      BY <2>1 DEF F!PatchEntry, F!Served
    <3>2. IsSave(call) /\ F!IsProduct(row) /\ k \in call.locked
      BY <1>1, <3>1 DEF FormsInv, FormsTypes, SaveInv, IsSave, IsEdit
    <3> QED BY <3>1, <3>2, PatchWritten
  <2>2. CASE ~F!PatchEntry
    <3>1. row' = row
      BY <1>1, <2>2, FormsStep, RowUntouched
    <3> QED BY <3>1
  <2> QED BY <2>1, <2>2
<1>2. FormsInv /\ [ScreenNext]_<<screen, formVars, pageVars>>
        => [(call # Nil /\ call.locked # {}) => \A k \in Excel : row'.f[k] = row.f[k]]_F!vars
  BY <1>1
<1> QED BY <1>2, FormsInvariance, PTL DEF ScreenSpec, ExcelKept, F!ExcelKept

LEMMA RateReread ==
  ASSUME NEW r \in Pair, r[1] # Nil, ~F!Unread(r)
  PROVE  F!ParseRate(F!WriteRate(r)) = r
<1>1. PICK p \in Figure, q \in Figure : r = <<p, q>>
  BY DEF Pair
<1>2. p \in Readable /\ r[1] = p /\ r[2] = q /\ (q # Nil => q \in Readable)
  BY <1>1 DEF Figure, F!Unread
<1>3. CASE q = Nil
  <2> PICK raw : raw = <<p>>
    OBVIOUS
  <2>1. F!WriteRate(r) = raw
    BY <1>2, <1>3 DEF F!WriteRate
  <2>2. raw # Nil /\ raw # <<>> /\ Len(raw) = 1 /\ raw[1] = p /\ \A i \in DOMAIN raw : raw[i] \in Readable
    <3>1. raw \in Seq(Rates)
      BY <1>2, Kinds
    <3>2. raw # Nil
      BY <3>1, Kinds
    <3>3. raw # <<>> /\ Len(raw) = 1 /\ raw[1] = p /\ \A i \in DOMAIN raw : raw[i] \in Readable
      BY <1>2
    <3> QED BY <3>2, <3>3
  <2>3. F!ParseRate(raw) = <<p, Nil>>
    BY <2>2 DEF F!ParseRate
  <2> QED BY <1>1, <1>3, <2>1, <2>3
<1>4. CASE q # Nil
  <2> PICK raw : raw = <<p, q>>
    OBVIOUS
  <2>1. F!WriteRate(r) = raw /\ raw = r
    BY <1>1, <1>2, <1>4, Kinds DEF F!WriteRate
  <2>2. raw # Nil /\ raw # <<>> /\ Len(raw) = 2 /\ raw[1] = p /\ raw[2] = q /\ \A i \in DOMAIN raw : raw[i] \in Readable
    <3>1. raw \in Seq(Rates)
      BY <1>2, <1>4, Kinds
    <3>2. raw # Nil
      BY <3>1, Kinds
    <3>3. raw # <<>> /\ Len(raw) = 2 /\ raw[1] = p /\ raw[2] = q /\ \A i \in DOMAIN raw : raw[i] \in Readable
      BY <1>2, <1>4
    <3> QED BY <3>2, <3>3
  <2>3. F!ParseRate(raw) = <<p, q>>
    BY <2>2 DEF F!ParseRate
  <2> QED BY <1>1, <2>1, <2>3
<1> QED BY <1>3, <1>4

LEMMA ShownAgain ==
  ASSUME NEW q, q.f = [k \in F!Field |-> q.f[k]]
  PROVE  F!Shown(q) = [k \in F!Field |-> IF k = Rate THEN F!ParseRate(q.f[k]) ELSE q.f[k]]
BY Kinds DEF F!Shown, Rate

LEMMA Reopened == ASSUME IsSave(call), NEW q, WrittenAs(call, q) PROVE F!ShowsWhatWasSaved(q)
<1> PICK c : c = call
  OBVIOUS
<1>1. /\ F!Shown(q) = [k \in F!Field |-> IF k = Rate THEN F!ParseRate(q.f[k]) ELSE q.f[k]]
      /\ \A k \in F!Field \ c.locked : k # Rate => q.f[k] = c.form.f[k]
      /\ Rate \notin c.locked => q.f[Rate] = F!WriteRate(c.form.f[Rate]) \/ F!ParseRate(q.f[Rate]) = c.form.f[Rate]
      /\ \A w \in Who : c.form.score[w] # Nil => q.score[w] = c.form.score[w]
  BY ShownAgain DEF WrittenAs
<1>2. c.form.f[Rate] \in Pair /\ (Rate \notin c.locked => c.form.f[Rate][1] # Nil)
  BY Kinds DEF IsSave, IsSaved, Filled
<1>3. ASSUME Rate \notin c.locked
      PROVE  F!Shown(q)[Rate] = c.form.f[Rate] \/ F!Unread(c.form.f[Rate])
  <2> PICK r : r = c.form.f[Rate]
    OBVIOUS
  <2>1. F!Shown(q)[Rate] = F!ParseRate(q.f[Rate])
    BY <1>1, Kinds
  <2>2. r \in Pair /\ r[1] # Nil /\ (q.f[Rate] = F!WriteRate(r) \/ F!ParseRate(q.f[Rate]) = r)
    BY <1>1, <1>2, <1>3
  <2> QED BY <2>1, <2>2, RateReread
<1>4. ASSUME NEW k \in F!Field \ c.locked, k # Rate PROVE F!Shown(q)[k] = c.form.f[k]
  BY <1>1, <1>4
<1> QED BY <1>1, <1>3, <1>4 DEF F!ShowsWhatWasSaved, Rate

LEMMA NoAllocObservation ==
  ASSUME NEW k, NEW rows, rows # <<>>, ~F!Unbalanced(rows)
  PROVE  F!AllocObservations(k, rows) \subseteq {"not_in_list"}
<1>1. (IF rows = <<>> THEN {"empty"} ELSE IF F!Unbalanced(rows) THEN {"allocation_sum"} ELSE {}) = {}
  OBVIOUS
<1>2. {"not_in_list" : i \in {i \in DOMAIN rows : rows[i].name \notin Options}} \subseteq {"not_in_list"}
  OBVIOUS
<1> QED BY <1>1, <1>2, Zenon DEF F!AllocObservations

LEMMA NoNameObservation ==
  ASSUME NEW w, NEW n, ~Empty(n), NEW s, s # Nil
  PROVE  F!NameObservations(w, n, s) \subseteq {"not_in_list"}
<1>1. n # ""
  BY DEF Empty
<1> QED BY <1>1, Zenon DEF F!NameObservations

LEMMA Completed == ASSUME IsSave(call), NEW q, WrittenAs(call, q) PROVE F!Prevented(q)
<1> PICK c : c = call
  OBVIOUS
<1>1. /\ \A k \in F!Field \ c.locked : k # Rate => q.f[k] = c.form.f[k]
      /\ Rate \notin c.locked => q.f[Rate] = F!WriteRate(c.form.f[Rate]) \/ F!ParseRate(q.f[Rate]) = c.form.f[Rate]
      /\ \A w \in Who : c.form.score[w] # Nil => q.score[w] = c.form.score[w]
  BY DEF WrittenAs
<1>2. /\ \A k \in F!Field \ c.locked : Filled(c.form, k)
      /\ \A w \in Who : ~Empty(c.form.f[w]) => c.form.score[w] # Nil
      /\ c.form.f[Rate] \in Pair
  BY DEF IsSave, IsSaved
<1>3. ASSUME NEW k \in F!Field \ c.locked PROVE F!Observations(q, k) \subseteq {"not_in_list"}
  <2>1. CASE k \in Alloc
    <3>1. k \notin Text \cup Who /\ k # Rate
      BY <2>1, Kinds
    <3>2. q.f[k] # <<>> /\ ~F!Unbalanced(q.f[k])
      BY <1>1, <1>2, <2>1, <3>1 DEF Filled
    <3>3. F!AllocObservations(k, q.f[k]) \subseteq {"not_in_list"}
      BY <3>2, NoAllocObservation
    <3>4. F!Observations(q, k) = F!AllocObservations(k, q.f[k])
      BY <2>1, <3>1 DEF F!Observations, Rate
    <3> QED BY <3>3, <3>4
  <2>2. CASE k \in Who
    <3>1. k \notin Text \cup Alloc /\ k # Rate
      BY <2>2, Kinds
    <3>2. ~Empty(q.f[k]) /\ q.score[k] # Nil
      BY <1>1, <1>2, <2>2, <3>1 DEF Filled
    <3>3. F!NameObservations(k, q.f[k], q.score[k]) \subseteq {"not_in_list"}
      BY <3>2, NoNameObservation
    <3>4. F!Observations(q, k) = F!NameObservations(k, q.f[k], q.score[k])
      BY <2>2, <3>1 DEF F!Observations, Rate
    <3> QED BY <3>3, <3>4
  <2>3. CASE k = Rate
    <3>1. k \notin Text \cup Alloc \cup Who
      BY <2>3, Kinds
    <3>2. q.f[k] # <<>>
      <4>1. c.form.f[k][1] # Nil /\ c.form.f[k] \in Pair
        BY <1>2, <2>3 DEF Filled
      <4>2. F!WriteRate(c.form.f[k]) # <<>>
        BY <4>1, RateWritten
      <4>3. F!ParseRate(<<>>)[1] = Nil
        BY DEF F!ParseRate
      <4> QED BY <1>1, <2>3, <4>1, <4>2, <4>3
    <3>3. F!Observations(q, k) = {}
      BY <2>3, <3>1, <3>2 DEF F!Observations, Rate
    <3> QED BY <3>3
  <2>4. CASE k \in Text
    <3>1. k \notin Alloc \cup Who /\ k # Rate
      BY <2>4, Kinds
    <3>2. ~Empty(q.f[k])
      BY <1>1, <1>2, <2>4, <3>1 DEF Filled
    <3>3. F!Observations(q, k) = {}
      BY <2>4, <3>1, <3>2 DEF F!Observations, Rate, Empty
    <3> QED BY <3>3
  <2>5. CASE k \notin Alloc \cup Who \cup Text \cup {Rate}
    <3>1. F!Observations(q, k) = {}
      BY <2>5 DEF F!Observations, Rate
    <3> QED BY <3>1
  <2> QED BY <2>1, <2>2, <2>3, <2>4, <2>5
<1> QED BY <1>3 DEF F!Prevented

LEMMA CreateWritten == ASSUME NEW c, IsSave(c), c.mode = "create", NEW q, q = Made(c.body) PROVE WrittenAs(c, q)
<1>1. q.f = c.body.f /\ q.score = c.body.score
  BY DEF Made
<1>2. /\ c.body.f = [k \in F!Field |-> IF k = Rate THEN F!WriteRate(c.form.f[k]) ELSE c.form.f[k]]
      /\ c.body.score = [w \in Who |-> c.form.score[w]]
  BY DEF IsSave, IsCreate, Body
<1> QED BY <1>1, <1>2, Kinds DEF WrittenAs

\* What a save makes of the product is what the form showed, when it is opened
\* again, and has nothing the form could have asked for: but for rates that are
\* not in digits, a score that was cleared and fields locked meanwhile.
THEOREM SavedShown == ScreenSpec => SavedIsShown
<1> DEFINE Good(q) == F!ShowsWhatWasSaved(q) /\ F!Prevented(q)
<1>1. ASSUME FormsInv, F!PatchEntry PROVE Good(row')
  <2>1. call # Nil /\ call.mode = "edit" /\ F!Accepted(call.body) /\ row' = F!Updated(row, call.body)
    BY <1>1 DEF F!PatchEntry, F!Served
  <2>2. IsSave(call) /\ F!IsProduct(row)
    BY <1>1, <2>1 DEF FormsInv, FormsTypes, SaveInv
  <2>3. WrittenAs(call, row')
    BY <2>1, <2>2, PatchWritten
  <2> QED BY <2>2, <2>3, Reopened, Completed
<1>2. ASSUME FormsInv, \E ok \in BOOLEAN : F!CreateEntry(ok) PROVE Good(F!Last(born'))
  <2>1. call # Nil /\ call.mode = "create" /\ born' = Grow(born, Made(call.body))
    BY <1>2 DEF F!CreateEntry, F!Served, Grow, Made
  <2>2. IsSave(call) /\ IsList(born)
    BY <1>2, <2>1 DEF FormsInv, FormsTypes, SaveInv
  <2>3. F!Last(born') = Made(call.body)
    <3>1. born'[Len(born')] = Made(call.body)
      BY <2>1, <2>2, Grown
    <3> QED BY <3>1 DEF F!Last
  <2>4. WrittenAs(call, Made(call.body))
    BY <2>1, <2>2, CreateWritten
  <2> QED BY <2>2, <2>3, <2>4, Reopened, Completed
<1>3. ASSUME FormsInv, [ScreenNext]_<<screen, formVars, pageVars>>
      PROVE  (row' # row => Good(row')) /\ (born' # born => Good(F!Last(born')))
  <2>1. (F!PatchEntry \/ row' = row) /\ ((\E ok \in BOOLEAN : F!CreateEntry(ok)) \/ born' = born)
    BY <1>3, FormsStep, RowUntouched
  <2> HIDE DEF Good
  <2> QED BY <1>1, <1>2, <1>3, <2>1
<1>4. FormsInv /\ [ScreenNext]_<<screen, formVars, pageVars>>
        => [(row' # row => F!ShowsWhatWasSaved(row')) /\ (born' # born => F!ShowsWhatWasSaved(F!Last(born')))]_F!vars
  BY <1>3
<1>5. FormsInv /\ [ScreenNext]_<<screen, formVars, pageVars>>
        => [(row' # row => F!Prevented(row')) /\ (born' # born => F!Prevented(F!Last(born')))]_F!vars
  BY <1>3
<1> QED BY <1>4, <1>5, FormsInvariance, PTL DEF ScreenSpec, SavedIsShown, F!SavedIsShown, F!ReopenShowsSaved, F!SavedIsComplete

-----------------------------------------------------------------------------
(* The page of the normalized catalog (NormalizedPage, through               *)
(* CatalogScreens): its inductive invariant.                                 *)

Paths     == {n \in Seq(P!Labels) : Len(n) > 0}
IsTree(f) == \A n \in DOMAIN f : n \in Paths /\ (Len(n) > 1 => P!Front(n) \in DOMAIN f)

\* A step names a row, a search or nothing, and may select a product.
AStep == [op : P!Reads \cup {"create", "edit", "delete"}, path : Seq(P!Labels \cup DOMAIN Terms),
          value : P!Held \cup {Nil}, then : P!Labels \cup {Nil, "keep"}]

IsCode(n) == n = <<n[1]>> /\ n[1] \in P!Labels

IsRead(s) ==
  /\ s.op \in P!Reads => s.then # Nil
  /\ s.op \in {"detail", "obs"} => s.then = "keep"
  /\ s.op = "detail" => IsCode(s.path)

\* The panes a step renews when it is answered, and those of a task that has
\* written what it writes.
Renews(s)  == {s.op} \cup (IF s.then # "keep" THEN {"detail"} ELSE {})
Left(x)    == UNION {Renews(x.steps[i]) : i \in 2 .. Len(x.steps)}
Telling(x) == IF x.steps[1].op \in P!Reads THEN Renews(x.steps[1]) \cup Left(x) ELSE {}
Told(ts)   == UNION {Telling(x) : x \in ts}

\* A write of one row, and the reads that follow it.
Deletes(s) == s.op = "delete" /\ s.then = Nil
IsWrite(x) ==
  LET s == x.steps[1] IN
  s.op \notin P!Reads =>
    /\ s.path \in Paths /\ (s.op # "delete" => s.value \in P!Held)
    /\ s.then = "keep" \/ (Deletes(s) /\ x.kind = "delete")
    /\ Len(s.path) = 1 => "list" \in Left(x)
    /\ "detail" \in Left(x) \/ Deletes(s) \/ Len(s.path) > 1
    /\ "obs" \in Left(x)

\* What a read brought.
IsAnswer(x) ==
  LET s == x.steps[1] IN
  x.got # Nil =>
    /\ s.op = "list" => x.got.rows \in P!Lists
    /\ s.op = "detail" => IsTree(x.got.rows) /\ \A n \in DOMAIN x.got.rows : n[1] = s.path[1]

\* The handlers: an effect reads what is on now; a save and a deletion end
\* with the observations.
IsKind(x) ==
  \/ x.kind = "list" /\ x.steps = <<P!ReadList(term)>>
  \/ x.kind = "detail" /\ code # Nil /\ x.steps = <<P!ReadDetail(code)>>
  \/ x.kind = "obs" /\ x.steps = <<P!ReadObs>>
  \/ x.kind \in {"save", "delete"} /\ x.steps[Len(x.steps)] = P!ReadObs

TaskKinds == {"list", "detail", "obs", "save", "delete"}
IsTask(x) ==
  /\ x \in [kind : TaskKinds, steps : Seq(AStep), got : {x.got}, own : BOOLEAN] /\ Len(x.steps) > 0
  /\ \A i \in 2 .. Len(x.steps) : x.steps[i].op \in P!Reads
  /\ \A i \in 1 .. Len(x.steps) : IsRead(x.steps[i])
  /\ IsKind(x) /\ IsWrite(x) /\ IsAnswer(x)

Handlers(ts)   == \A x \in ts : IsTask(x)
OneDeletes(ts) == \A x, y \in ts : x.kind = "delete" /\ y.kind = "delete" => x = y
Has(ts, k) == \E x \in ts : x.kind = k
Owned(ts)  == \E x \in ts : x.kind = "save" /\ x.own

Rooted(f) == f \in [DOMAIN f -> P!Held] /\ IsTree(f)

ServerTypes ==
  /\ Rooted(val) /\ spent \in [writes : 0 .. MaxSaves, faults : Nat]
  /\ term \in DOMAIN Terms /\ products \in P!Lists \cup {Nil} /\ loading \in BOOLEAN
  /\ clouded \subseteq P!Reads

\* A detail is a tree under its product.
PaneTypes ==
  /\ code \in P!Labels \cup {Nil}
  /\ IsTree(detail.rows) /\ \A n \in DOMAIN detail.rows : n[1] = detail.code
  /\ detail # P!NoDetail => detail.code \in P!Labels

FormTypes ==
  /\ modal \in [mode : {Nil, "edit", "create"}, path : Seq(P!Labels), busy : BOOLEAN]
  /\ IF modal.mode = Nil THEN modal = P!NoModal ELSE modal.path \in Paths
  /\ dialog # Nil => dialog \in Paths
  /\ deleting \in BOOLEAN

PageTypes == ServerTypes /\ PaneTypes /\ FormTypes /\ Handlers(tasks)

\* A deletion is one at a time, and what is asked for is of a product that is
\* selected.
DeletionInv ==
  /\ OneDeletes(tasks) /\ (Has(tasks, "delete") => deleting)
  /\ dialog # Nil /\ ~deleting => code # Nil

\* A pane that is not apart is right, or a task that has written will tell.
PanesInv ==
  /\ "list" \in clouded \cup Told(tasks) \/ products = P!ListOf(term)
  /\ "obs" \in clouded \cup Told(tasks) \/ observations = P!Issues
  /\ "detail" \in clouded \/ "detail" \in Told(tasks)
       \/ code = Nil \/ detailError \/ detail = P!DetailOf(code)

\* What waits has its task.
WaitInv ==
  /\ loading \/ (products = Nil /\ ~listError) => Has(tasks, "list")
  /\ modal.busy => Owned(tasks)
  /\ deleting => Has(tasks, "delete")
  /\ code # Nil /\ detail = P!NoDetail /\ ~detailError => Has(tasks, "detail")

NormalInv == PageTypes /\ DeletionInv /\ PanesInv /\ WaitInv
-----------------------------------------------------------------------------
(* Tasks.                                                                    *)

LEMMA PageConstants ==
  /\ {Nil, "keep"} \cap P!Labels = {} /\ Nil # "keep" /\ Nil # "edit" /\ Nil # "create"
  /\ Nil \notin P!Lists /\ "" \in DOMAIN Terms
  /\ Tree \in [DOMAIN Tree -> P!Held]
  /\ Unnamed \in P!Labels /\ Unnamed \in P!Held /\ Typeable \subseteq P!Held
  /\ Codes \subseteq P!Labels /\ Series \subseteq P!Labels /\ Admins \subseteq P!Labels
  /\ MaxSaves \in Nat
BY ScreensInstance DEF P!PageAssumption, P!Labels, P!Held

\* A task of which nothing is a form any more is the task it was.
Disown(x) == [x EXCEPT !.own = FALSE]

LEMMA DisownedTasks == ASSUME NEW ts PROVE P!Disowned(ts) = {Disown(x) : x \in ts}
BY DEF P!Disowned, Disown

LEMMA TaskDisowned ==
  ASSUME NEW x, IsTask(x) \/ IsTask(x)'
  PROVE  /\ IsTask(x) => IsTask(Disown(x))
         /\ IsTask(x)' => IsTask(Disown(x))'
         /\ Telling(Disown(x)) = Telling(x) /\ Disown(x).kind = x.kind
<1> DEFINE y == Disown(x)
<1>1. /\ y \in [kind : TaskKinds, steps : Seq(AStep), got : {y.got}, own : BOOLEAN]
      /\ y.kind = x.kind /\ y.steps = x.steps /\ y.got = x.got
  <2>1. x \in [kind : TaskKinds, steps : Seq(AStep), got : {x.got}, own : BOOLEAN]
    BY DEF IsTask
  <2> QED
    BY <2>1 DEF Disown
<1> HIDE DEF y
<1>2. Left(y) = Left(x) /\ Telling(y) = Telling(x)
  BY <1>1 DEF Left, Telling
<1>3. ASSUME IsTask(x) PROVE IsTask(y)
  <2>1. IsKind(y) /\ IsWrite(y) /\ IsAnswer(y)
    BY <1>1, <1>2, <1>3 DEF IsTask, IsKind, IsWrite, IsAnswer
  <2> QED
    BY <1>1, <1>3, <2>1 DEF IsTask
<1>4. ASSUME IsTask(x)' PROVE IsTask(y)'
  <2>1. IsKind(y)' /\ IsWrite(y)' /\ IsAnswer(y)'
    BY <1>1, <1>2, <1>4 DEF IsTask, IsKind, IsWrite, IsAnswer
  <2> QED
    BY <1>1, <1>4, <2>1 DEF IsTask
<1> QED
  BY <1>1, <1>2, <1>3, <1>4 DEF y

\* A set of handlers, or the same that have lost their forms.
LEMMA Carried ==
  ASSUME NEW ts, NEW us, Handlers(ts) \/ Handlers(ts)', us = ts \/ us = P!Disowned(ts)
  PROVE  /\ (Handlers(ts) => Handlers(us)) /\ (Handlers(ts)' => Handlers(us)')
         /\ Told(us) = Told(ts) /\ (OneDeletes(ts) => OneDeletes(us))
         /\ \A k : Has(us, k) <=> Has(ts, k)
<1>1. CASE us = ts
  BY <1>1
<1>2. CASE us = P!Disowned(ts)
  <2>1. us = {Disown(x) : x \in ts}
    BY <1>2, DisownedTasks
  <2>2. \A x \in ts : /\ IsTask(x) => IsTask(Disown(x))
                      /\ IsTask(x)' => IsTask(Disown(x))'
                      /\ Telling(Disown(x)) = Telling(x) /\ Disown(x).kind = x.kind
    BY TaskDisowned DEF Handlers
  <2>3. Handlers(ts) => Handlers(us)
    BY <2>1, <2>2 DEF Handlers
  <2>4. Handlers(ts)' => Handlers(us)'
    BY <2>1, <2>2 DEF Handlers
  <2>5. Told(us) = Told(ts)
    BY <2>1, <2>2 DEF Told
  <2>6. \A k : Has(us, k) <=> Has(ts, k)
    BY <2>1, <2>2 DEF Has
  <2>7. OneDeletes(ts) => OneDeletes(us)
    BY <2>1, <2>2 DEF OneDeletes
  <2> QED
    BY <2>3, <2>4, <2>5, <2>6, <2>7
<1> QED
  BY <1>1, <1>2

\* A task stays one as long as its search or its product is on.
LEMMA TaskStays ==
  ASSUME NEW x, IsTask(x),
         x.kind = "list" => term' = term, x.kind = "detail" => code' = code
  PROVE  IsTask(x)' /\ Telling(x)' = Telling(x)
<1>1. IsKind(x)'
  BY DEF IsTask, IsKind, P!ReadList, P!ReadDetail
<1>2. IsWrite(x)'
  BY DEF IsTask, IsWrite
<1> QED
  BY <1>1, <1>2 DEF IsTask
-----------------------------------------------------------------------------
(* A task goes on.                                                           *)

LEMMA FirstStep ==
  ASSUME NEW x, IsTask(x)
  PROVE  /\ Len(x.steps) \in Nat \ {0} /\ Head(x.steps) = x.steps[1]
         /\ \A i \in 1 .. Len(x.steps) : x.steps[i] \in AStep
BY DEF IsTask

LEMMA UndoneTold ==
  ASSUME NEW x, IsTask(x), Head(x.steps).op \in P!Reads PROVE Telling(x) \subseteq P!Undone(x)
<1>1. \A i \in 1 .. Len(x.steps) : x.steps[i] \in P!ToSet(x.steps) /\ x.steps[i].op \in P!Reads
  BY FirstStep DEF IsTask, P!ToSet
<1>2. \A i \in 1 .. Len(x.steps) : Renews(x.steps[i]) \subseteq P!Undone(x)
  BY <1>1 DEF Renews, P!Undone
<1> QED
  BY <1>2, FirstStep DEF Telling, Left

Advanced(x) == [x EXCEPT !.steps = Tail(@), !.got = Nil]

LEMMA LastTells ==
  ASSUME NEW x, IsTask(x), Len(x.steps) = 1
  PROVE  Left(x) = {} /\ (x.kind \in {"save", "delete"} => Head(x.steps).op = "obs")
<1>1. Left(x) = {}
  BY FirstStep DEF Left
<1> QED
  BY <1>1, FirstStep DEF IsTask, IsKind, P!ReadObs, P!Step

LEMMA AdvancedTask ==
  ASSUME NEW x, IsTask(x), Len(x.steps) # 1
  PROVE  /\ IsTask(Advanced(x)) /\ Telling(Advanced(x)) = Left(x)
         /\ Advanced(x).kind = x.kind /\ Advanced(x).own = x.own /\ x.kind \in {"save", "delete"}
<1> DEFINE y == Advanced(x)
<1>0. /\ x \in [kind : TaskKinds, steps : Seq(AStep), got : {x.got}, own : BOOLEAN]
      /\ Len(x.steps) \in Nat /\ Len(x.steps) > 1 /\ Tail(x.steps) \in Seq(AStep)
  <2>1. x \in [kind : TaskKinds, steps : Seq(AStep), got : {x.got}, own : BOOLEAN] /\ Len(x.steps) > 0
    BY DEF IsTask
  <2> DEFINE s == x.steps
  <2>2. s \in Seq(AStep) /\ Len(s) > 0 /\ Len(s) # 1
    BY <2>1
  <2> HIDE DEF s
  <2>3. Len(s) \in Nat
    BY <2>2
  <2>4. Len(s) > 1
    <3>1. \A n \in Nat : n > 0 /\ n # 1 => n > 1
      OBVIOUS
    <3> QED
      BY <2>2, <2>3, <3>1, Zenon
  <2>5. Tail(s) \in Seq(AStep)
    BY <2>2, <2>4
  <2> QED
    BY <2>1, <2>3, <2>4, <2>5 DEF s
<1>1. /\ y \in [kind : TaskKinds, steps : Seq(AStep), got : {y.got}, own : BOOLEAN]
      /\ y.kind = x.kind /\ y.steps = Tail(x.steps) /\ y.got = Nil /\ y.own = x.own
  BY <1>0 DEF Advanced
<1>2. x.steps \in Seq(AStep) /\ Len(x.steps) > 1
  BY <1>0
<1>3. /\ Len(y.steps) = Len(x.steps) - 1 /\ Len(y.steps) > 0 /\ Len(x.steps) \in Nat
      /\ \A i \in 1 .. Len(y.steps) : y.steps[i] = x.steps[i + 1]
  BY <1>1, <1>2
<1> HIDE DEF y
<1>4. x.kind \in {"save", "delete"}
  BY <1>2 DEF IsTask, IsKind, TaskKinds
<1>5. y.steps[Len(y.steps)] = x.steps[Len(x.steps)]
  BY <1>3
<1>6. IsKind(y)
  BY <1>1, <1>4, <1>5 DEF IsTask, IsKind
<1>7. y.steps[1].op \in P!Reads /\ y.steps[1] = x.steps[2]
  BY <1>2, <1>3 DEF IsTask
<1>8. IsWrite(y) /\ IsAnswer(y)
  BY <1>1, <1>7 DEF IsWrite, IsAnswer
<1>9. \A i \in 2 .. Len(y.steps) : y.steps[i].op \in P!Reads
  <2>1. \A i \in 2 .. Len(y.steps) : i + 1 \in 2 .. Len(x.steps) /\ i \in 1 .. Len(y.steps)
    BY <1>3
  <2> QED
    BY <1>3, <2>1 DEF IsTask
<1>10. \A i \in 1 .. Len(y.steps) : IsRead(y.steps[i])
  <2>1. \A i \in 1 .. Len(y.steps) : i + 1 \in 1 .. Len(x.steps)
    BY <1>3
  <2> QED
    BY <1>3, <2>1 DEF IsTask
<1>11. IsTask(y)
  BY <1>1, <1>3, <1>6, <1>8, <1>9, <1>10 DEF IsTask
<1>12. Telling(y) = Left(x)
  <2>1. \A i \in 2 .. Len(x.steps) : i - 1 \in 1 .. Len(y.steps) /\ y.steps[i - 1] = x.steps[i]
    BY <1>3
  <2>2. \A i \in 1 .. Len(y.steps) : i + 1 \in 2 .. Len(x.steps)
    BY <1>3
  <2>3. \A p : (\E i \in 1 .. Len(y.steps) : p \in Renews(y.steps[i])) <=> \E i \in 2 .. Len(x.steps) : p \in Renews(x.steps[i])
    BY <1>3, <2>1, <2>2
  <2>4. \A p : p \in Telling(y) <=> \E i \in 1 .. Len(y.steps) : p \in Renews(y.steps[i])
    <3>1. \A i \in 1 .. Len(y.steps) : i = 1 \/ i \in 2 .. Len(y.steps)
      BY <1>3
    <3>2. 1 \in 1 .. Len(y.steps) /\ \A i \in 2 .. Len(y.steps) : i \in 1 .. Len(y.steps)
      BY <1>2, <1>3
    <3> QED
      BY <1>7, <3>1, <3>2 DEF Telling, Left
  <2> QED
    BY <2>3, <2>4 DEF Left
<1> QED
  BY <1>1, <1>4, <1>11, <1>12 DEF y

\* What is left of the tasks when one of them goes on.
LEMMA RestOf ==
  ASSUME Handlers(tasks), NEW x \in tasks
  PROVE  /\ Handlers(P!Rest(x)) /\ (OneDeletes(tasks) => OneDeletes(P!Rest(x)))
         /\ Told(tasks \ {x}) \cup Left(x) \subseteq Told(P!Rest(x))
         /\ \A k : Has(P!Rest(x), k) => Has(tasks, k)
         /\ \A k : Has(tasks, k) => Has(P!Rest(x), k) \/ (P!Done(x) /\ x.kind = k)
         /\ OneDeletes(tasks) /\ P!Done(x) /\ x.kind = "delete" => ~Has(P!Rest(x), "delete")
         /\ Owned(tasks) => Owned(P!Rest(x)) \/ (P!Done(x) /\ x.kind = "save")
<1> DEFINE ts == tasks \ {x}
<1>1. IsTask(x) /\ Handlers(ts)
  BY DEF Handlers
<1>2. OneDeletes(tasks) => OneDeletes(ts) /\ (x.kind = "delete" => ~Has(ts, "delete"))
  BY DEF OneDeletes, Has
<1>3. \A k : (Has(ts, k) => Has(tasks, k)) /\ (Has(tasks, k) => Has(ts, k) \/ x.kind = k)
  BY DEF Has
<1>4. Owned(tasks) => Owned(ts) \/ (x.kind = "save" /\ x.own)
  BY DEF Owned
<1>5. CASE ~P!Done(x)
  <2> DEFINE y == Advanced(x)
  <2>1. P!Rest(x) = ts \cup {y}
    BY <1>5 DEF P!Rest, Advanced
  <2>2. IsTask(y) /\ Telling(y) = Left(x) /\ y.kind = x.kind /\ y.own = x.own
    BY <1>1, <1>5, AdvancedTask DEF P!Done
  <2> HIDE DEF y, ts
  <2>3. Handlers(P!Rest(x)) /\ Told(P!Rest(x)) = Told(ts) \cup Left(x)
    BY <1>1, <2>1, <2>2 DEF Handlers, Told
  <2>4. \A k : Has(P!Rest(x), k) <=> Has(ts, k) \/ x.kind = k
    BY <2>1, <2>2 DEF Has
  <2>5. OneDeletes(tasks) => OneDeletes(P!Rest(x))
    BY <1>2, <2>1, <2>2 DEF OneDeletes, Has
  <2>6. Owned(P!Rest(x)) <=> Owned(ts) \/ (x.kind = "save" /\ x.own)
    BY <2>1, <2>2 DEF Owned
  <2>7. \A k : x.kind = k => Has(tasks, k)
    BY DEF Has
  <2> QED
    BY <1>3, <1>4, <1>5, <2>3, <2>4, <2>5, <2>6, <2>7 DEF ts
<1>6. CASE P!Done(x)
  <2>1. P!Rest(x) = ts \/ P!Rest(x) = P!Disowned(ts)
    BY <1>6 DEF P!Rest
  <2>2. x.kind # "save" => P!Rest(x) = ts
    BY <1>6 DEF P!Rest
  <2>3. Left(x) = {}
    BY <1>1, <1>6, LastTells DEF P!Done
  <2> HIDE DEF ts
  <2>4. /\ Handlers(P!Rest(x)) /\ Told(P!Rest(x)) = Told(ts) /\ (OneDeletes(ts) => OneDeletes(P!Rest(x)))
        /\ \A k : Has(P!Rest(x), k) <=> Has(ts, k)
    BY <1>1, <2>1, Carried
  <2> QED
    BY <1>2, <1>3, <1>4, <1>6, <2>2, <2>3, <2>4 DEF ts
<1> QED
  BY <1>5, <1>6

\* What a step tells is all that is lost when it is done.
LEMMA ToldLeft ==
  ASSUME Handlers(tasks), NEW x \in tasks
  PROVE  Told(tasks) \subseteq Told(P!Rest(x)) \cup (IF Head(x.steps).op \in P!Reads THEN Renews(Head(x.steps)) ELSE {})
<1>1. Told(tasks) = Told(tasks \ {x}) \cup Telling(x)
  BY DEF Told
<1>2. Telling(x) \subseteq Left(x) \cup (IF Head(x.steps).op \in P!Reads THEN Renews(Head(x.steps)) ELSE {})
  BY FirstStep DEF Telling, Handlers
<1> QED
  BY <1>1, <1>2, RestOf
-----------------------------------------------------------------------------
(* The rows form trees.                                                      *)

LEMMA Single == ASSUME NEW S, NEW n \in Seq(S), Len(n) = 1 PROVE n = <<n[1]>> /\ n[1] \in S
<1>1. n[1] \in S /\ <<n[1]>> \in Seq(S) /\ Len(<<n[1]>>) = 1 /\ <<n[1]>>[1] = n[1]
  OBVIOUS
<1>2. n = [i \in 1 .. 1 |-> n[i]] /\ <<n[1]>> = [i \in 1 .. 1 |-> n[1]]
  BY <1>1
<1> QED
  BY <1>1, <1>2

LEMMA FrontOf ==
  ASSUME NEW n \in Paths, Len(n) > 1
  PROVE  P!Front(n) \in Paths /\ P!Front(n)[1] = n[1] /\ Len(P!Front(n)) = Len(n) - 1
<1>1. n \in Seq(P!Labels) /\ Len(n) \in Nat
  BY DEF Paths
<1>2. /\ SubSeq(n, 1, Len(n) - 1) \in Seq(P!Labels) /\ Len(SubSeq(n, 1, Len(n) - 1)) = Len(n) - 1
      /\ SubSeq(n, 1, Len(n) - 1)[1] = n[1]
  BY <1>1
<1> QED
  BY <1>1, <1>2 DEF P!Front, Paths

LEMMA UnderParent ==
  ASSUME NEW m \in Paths, NEW n \in Paths, Len(m) > 1, P!Under(n, P!Front(m)) PROVE P!Under(n, m)
<1>1. m \in Seq(P!Labels) /\ Len(m) \in Nat /\ n \in Seq(P!Labels) /\ Len(n) \in Nat
  BY DEF Paths
<1>2. P!Front(m) = SubSeq(m, 1, Len(m) - 1) /\ Len(P!Front(m)) = Len(m) - 1
  BY FrontOf DEF P!Front
<1>3. Len(n) <= Len(m) - 1 /\ SubSeq(n, 1, Len(n)) = SubSeq(P!Front(m), 1, Len(n))
  BY <1>2 DEF P!Under, P!IsPrefix
<1>4. SubSeq(SubSeq(m, 1, Len(m) - 1), 1, Len(n)) = SubSeq(m, 1, Len(n))
  BY <1>1, <1>3
<1> QED
  BY <1>1, <1>2, <1>3, <1>4 DEF P!Under, P!IsPrefix

LEMMA RootedAfter ==
  ASSUME Rooted(val), NEW op \in {"create", "edit", "delete"}, NEW n \in Paths, NEW v,
         op # "delete" => v \in P!Held, P!Accepts(op, n)
  PROVE  Rooted(P!After(op, n, v))
<1> DEFINE w == P!After(op, n, v)
<1>1. CASE op = "create"
  <2>1. w = [m \in DOMAIN val \cup {n} |-> IF m = n THEN v ELSE val[m]]
    BY <1>1 DEF P!After
  <2>2. w \in [DOMAIN w -> P!Held] /\ DOMAIN w = DOMAIN val \cup {n}
    BY <1>1, <2>1 DEF Rooted
  <2>3. Len(n) > 1 => P!Front(n) \in DOMAIN val
    <3>1. Len(n) \in Nat /\ \A k \in Nat : k > 1 => k # 1
      BY DEF Paths
    <3>2. Len(n) = 1 \/ P!Front(n) \in DOMAIN val
      BY <1>1, Zenon DEF P!Accepts, P!Level
    <3> QED
      BY <3>1, <3>2, Zenon
  <2> QED
    BY <2>2, <2>3 DEF Rooted, IsTree
<1>2. CASE op = "edit"
  <2>1. w = val \/ w = [val EXCEPT ![n] = v]
    BY <1>2 DEF P!After, P!Update
  <2>2. w \in [DOMAIN w -> P!Held] /\ DOMAIN w = DOMAIN val
    BY <1>2, <2>1 DEF Rooted
  <2> QED
    BY <2>2 DEF Rooted, IsTree
<1>3. CASE op = "delete"
  <2>1. w = [m \in {m \in DOMAIN val : ~P!Under(n, m)} |-> val[m]]
    BY <1>3 DEF P!After, P!Restrict
  <2>2. w \in [DOMAIN w -> P!Held] /\ DOMAIN w = {m \in DOMAIN val : ~P!Under(n, m)}
    BY <2>1 DEF Rooted
  <2>3. \A m \in DOMAIN w : m \in Paths /\ (Len(m) > 1 => P!Front(m) \in DOMAIN w)
    BY <2>2, UnderParent DEF Rooted, IsTree
  <2> QED
    BY <2>2, <2>3 DEF Rooted, IsTree
<1> QED
  BY <1>1, <1>2, <1>3

LEMMA ListIsList == ASSUME Rooted(val), NEW t PROVE P!ListOf(t) \in P!Lists
<1> DEFINE S == {n \in DOMAIN val : P!Level(n) = 1 /\ n[1] \in Terms[t]}
<1>1. P!ListOf(t) = [n \in S |-> val[n]]
  BY DEF P!ListOf, P!Restrict
<1>2. \A n \in S : n \in {<<c>> : c \in P!Labels}
  <2> TAKE n \in S
  <2>1. n \in Seq(P!Labels) /\ Len(n) = 1
    BY DEF Rooted, IsTree, Paths, P!Level
  <2>2. n = <<n[1]>> /\ n[1] \in P!Labels
    BY <2>1, Single
  <2> QED
    BY <2>2
<1>3. \A n \in S : val[n] \in P!Held
  BY DEF Rooted
<1> HIDE DEF S
<1>4. [n \in S |-> val[n]] \in [S -> P!Held]
  BY <1>3
<1> QED
  BY <1>1, <1>2, <1>4 DEF P!Lists

LEMMA DetailIsTree ==
  ASSUME Rooted(val), NEW c PROVE IsTree(P!DetailOf(c).rows) /\ \A n \in DOMAIN P!DetailOf(c).rows : n[1] = c
<1>1. DOMAIN P!DetailOf(c).rows = {n \in DOMAIN val : n[1] = c}
  BY DEF P!DetailOf, P!Restrict
<1> QED
  BY <1>1, FrontOf DEF IsTree, Rooted

\* What is written under a product leaves the list alone.
LEMMA ListAlone ==
  ASSUME Rooted(val), NEW op \in {"create", "edit", "delete"}, NEW n \in Paths, Len(n) # 1, NEW v, NEW t,
         val' = P!After(op, n, v), P!Accepts(op, n)
  PROVE  P!ListOf(t)' = P!ListOf(t)
<1> DEFINE S == {m \in DOMAIN val : P!Level(m) = 1 /\ m[1] \in Terms[t]}
           R == {m \in DOMAIN val' : P!Level(m) = 1 /\ m[1] \in Terms[t]}
<1>1. P!ListOf(t) = [m \in S |-> val[m]] /\ P!ListOf(t)' = [m \in R |-> val'[m]]
  BY DEF P!ListOf, P!Restrict
<1>2. S = R /\ \A m \in S : val'[m] = val[m]
  <2>1. CASE op = "create"
    BY <2>1 DEF P!After, P!Level
  <2>2. CASE op = "edit"
    BY <2>2 DEF P!After, P!Update, P!Level
  <2>3. CASE op = "delete"
    <3>1. \A m \in DOMAIN val : P!Level(m) = 1 => ~P!Under(n, m)
      BY DEF Rooted, IsTree, Paths, P!Level, P!Under, P!IsPrefix
    <3> QED
      BY <2>3, <3>1 DEF P!After, P!Restrict
  <2> QED
    BY <2>1, <2>2, <2>3
<1> QED
  BY <1>1, <1>2

\* A write under one product leaves the detail of the others alone.
LEMMA UnderFirst ==
  ASSUME NEW m \in Paths, NEW n \in Paths, P!Under(n, m) PROVE n[1] = m[1]
<1>1. m \in Seq(P!Labels) /\ Len(m) \in Nat /\ n \in Seq(P!Labels) /\ Len(n) \in Nat /\ Len(n) > 0
  BY DEF Paths
<1>2. Len(n) <= Len(m) /\ SubSeq(n, 1, Len(n)) = SubSeq(m, 1, Len(n))
  BY DEF P!Under, P!IsPrefix
<1>3. SubSeq(n, 1, Len(n))[1] = n[1] /\ SubSeq(m, 1, Len(n))[1] = m[1]
  BY <1>1, <1>2
<1> QED
  BY <1>2, <1>3

LEMMA DetailAlone ==
  ASSUME Rooted(val), NEW op \in {"create", "edit", "delete"}, NEW n \in Paths, NEW v, NEW c, n[1] # c,
         val' = P!After(op, n, v), P!Accepts(op, n)
  PROVE  P!DetailOf(c)' = P!DetailOf(c)
<1> DEFINE S == {m \in DOMAIN val : m[1] = c}
           R == {m \in DOMAIN val' : m[1] = c}
<1>1. /\ P!DetailOf(c) = [code |-> c, rows |-> [m \in S |-> val[m]]]
      /\ P!DetailOf(c)' = [code |-> c, rows |-> [m \in R |-> val'[m]]]
  BY DEF P!DetailOf, P!Restrict
<1>2. S = R /\ \A m \in S : val'[m] = val[m]
  <2>1. CASE op = "create"
    BY <2>1 DEF P!After
  <2>2. CASE op = "edit"
    BY <2>2 DEF P!After, P!Update
  <2>3. CASE op = "delete"
    <3>1. \A m \in DOMAIN val : m[1] = c => ~P!Under(n, m)
      BY UnderFirst DEF Rooted, IsTree
    <3> QED
      BY <2>3, <3>1 DEF P!After, P!Restrict
  <2> QED
    BY <2>1, <2>2, <2>3
<1> QED
  BY <1>1, <1>2

LEMMA DetailLeft ==
  ASSUME NEW x, IsTask(x), x.steps[1].op \notin P!Reads, "detail" \notin Left(x)
  PROVE  \A y \in P!ToSet(x.steps) : y.op # "detail"
<1> SUFFICES ASSUME NEW i \in DOMAIN x.steps PROVE x.steps[i].op # "detail"
  BY DEF P!ToSet
<1>1. i = 1 \/ i \in 2 .. Len(x.steps)
  BY FirstStep
<1>2. CASE i = 1
  BY <1>2 DEF P!Reads
<1>3. CASE i \in 2 .. Len(x.steps)
  BY <1>3 DEF Left, Renews
<1> QED
  BY <1>1, <1>2, <1>3
-----------------------------------------------------------------------------
(* The pane.                                                                 *)

\* The effect that loads the selected product, and the one of the search.
LEMMA LoadTask ==
  ASSUME NEW c \in P!Labels, code' = c
  PROVE  IsTask(P!LoadDetail(c))' /\ Telling(P!LoadDetail(c)) = {"detail"} /\ P!LoadDetail(c).kind = "detail"
<1> DEFINE x == P!LoadDetail(c)
<1>1. x = [kind |-> "detail", steps |-> <<P!ReadDetail(c)>>, got |-> Nil, own |-> TRUE]
  BY DEF P!LoadDetail, P!Task
<1>2. P!ReadDetail(c) = [op |-> "detail", path |-> <<c>>, value |-> Nil, then |-> "keep"]
  BY DEF P!ReadDetail, P!Step
<1>3. P!ReadDetail(c) \in AStep
  BY <1>2 DEF AStep, P!Reads
<1>4. /\ x.kind = "detail" /\ x.steps = <<P!ReadDetail(c)>> /\ x.got = Nil /\ Len(x.steps) = 1 /\ x.steps[1] = P!ReadDetail(c)
      /\ x \in [kind : TaskKinds, steps : Seq(AStep), got : {x.got}, own : BOOLEAN]
  BY <1>1, <1>3 DEF TaskKinds
<1> HIDE DEF x
<1>5. IsCode(<<c>>) /\ c # Nil
  BY PageConstants DEF IsCode
<1>6. IsKind(x)'
  BY <1>4, <1>5 DEF IsKind
<1>7. IsWrite(x)' /\ IsAnswer(x)'
  BY <1>2, <1>4 DEF IsWrite, IsAnswer, P!Reads
<1>8. IsTask(x)'
  <2>1. "keep" # Nil
    BY PageConstants
  <2>2. IsRead(P!ReadDetail(c))
    BY <1>2, <1>5, <2>1 DEF IsRead
  <2> QED
    BY <1>4, <1>6, <1>7, <2>2 DEF IsTask
<1>9. Telling(x) = {"detail"}
  BY <1>2, <1>4 DEF Telling, Left, Renews, P!Reads
<1> QED
  BY <1>4, <1>8, <1>9 DEF x

LEMMA SearchTask ==
  ASSUME NEW t \in DOMAIN Terms, term' = t
  PROVE  IsTask(P!LoadList(t))' /\ Telling(P!LoadList(t)) = {"list"} /\ P!LoadList(t).kind = "list"
<1> DEFINE x == P!LoadList(t)
<1>1. x = [kind |-> "list", steps |-> <<P!ReadList(t)>>, got |-> Nil, own |-> TRUE]
  BY DEF P!LoadList, P!Task
<1>2. P!ReadList(t) = [op |-> "list", path |-> <<t>>, value |-> Nil, then |-> "keep"]
  BY DEF P!ReadList, P!Step
<1>3. P!ReadList(t) \in AStep
  BY <1>2 DEF AStep, P!Reads
<1>4. /\ x.kind = "list" /\ x.steps = <<P!ReadList(t)>> /\ x.got = Nil /\ Len(x.steps) = 1 /\ x.steps[1] = P!ReadList(t)
      /\ x \in [kind : TaskKinds, steps : Seq(AStep), got : {x.got}, own : BOOLEAN]
  BY <1>1, <1>3 DEF TaskKinds
<1> HIDE DEF x
<1>5. IsKind(x)'
  BY <1>4 DEF IsKind
<1>6. IsWrite(x)' /\ IsAnswer(x)'
  BY <1>2, <1>4 DEF IsWrite, IsAnswer, P!Reads
<1>7. IsTask(x)'
  <2>1. "keep" # Nil
    BY PageConstants
  <2>2. IsRead(P!ReadList(t))
    BY <1>2, <2>1 DEF IsRead
  <2> QED
    BY <1>4, <1>5, <1>6, <2>2 DEF IsTask
<1>8. Telling(x) = {"list"}
  BY <1>2, <1>4 DEF Telling, Left, Renews, P!Reads
<1> QED
  BY <1>4, <1>7, <1>8 DEF x

\* A form that is unmounted waits no more.
LEMMA Unmounted ==
  ASSUME FormTypes, NEW ts, P!Unmounts(ts), UNCHANGED <<dialog, deleting>>
  PROVE  /\ FormTypes' /\ (tasks' = ts \/ tasks' = P!Disowned(ts))
         /\ modal'.busy => modal.busy /\ tasks' = ts
<1>1. CASE detail' = P!NoDetail /\ P!Level(modal.path) > 1
  <2>1. modal' = [modal EXCEPT !.busy = FALSE] /\ tasks' = P!Disowned(ts)
    BY <1>1 DEF P!Unmounts
  <2>2. modal.mode # Nil
    BY <1>1 DEF FormTypes, P!NoModal, P!Level
  <2>3. /\ modal' \in [mode : {Nil, "edit", "create"}, path : Seq(P!Labels), busy : BOOLEAN]
        /\ modal'.mode = modal.mode /\ modal'.path = modal.path /\ ~modal'.busy
    BY <2>1 DEF FormTypes
  <2> QED
    BY <2>1, <2>2, <2>3 DEF FormTypes
<1>2. CASE ~(detail' = P!NoDetail /\ P!Level(modal.path) > 1)
  BY <1>2 DEF P!Unmounts, FormTypes
<1> QED
  BY <1>1, <1>2

\* A product is selected, or none: its detail is under way.
LEMMA Selected ==
  ASSUME PaneTypes, FormTypes, NEW ts, Handlers(ts), NEW s \in P!Labels \cup {Nil, "keep"}, P!Selects(s, ts),
         UNCHANGED <<term, dialog, deleting>>
  PROVE  /\ PaneTypes' /\ FormTypes' /\ Handlers(tasks)'
         /\ Told(ts) \subseteq Told(tasks') \cup {"detail"}
         /\ \/ UNCHANGED <<code, detail, detailError>> /\ Told(ts) = Told(tasks')
            \/ code' = Nil \/ "detail" \in Told(tasks')
         /\ code' = (IF s = "keep" THEN code ELSE s)
         /\ OneDeletes(ts) => OneDeletes(tasks')
         /\ \A k : k # "detail" => (Has(tasks', k) <=> Has(ts, k))
         /\ modal'.busy => modal.busy /\ (Owned(ts) => Owned(tasks'))
         /\ (code # Nil /\ detail = P!NoDetail /\ ~detailError => Has(ts, "detail"))
              => (code' # Nil /\ detail' = P!NoDetail /\ ~detailError' => Has(tasks', "detail"))
<1>1. CASE s = "keep" \/ s = code
  <2>1. UNCHANGED <<code, detail, detailError, modal>> /\ tasks' = ts
    BY <1>1 DEF P!Selects, P!pane
  <2>2. Handlers(tasks)'
    BY <2>1, TaskStays DEF Handlers
  <2>3. PaneTypes' /\ FormTypes'
    BY <2>1 DEF PaneTypes, FormTypes
  <2> QED
    BY <1>1, <2>1, <2>2, <2>3, PageConstants
<1>2. CASE ~(s = "keep" \/ s = code)
  <2> DEFINE us == {x \in ts : x.kind # "detail"} \cup (IF s = Nil THEN {} ELSE {P!LoadDetail(s)})
  <2>1. /\ code' = s /\ detail' = (IF s = Nil THEN P!NoDetail ELSE detail)
        /\ detailError' = (IF s = Nil THEN detailError ELSE FALSE) /\ P!Unmounts(us)
    BY <1>2 DEF P!Selects
  <2>2. s \in P!Labels \cup {Nil}
    BY <1>2
  <2>3. s # Nil => IsTask(P!LoadDetail(s))' /\ Telling(P!LoadDetail(s)) = {"detail"} /\ P!LoadDetail(s).kind = "detail"
    BY <2>1, <2>2, LoadTask
  <2>4. Handlers(us)'
    BY <2>3, TaskStays DEF Handlers
  <2>5. Told(ts) \subseteq Told(us) \cup {"detail"} /\ (s # Nil => "detail" \in Told(us))
    <3>1. \A x \in ts : x.kind = "detail" => Telling(x) \subseteq {"detail"}
      <4> SUFFICES ASSUME NEW x \in ts, x.kind = "detail" PROVE Telling(x) \subseteq {"detail"}
        OBVIOUS
      <4>1. x.steps = <<P!ReadDetail(code)>>
        BY DEF Handlers, IsTask, IsKind
      <4>2. x.steps[1] = P!ReadDetail(code) /\ Len(x.steps) = 1
        BY <4>1
      <4>3. P!ReadDetail(code).op = "detail" /\ P!ReadDetail(code).then = "keep"
        BY DEF P!ReadDetail, P!Step
      <4> QED
        BY <4>2, <4>3 DEF Telling, Left, Renews
    <3> QED
      BY <2>3, <3>1 DEF Told
  <2>6. /\ OneDeletes(ts) => OneDeletes(us)
        /\ \A k : k # "detail" => (Has(us, k) <=> Has(ts, k))
        /\ s # Nil => Has(us, "detail")
        /\ Owned(ts) => Owned(us)
    BY <2>3 DEF OneDeletes, Has, Owned
  <2> HIDE DEF us
  <2>7. FormTypes' /\ (tasks' = us \/ tasks' = P!Disowned(us)) /\ (modal'.busy => modal.busy /\ tasks' = us)
    BY <2>1, Unmounted
  <2>8. /\ Handlers(tasks)' /\ Told(tasks') = Told(us) /\ (OneDeletes(us) => OneDeletes(tasks'))
        /\ \A k : Has(tasks', k) <=> Has(us, k)
    BY <2>4, <2>7, Carried
  <2>9. PaneTypes'
    BY <2>1, <2>2 DEF PaneTypes, P!NoDetail, IsTree
  <2> QED
    BY <1>2, <2>1, <2>5, <2>6, <2>7, <2>8, <2>9
<1> QED
  BY <1>1, <1>2
-----------------------------------------------------------------------------
(* A step fails.                                                             *)

LEMMA PanesKept ==
  ASSUME PanesInv, clouded \cup Told(tasks) \subseteq clouded' \cup Told(tasks'),
         UNCHANGED <<val, term, products, observations, code>>, UNCHANGED <<detail, detailError>> \/ detailError'
  PROVE  PanesInv'
<1>1. P!ListOf(term)' = P!ListOf(term) /\ P!Issues' = P!Issues /\ P!DetailOf(code)' = P!DetailOf(code)
  BY DEF P!ListOf, P!Issues, P!DetailOf
<1> QED
  BY <1>1 DEF PanesInv

LEMMA Released ==
  ASSUME FormTypes, modal' = [modal EXCEPT !.busy = FALSE]
  PROVE  /\ modal' \in [mode : {Nil, "edit", "create"}, path : Seq(P!Labels), busy : BOOLEAN] /\ ~modal'.busy
         /\ modal'.mode = modal.mode /\ modal'.path = modal.path /\ (modal = P!NoModal => modal' = P!NoModal)
<1>1. /\ modal' \in [mode : {Nil, "edit", "create"}, path : Seq(P!Labels), busy : BOOLEAN] /\ ~modal'.busy
      /\ modal'.mode = modal.mode /\ modal'.path = modal.path
  BY DEF FormTypes
<1>2. modal = P!NoModal => modal'.mode = Nil /\ modal'.path = <<>> /\ modal'.busy = FALSE
  BY <1>1 DEF P!NoModal
<1> QED
  BY <1>1, <1>2 DEF P!NoModal

LEMMA Failed ==
  ASSUME NormalInv, NEW x \in tasks, P!Fails(x)
  PROVE  /\ PaneTypes' /\ FormTypes' /\ Handlers(tasks)' /\ DeletionInv' /\ WaitInv'
         /\ UNCHANGED <<term, products, observations, code>> /\ loading' \in BOOLEAN
         /\ UNCHANGED <<detail, detailError>> \/ detailError'
         /\ Told(tasks) \subseteq Told(tasks') \cup Telling(x)
<1>0. PICK ts : ts = tasks \ {x}
  OBVIOUS
<1>1. /\ PaneTypes /\ FormTypes /\ Handlers(ts) /\ Handlers(tasks) /\ loading \in BOOLEAN
      /\ OneDeletes(tasks) /\ (Has(tasks, "delete") => deleting) /\ (dialog # Nil /\ ~deleting => code # Nil)
  BY <1>0 DEF NormalInv, PageTypes, ServerTypes, Handlers, DeletionInv
<1>2. /\ OneDeletes(ts) /\ (x.kind = "delete" => ~Has(ts, "delete"))
      /\ \A k : (Has(ts, k) => Has(tasks, k)) /\ (Has(tasks, k) => Has(ts, k) \/ x.kind = k)
      /\ Owned(tasks) => Owned(ts) \/ (x.kind = "save" /\ x.own)
      /\ Told(tasks) \subseteq Told(ts) \cup Telling(x)
  BY <1>0, <1>1 DEF OneDeletes, Has, Owned, Told
<1>3. /\ UNCHANGED <<term, code, observations, products>>
      /\ IF x.kind = "list" THEN listError' = TRUE /\ loading' = FALSE /\ UNCHANGED <<detail, detailError>>
         ELSE UNCHANGED <<listError, loading>>
              /\ IF x.kind = "detail" THEN detail' = P!NoDetail /\ detailError' = TRUE ELSE UNCHANGED <<detail, detailError>>
  BY DEF P!Fails, P!ShowsError
<1>4. IF x.kind = "delete" THEN dialog' = Nil /\ deleting' = FALSE ELSE UNCHANGED <<dialog, deleting>>
  BY DEF P!Fails
<1>5. /\ FormTypes' /\ (tasks' = ts \/ tasks' = P!Disowned(ts))
      /\ modal'.busy => modal.busy /\ tasks' = ts /\ ~(x.kind = "save" /\ x.own)
  <2>1. CASE x.kind = "save" /\ x.own
    <3>1. modal' = [modal EXCEPT !.busy = FALSE] /\ tasks' = ts
      BY <1>0, <2>1 DEF P!Fails
    <3>2. /\ modal' \in [mode : {Nil, "edit", "create"}, path : Seq(P!Labels), busy : BOOLEAN] /\ ~modal'.busy
          /\ modal'.mode = modal.mode /\ modal'.path = modal.path /\ (modal = P!NoModal => modal' = P!NoModal)
      BY <1>1, <3>1, Released
    <3> QED
      BY <1>1, <1>4, <2>1, <3>1, <3>2 DEF FormTypes
  <2>2. CASE ~(x.kind = "save" /\ x.own)
    <3>1. P!Unmounts(ts)
      BY <1>0, <2>2 DEF P!Fails
    <3>2. CASE UNCHANGED <<dialog, deleting>>
      BY <1>1, <2>2, <3>1, <3>2, Unmounted
    <3>3. CASE dialog' = Nil /\ deleting' = FALSE
      <4>1. CASE detail' = P!NoDetail /\ P!Level(modal.path) > 1
        <5>1. modal' = [modal EXCEPT !.busy = FALSE] /\ tasks' = P!Disowned(ts)
          BY <3>1, <4>1 DEF P!Unmounts
        <5>2. /\ modal' \in [mode : {Nil, "edit", "create"}, path : Seq(P!Labels), busy : BOOLEAN] /\ ~modal'.busy
              /\ modal'.mode = modal.mode /\ modal'.path = modal.path /\ (modal = P!NoModal => modal' = P!NoModal)
          BY <1>1, <5>1, Released
        <5> QED
          BY <1>1, <3>3, <5>1, <5>2 DEF FormTypes
      <4>2. CASE ~(detail' = P!NoDetail /\ P!Level(modal.path) > 1)
        BY <1>1, <2>2, <3>1, <3>3, <4>2 DEF P!Unmounts, FormTypes
      <4> QED
        BY <4>1, <4>2
    <3> QED
      BY <1>4, <3>2, <3>3
  <2> QED
    BY <2>1, <2>2
<1>6. Handlers(ts)'
  BY <1>1, <1>3, TaskStays DEF Handlers
<1>7. /\ Handlers(tasks)' /\ Told(tasks') = Told(ts) /\ OneDeletes(tasks') /\ \A k : Has(tasks', k) <=> Has(ts, k)
  BY <1>2, <1>5, <1>6, Carried
<1>8. PaneTypes'
  BY <1>1, <1>3 DEF PaneTypes, P!NoDetail, IsTree
<1>9. DeletionInv'
  BY <1>1, <1>2, <1>3, <1>4, <1>7 DEF DeletionInv
<1>10. WaitInv'
  <2>1. WaitInv
    BY DEF NormalInv
  <2>2. loading' \/ (products' = Nil /\ ~listError') => Has(tasks', "list")
    BY <1>2, <1>3, <1>7, <2>1 DEF WaitInv
  <2>3. modal'.busy => Owned(tasks')
    BY <1>2, <1>5, <2>1 DEF WaitInv
  <2>4. deleting' => Has(tasks', "delete")
    BY <1>2, <1>4, <1>7, <2>1 DEF WaitInv
  <2>5. code' # Nil /\ detail' = P!NoDetail /\ ~detailError' => Has(tasks', "detail")
    BY <1>2, <1>3, <1>7, <2>1 DEF WaitInv
  <2> QED
    BY <2>2, <2>3, <2>4, <2>5 DEF WaitInv
<1> QED
  BY <1>1, <1>2, <1>3, <1>5, <1>7, <1>8, <1>9, <1>10

LEMMA RefusedKeeps == ASSUME NormalInv, NEW x \in tasks, P!Refused(x) PROVE NormalInv'
<1>1. P!Fails(x) /\ UNCHANGED <<val, clouded, spent>> /\ Head(x.steps).op \notin P!Reads
  BY DEF P!Refused
<1>2. Telling(x) = {}
  BY <1>1, FirstStep DEF Telling, NormalInv, PageTypes, Handlers
<1>3. ServerTypes'
  BY <1>1, Failed DEF NormalInv, PageTypes, ServerTypes
<1>4. PanesInv'
  BY <1>1, <1>2, Failed, PanesKept DEF NormalInv
<1> QED
  BY <1>1, <1>3, <1>4, Failed DEF NormalInv, PageTypes

LEMMA NotFoundKeeps == ASSUME NormalInv, NEW x \in tasks, P!NotFound(x) PROVE NormalInv'
<1>1. P!Fails(x) /\ UNCHANGED <<val, spent>> /\ clouded' = clouded \cup P!Undone(x)
  BY DEF P!NotFound
<1>2. Telling(x) \subseteq P!Undone(x) /\ P!Undone(x) \subseteq P!Reads
  BY FirstStep, UndoneTold DEF Telling, NormalInv, PageTypes, Handlers, P!Undone, P!Reads
<1>3. ServerTypes'
  BY <1>1, <1>2, Failed DEF NormalInv, PageTypes, ServerTypes
<1>4. PanesInv'
  BY <1>1, <1>2, Failed, PanesKept DEF NormalInv
<1> QED
  BY <1>1, <1>3, <1>4, Failed DEF NormalInv, PageTypes

LEMMA LostKeeps == ASSUME NormalInv, NEW x \in tasks, P!Lost(x) PROVE NormalInv'
<1> DEFINE s == Head(x.steps)
<1>1. /\ P!Fails(x) /\ spent' = [spent EXCEPT !.faults = @ + 1]
      /\ clouded' = clouded \cup (IF s.op \in P!Reads THEN P!Undone(x) ELSE P!Reads)
      /\ val' = val \/ (s.op \notin P!Reads /\ P!Accepts(s.op, s.path) /\ val' = P!After(s.op, s.path, s.value))
  BY DEF P!Lost
<1>2. IsTask(x) /\ s = x.steps[1] /\ s \in AStep
  BY FirstStep DEF NormalInv, PageTypes, Handlers
<1>3. P!Undone(x) \subseteq P!Reads
  BY DEF P!Undone, P!Reads
<1>4. Rooted(val')
  <2>1. Rooted(val)
    BY DEF NormalInv, PageTypes, ServerTypes
  <2>2. s.op \notin P!Reads => s.op \in {"create", "edit", "delete"} /\ s.path \in Paths /\ (s.op # "delete" => s.value \in P!Held)
    BY <1>2 DEF IsTask, IsWrite, AStep
  <2> QED
    BY <1>1, <2>1, <2>2, RootedAfter
<1>5. ServerTypes'
  <2>1. spent' \in [writes : 0 .. MaxSaves, faults : Nat]
    BY <1>1 DEF NormalInv, PageTypes, ServerTypes
  <2> QED
    BY <1>1, <1>3, <1>4, <2>1, Failed DEF NormalInv, PageTypes, ServerTypes, Rooted
<1>6. PanesInv'
  <2>1. CASE s.op \in P!Reads
    BY <1>1, <1>2, <2>1, UndoneTold, Failed, PanesKept DEF NormalInv
  <2>2. CASE s.op \notin P!Reads
    BY <1>1, <2>2 DEF PanesInv, P!Reads
  <2> QED
    BY <2>1, <2>2
<1> QED
  BY <1>1, <1>5, <1>6, Failed DEF NormalInv, PageTypes
-----------------------------------------------------------------------------
(* The administrator clicks.                                                 *)

LEMMA Parts ==
  ASSUME NormalInv
  PROVE  /\ ServerTypes /\ PaneTypes /\ FormTypes /\ Handlers(tasks) /\ Rooted(val)
         /\ \A x \in tasks : IsTask(x) /\ Head(x.steps) = x.steps[1] /\ x.steps[1] \in AStep
         /\ DeletionInv /\ PanesInv /\ WaitInv
BY FirstStep DEF NormalInv, PageTypes, ServerTypes, Handlers

\* What changes only the forms.
LEMMA FormsChange ==
  ASSUME NormalInv, UNCHANGED <<val, P!master, P!pane, observations, clouded, spent, deleting>>, FormTypes',
         NEW ts, ts = tasks, tasks' = ts \/ (tasks' = P!Disowned(ts) /\ ~modal'.busy), modal'.busy => modal.busy,
         dialog' # Nil /\ ~deleting => code # Nil
  PROVE  NormalInv'
<1>1. UNCHANGED <<val, term, products, loading, listError, code, detail, detailError, observations, clouded, spent, deleting>>
  BY DEF P!master, P!pane
<1>2. Handlers(ts)'
  BY <1>1, Parts, TaskStays DEF Handlers
<1>3. /\ Handlers(tasks)' /\ Told(tasks') = Told(tasks) /\ (OneDeletes(tasks) => OneDeletes(tasks'))
      /\ \A k : Has(tasks', k) <=> Has(tasks, k)
  BY <1>2, Carried
<1>4. ServerTypes' /\ PaneTypes'
  BY <1>1, Parts DEF ServerTypes, PaneTypes, Rooted, IsTree
<1>5. DeletionInv'
  BY <1>1, <1>3, Parts DEF DeletionInv
<1>6. PanesInv'
  BY <1>1, <1>3, Parts, PanesKept
<1>7. WaitInv'
  BY <1>1, <1>3, Parts DEF WaitInv
<1> QED
  BY <1>3, <1>4, <1>5, <1>6, <1>7 DEF NormalInv, PageTypes

LEMMA OpensKeeps ==
  ASSUME NormalInv, NEW m \in {"edit", "create"}, NEW n \in Paths, P!Opens(m, n) PROVE NormalInv'
<1>1. /\ modal' = [mode |-> m, path |-> n, busy |-> FALSE]
      /\ UNCHANGED <<val, P!master, P!pane, observations, dialog, deleting, tasks, clouded, spent>>
  BY DEF P!Opens
<1>2. FormTypes'
  BY <1>1, Parts, PageConstants DEF FormTypes, Paths
<1>3. ~modal'.busy /\ (dialog' # Nil /\ ~deleting => code # Nil)
  BY <1>1, Parts DEF DeletionInv
<1> QED
  BY <1>1, <1>2, <1>3, FormsChange

LEMMA OpenNewKeeps == ASSUME NormalInv, P!OpenNewProduct PROVE NormalInv'
<1>1. <<Unnamed>> \in Seq(P!Labels) /\ Len(<<Unnamed>>) = 1
  <2>1. Unnamed \in P!Labels
    BY PageConstants
  <2> QED
    BY <2>1
<1>2. <<Unnamed>> \in Paths
  BY <1>1 DEF Paths
<1> QED
  BY <1>2, OpensKeeps DEF P!OpenNewProduct

LEMMA OpenEditPage == ASSUME NormalInv, NEW n, P!OpenEdit(n) PROVE NormalInv'
<1>1. n \in Paths
  BY Parts DEF PaneTypes, IsTree, P!OpenEdit
<1> QED
  BY <1>1, OpensKeeps DEF P!OpenEdit

LEMMA OpenAddKeeps == ASSUME NormalInv, NEW n, P!OpenAdd(n) PROVE NormalInv'
<1>1. n \in Paths
  BY Parts DEF PaneTypes, IsTree, P!OpenAdd
<1>2. Append(n, Unnamed) \in Paths
  <2>1. n \in Seq(P!Labels) /\ Len(n) \in Nat
    BY <1>1 DEF Paths
  <2>2. Unnamed \in P!Labels
    BY PageConstants
  <2>3. Append(n, Unnamed) \in Seq(P!Labels) /\ Len(Append(n, Unnamed)) = Len(n) + 1
    BY <2>1, <2>2
  <2> QED
    BY <2>1, <2>3 DEF Paths
<1> QED
  BY <1>2, OpensKeeps DEF P!OpenAdd

LEMMA CloseModalKeeps == ASSUME NormalInv, P!CloseModal PROVE NormalInv'
<1>1. /\ modal' = P!NoModal /\ tasks' = P!Disowned(tasks)
      /\ UNCHANGED <<val, P!master, P!pane, observations, dialog, deleting, clouded, spent>>
  BY DEF P!CloseModal
<1>2. FormTypes' /\ ~modal'.busy
  <2>1. <<>> \in Seq(P!Labels)
    OBVIOUS
  <2> QED
    BY <1>1, <2>1, Parts DEF FormTypes, P!NoModal
<1>3. dialog' # Nil /\ ~deleting => code # Nil
  BY <1>1, Parts DEF DeletionInv
<1>4. PICK ts : ts = tasks
  OBVIOUS
<1>5. tasks' = P!Disowned(ts)
  BY <1>1, <1>4
<1> QED
  BY <1>1, <1>2, <1>3, <1>4, <1>5, FormsChange

LEMMA OpenDeleteKeeps == ASSUME NormalInv, NEW n, P!OpenDelete(n) PROVE NormalInv'
<1>1. /\ n \in DOMAIN detail.rows /\ code # Nil /\ dialog' = n
      /\ UNCHANGED <<val, P!master, P!pane, observations, modal, deleting, tasks, clouded, spent>>
  BY DEF P!OpenDelete, P!Shown
<1>2. FormTypes'
  BY <1>1, Parts DEF FormTypes, PaneTypes, IsTree
<1> QED
  BY <1>1, <1>2, FormsChange

LEMMA CancelKeeps == ASSUME NormalInv, P!Cancel PROVE NormalInv'
<1>1. dialog' = Nil /\ UNCHANGED <<val, P!master, P!pane, observations, modal, deleting, tasks, clouded, spent>>
  BY DEF P!Cancel
<1>2. FormTypes'
  BY <1>1, Parts DEF FormTypes
<1> QED
  BY <1>1, <1>2, FormsChange

LEMMA SetTermKeeps == ASSUME NormalInv, NEW t \in DOMAIN Terms, P!SetTerm(t) PROVE NormalInv'
<1>1. /\ term' = t /\ loading' = TRUE /\ listError' = FALSE
      /\ tasks' = {x \in tasks : x.kind # "list"} \cup {P!LoadList(t)}
      /\ UNCHANGED <<val, products, code, detail, detailError, observations, modal, dialog, deleting, clouded, spent>>
  BY DEF P!SetTerm, P!pane, P!forms
<1>2. IsTask(P!LoadList(t))' /\ Telling(P!LoadList(t)) = {"list"} /\ P!LoadList(t).kind = "list"
  BY <1>1, SearchTask
<1>3. Handlers(tasks)'
  <2>1. \A x \in tasks : x.kind # "list" => IsTask(x)'
    BY <1>1, Parts, TaskStays
  <2> QED
    BY <1>1, <1>2, <2>1 DEF Handlers
<1>4. Told(tasks) \subseteq Told(tasks') /\ "list" \in Told(tasks')
  <2>1. \A x \in tasks : x.kind = "list" => Telling(x) \subseteq {"list"}
    <3> SUFFICES ASSUME NEW x \in tasks, x.kind = "list" PROVE Telling(x) \subseteq {"list"}
      OBVIOUS
    <3>1. x.steps = <<P!ReadList(term)>>
      BY Parts DEF IsTask, IsKind
    <3>2. x.steps[1] = P!ReadList(term) /\ Len(x.steps) = 1
      BY <3>1
    <3>3. P!ReadList(term).op = "list" /\ P!ReadList(term).then = "keep"
      BY DEF P!ReadList, P!Step
    <3> QED
      BY <3>2, <3>3 DEF Telling, Left, Renews
  <2> QED
    BY <1>1, <1>2, <2>1 DEF Told
<1>5. /\ OneDeletes(tasks) => OneDeletes(tasks')
      /\ \A k : k # "list" => (Has(tasks', k) <=> Has(tasks, k))
      /\ Has(tasks', "list") /\ (Owned(tasks) => Owned(tasks'))
  BY <1>1, <1>2 DEF OneDeletes, Has, Owned
<1>6. ServerTypes' /\ PaneTypes' /\ FormTypes'
  BY <1>1, Parts DEF ServerTypes, PaneTypes, FormTypes, Rooted, IsTree
<1>7. DeletionInv'
  BY <1>1, <1>5, Parts DEF DeletionInv
<1>8. PanesInv'
  <2>1. P!Issues' = P!Issues /\ P!DetailOf(code)' = P!DetailOf(code)
    BY <1>1 DEF P!Issues, P!DetailOf
  <2> QED
    BY <1>1, <1>4, <2>1, Parts DEF PanesInv
<1>9. WaitInv'
  BY <1>1, <1>5, Parts DEF WaitInv
<1> QED
  BY <1>3, <1>6, <1>7, <1>8, <1>9 DEF NormalInv, PageTypes

LEMMA PickKeeps == ASSUME NormalInv, NEW c, P!Select(c) PROVE NormalInv'
<1>1. /\ <<c>> \in DOMAIN products /\ P!Selects(c, tasks) /\ products # Nil
      /\ UNCHANGED <<val, term, products, loading, listError, observations, dialog, deleting, clouded, spent>>
  BY DEF P!Select, P!master
<1>2. c \in P!Labels
  <2>1. PICK S \in SUBSET {<<d>> : d \in P!Labels} : products \in [S -> P!Held]
    BY <1>1, Parts DEF ServerTypes, P!Lists
  <2>2. PICK d \in P!Labels : <<c>> = <<d>>
    BY <1>1, <2>1
  <2> QED
    BY <2>2
<1>3. PICK ts : ts = tasks
  OBVIOUS
<1>4. Handlers(ts) /\ P!Selects(c, ts)
  BY <1>1, <1>3, Parts
<1>5. /\ PaneTypes' /\ FormTypes' /\ Handlers(tasks)'
      /\ Told(ts) \subseteq Told(tasks') \cup {"detail"}
      /\ \/ UNCHANGED <<code, detail, detailError>> /\ Told(ts) = Told(tasks')
         \/ code' = Nil \/ "detail" \in Told(tasks')
      /\ code' = c
      /\ OneDeletes(ts) => OneDeletes(tasks')
      /\ \A k : k # "detail" => (Has(tasks', k) <=> Has(ts, k))
      /\ modal'.busy => modal.busy /\ (Owned(ts) => Owned(tasks'))
      /\ (code # Nil /\ detail = P!NoDetail /\ ~detailError => Has(ts, "detail"))
           => (code' # Nil /\ detail' = P!NoDetail /\ ~detailError' => Has(tasks', "detail"))
  BY <1>1, <1>2, <1>4, Selected, Parts, PageConstants
<1>6. ServerTypes'
  BY <1>1, Parts DEF ServerTypes, Rooted, IsTree
<1>7. DeletionInv'
  BY <1>1, <1>2, <1>3, <1>5, Parts, PageConstants DEF DeletionInv
<1>8. PanesInv'
  <2>1. P!ListOf(term)' = P!ListOf(term) /\ P!Issues' = P!Issues /\ (code' = code => P!DetailOf(code)' = P!DetailOf(code))
    BY <1>1 DEF P!ListOf, P!Issues, P!DetailOf
  <2> QED
    BY <1>1, <1>3, <1>5, <2>1, Parts DEF PanesInv
<1>9. WaitInv'
  BY <1>1, <1>3, <1>5, Parts DEF WaitInv
<1> QED
  BY <1>5, <1>6, <1>7, <1>8, <1>9 DEF NormalInv, PageTypes
-----------------------------------------------------------------------------
(* The server, and its answers.                                              *)

\* Which step ends a handler.
LEMMA EndOf ==
  ASSUME NEW x, IsTask(x), P!Done(x)
  PROVE  /\ x.kind = "list" <=> Head(x.steps).op = "list"
         /\ x.kind = "detail" <=> Head(x.steps).op = "detail"
         /\ Left(x) = {}
<1>1. Len(x.steps) = 1 /\ Head(x.steps) = x.steps[1] /\ Left(x) = {}
  BY FirstStep, LastTells DEF P!Done
<1>2. \/ x.kind = "list" /\ x.steps[1] = P!ReadList(term)
      \/ x.kind = "detail" /\ x.steps[1] = P!ReadDetail(code)
      \/ x.kind \in {"obs", "save", "delete"} /\ x.steps[1] = P!ReadObs
  BY <1>1 DEF IsTask, IsKind
<1>3. P!ReadList(term).op = "list" /\ P!ReadDetail(code).op = "detail" /\ P!ReadObs.op = "obs"
  BY DEF P!ReadList, P!ReadDetail, P!ReadObs, P!Step
<1> QED
  BY <1>1, <1>2, <1>3

LEMMA OneStep ==
  ASSUME NEW x, IsTask(x), x.kind \in {"list", "detail"} PROVE P!Done(x)
<1>1. x.steps = <<P!ReadList(term)>> \/ x.steps = <<P!ReadDetail(code)>>
  BY DEF IsTask, IsKind
<1>2. Len(x.steps) = 1
  <2>1. \A a : Len(<<a>>) = 1
    OBVIOUS
  <2> QED
    BY <1>1, <2>1, Zenon
<1> QED
  BY <1>2 DEF P!Done

\* A read is served.
LEMMA ServeKeeps == ASSUME NormalInv, NEW x \in tasks, P!Serve(x) PROVE NormalInv'
<1> DEFINE y == [x EXCEPT !.got = P!Result(Head(x.steps))]
<1>1. /\ Head(x.steps).op \in P!Reads /\ tasks' = (tasks \ {x}) \cup {y}
      /\ UNCHANGED <<val, term, products, loading, listError, code, detail, detailError, observations, modal, dialog,
                     deleting, clouded, spent>>
  BY DEF P!Serve, P!master, P!pane, P!forms
<1>2. IsTask(x) /\ Head(x.steps) = x.steps[1] /\ x.steps[1] \in AStep
  BY Parts
<1>3. /\ y \in [kind : TaskKinds, steps : Seq(AStep), got : {y.got}, own : BOOLEAN]
      /\ y.kind = x.kind /\ y.steps = x.steps /\ y.own = x.own /\ y.got = P!Result(x.steps[1])
  <2>1. x \in [kind : TaskKinds, steps : Seq(AStep), got : {x.got}, own : BOOLEAN]
    BY <1>2 DEF IsTask
  <2> QED
    BY <1>2, <2>1
<1> HIDE DEF y
<1>4. IsAnswer(y)
  <2>1. x.steps[1].op = "list" => y.got.rows \in P!Lists
    BY <1>3, ListIsList, Parts DEF P!Result, P!Answer
  <2>2. x.steps[1].op = "detail" => IsTree(y.got.rows) /\ \A n \in DOMAIN y.got.rows : n[1] = x.steps[1].path[1]
    BY <1>3, DetailIsTree, Parts DEF P!Result, P!Answer
  <2> QED
    BY <1>3, <2>1, <2>2 DEF IsAnswer
<1>5. IsTask(y) /\ Telling(y) = Telling(x)
  <2>1. Left(y) = Left(x) /\ Telling(y) = Telling(x)
    BY <1>3 DEF Left, Telling
  <2>2. IsKind(y) /\ IsWrite(y)
    BY <1>2, <1>3, <2>1 DEF IsTask, IsKind, IsWrite
  <2> QED
    BY <1>2, <1>3, <1>4, <2>1, <2>2 DEF IsTask
<1>6. Handlers(tasks)'
  <2>1. \A z \in tasks \cup {y} : IsTask(z)'
    BY <1>1, <1>5, Parts, TaskStays
  <2> QED
    BY <1>1, <2>1 DEF Handlers
<1>7. /\ Told(tasks') = Told(tasks) /\ (OneDeletes(tasks) => OneDeletes(tasks'))
      /\ (\A k : Has(tasks', k) <=> Has(tasks, k)) /\ (Owned(tasks) => Owned(tasks'))
  BY <1>1, <1>3, <1>5 DEF Told, OneDeletes, Has, Owned
<1>8. ServerTypes' /\ PaneTypes' /\ FormTypes'
  BY <1>1, Parts DEF ServerTypes, PaneTypes, FormTypes, Rooted, IsTree
<1>9. DeletionInv'
  BY <1>1, <1>7, Parts DEF DeletionInv
<1>10. PanesInv'
  BY <1>1, <1>7, Parts, PanesKept
<1>11. WaitInv'
  BY <1>1, <1>7, Parts DEF WaitInv
<1> QED
  BY <1>6, <1>8, <1>9, <1>10, <1>11 DEF NormalInv, PageTypes

\* A task that goes on and may select a product.
LEMMA GoesOn ==
  ASSUME NormalInv, NEW x \in tasks, P!Selects(Head(x.steps).then, P!Rest(x)),
         UNCHANGED <<term, dialog, deleting>>,
         P!Done(x) => x.kind = "list"
  PROVE  \E ts :
         /\ PaneTypes' /\ FormTypes' /\ Handlers(tasks)'
         /\ Told(tasks) \subseteq Told(ts) \cup (IF Head(x.steps).op \in P!Reads THEN Renews(Head(x.steps)) ELSE {})
         /\ Left(x) \subseteq Told(ts) /\ Told(ts) \subseteq Told(tasks') \cup {"detail"}
         /\ \/ UNCHANGED <<code, detail, detailError>> /\ Told(ts) = Told(tasks')
            \/ code' = Nil \/ "detail" \in Told(tasks')
         /\ code' = (IF Head(x.steps).then = "keep" THEN code ELSE Head(x.steps).then)
         /\ OneDeletes(tasks') /\ (Has(tasks', "delete") <=> Has(tasks, "delete"))
         /\ Has(tasks, "list") => Has(tasks', "list") \/ P!Done(x)
         /\ modal'.busy => modal.busy /\ Owned(tasks')
         /\ code' # Nil /\ detail' = P!NoDetail /\ ~detailError' => Has(tasks', "detail")
<1>1. PICK ts : ts = P!Rest(x)
  OBVIOUS
<1>2. IsTask(x) /\ Head(x.steps).then \in P!Labels \cup {Nil, "keep"}
  BY Parts DEF AStep
<1>3. Handlers(ts) /\ OneDeletes(ts) /\ Left(x) \subseteq Told(ts)
  BY <1>1, RestOf, Parts DEF DeletionInv
<1>4. /\ \A k : Has(ts, k) => Has(tasks, k)
      /\ \A k : Has(tasks, k) => Has(ts, k) \/ (P!Done(x) /\ x.kind = k)
      /\ Owned(tasks) => Owned(ts) \/ (P!Done(x) /\ x.kind = "save")
  BY <1>1, RestOf, Parts
<1>5. Told(tasks) \subseteq Told(ts) \cup (IF Head(x.steps).op \in P!Reads THEN Renews(Head(x.steps)) ELSE {})
  BY <1>1, ToldLeft, Parts
<1>6. P!Selects(Head(x.steps).then, ts)
  BY <1>1
<1>7. PICK s \in P!Labels \cup {Nil, "keep"} : s = Head(x.steps).then
  BY <1>2
<1>8. /\ PaneTypes' /\ FormTypes' /\ Handlers(tasks)'
      /\ Told(ts) \subseteq Told(tasks') \cup {"detail"}
      /\ \/ UNCHANGED <<code, detail, detailError>> /\ Told(ts) = Told(tasks')
         \/ code' = Nil \/ "detail" \in Told(tasks')
      /\ code' = (IF s = "keep" THEN code ELSE s)
      /\ OneDeletes(ts) => OneDeletes(tasks')
      /\ \A k : k # "detail" => (Has(tasks', k) <=> Has(ts, k))
      /\ modal'.busy => modal.busy /\ (Owned(ts) => Owned(tasks'))
      /\ (code # Nil /\ detail = P!NoDetail /\ ~detailError => Has(ts, "detail"))
           => (code' # Nil /\ detail' = P!NoDetail /\ ~detailError' => Has(tasks', "detail"))
  BY <1>3, <1>6, <1>7, Selected, Parts
<1>9. code # Nil /\ detail = P!NoDetail /\ ~detailError => Has(ts, "detail")
  BY <1>4, Parts DEF WaitInv
<1>10. modal'.busy => Owned(ts)
  BY <1>4, <1>8, Parts DEF WaitInv
<1> QED
  BY <1>3, <1>4, <1>5, <1>7, <1>8, <1>9, <1>10
LEMMA WrittenKeeps == ASSUME NormalInv, NEW x \in tasks, P!Written(x) PROVE NormalInv'
<1> DEFINE s == Head(x.steps)
<1>1. /\ s.op \notin P!Reads /\ P!Accepts(s.op, s.path) /\ val' = P!After(s.op, s.path, s.value)
      /\ P!Selects(s.then, P!Rest(x))
      /\ UNCHANGED <<term, products, loading, listError, observations, dialog, deleting, spent>>
      /\ clouded' = IF P!Unread(x) THEN clouded \cup {"detail"} ELSE clouded
  BY DEF P!Written, P!master
<1>2. IsTask(x) /\ s = x.steps[1] /\ s \in AStep
  BY Parts
<1>3. /\ s.op \in {"create", "edit", "delete"} /\ s.path \in Paths /\ (s.op # "delete" => s.value \in P!Held)
      /\ s.then = "keep" \/ (s.then = Nil /\ x.kind = "delete")
      /\ Len(s.path) = 1 => "list" \in Left(x)
      /\ "detail" \in Left(x) \/ s.then = Nil \/ Len(s.path) > 1
      /\ "obs" \in Left(x)
  BY <1>1, <1>2 DEF IsTask, IsWrite, AStep, Deletes
<1>4. ~P!Done(x)
  BY <1>2, <1>3, EndOf
<1>5. PICK ts :
         /\ PaneTypes' /\ FormTypes' /\ Handlers(tasks)'
         /\ Told(tasks) \subseteq Told(ts)
         /\ Left(x) \subseteq Told(ts) /\ Told(ts) \subseteq Told(tasks') \cup {"detail"}
         /\ \/ UNCHANGED <<code, detail, detailError>> /\ Told(ts) = Told(tasks')
            \/ code' = Nil \/ "detail" \in Told(tasks')
         /\ code' = (IF s.then = "keep" THEN code ELSE s.then)
         /\ OneDeletes(tasks') /\ (Has(tasks', "delete") <=> Has(tasks, "delete"))
         /\ Has(tasks, "list") => Has(tasks', "list") \/ P!Done(x)
         /\ modal'.busy => modal.busy /\ Owned(tasks')
         /\ code' # Nil /\ detail' = P!NoDetail /\ ~detailError' => Has(tasks', "detail")
  BY <1>1, <1>4, GoesOn
<1>6. ServerTypes'
  <2>1. Rooted(val)'
    BY <1>1, <1>3, RootedAfter, Parts DEF Rooted, IsTree
  <2>2. clouded' \subseteq P!Reads
    BY <1>1, Parts DEF ServerTypes, P!Reads
  <2> QED
    BY <1>1, <2>1, <2>2, Parts DEF ServerTypes
<1>7. DeletionInv'
  <2>1. x.kind = "delete" => deleting
    BY Parts DEF DeletionInv, Has
  <2> QED
    BY <1>1, <1>3, <1>5, <2>1, Parts DEF DeletionInv
<1>8. PanesInv'
  <2>1. Len(s.path) # 1 => P!ListOf(term)' = P!ListOf(term)
    <3>1. PICK t : t = term /\ t = term'
      BY <1>1
    <3>2. PICK o \in {"create", "edit", "delete"} : o = s.op
      BY <1>3
    <3>3. PICK n \in Paths : n = s.path
      BY <1>3
    <3>4. PICK v : v = s.value
      OBVIOUS
    <3>5. Len(s.path) # 1 => P!ListOf(t)' = P!ListOf(t)
      BY <1>1, <3>2, <3>3, <3>4, ListAlone, Parts
    <3>6. P!ListOf(t)' = P!ListOf(term)'
      BY <3>1 DEF P!ListOf
    <3> QED
      BY <3>1, <3>5, <3>6
  <2>2. "list" \in clouded' \cup Told(tasks') \/ products' = P!ListOf(term)'
    BY <1>1, <1>3, <1>5, <2>1, Parts DEF PanesInv
  <2>3. "obs" \in Told(tasks')
    BY <1>3, <1>5
  <2>4. \/ "detail" \in clouded' \/ "detail" \in Told(tasks')
        \/ code' = Nil \/ detailError' \/ detail' = P!DetailOf(code)'
    <3>1. CASE "detail" \in Left(x)
      BY <1>5, <3>1
    <3>2. CASE s.then = Nil
      <4>1. Nil # "keep"
        BY PageConstants
      <4> QED
        BY <1>5, <3>2, <4>1
    <3>3. CASE P!Unread(x)
      BY <1>1, <3>3
    <3>4. CASE "detail" \notin Left(x) /\ s.then # Nil /\ ~P!Unread(x)
      <4>1. \A y \in P!ToSet(x.steps) : y.op # "detail"
        BY <1>1, <1>2, <3>4, DetailLeft
      <4>2. s.path[1] # code
        BY <1>3, <3>4, <4>1, Zenon DEF P!Unread, P!Level
      <4>3. CASE code' = Nil \/ "detail" \in Told(tasks')
        BY <4>3
      <4>4. CASE UNCHANGED <<code, detail, detailError>> /\ Told(ts) = Told(tasks')
        <5>1. PICK c : c = code /\ c = code'
          BY <4>4
        <5>2. PICK o \in {"create", "edit", "delete"} : o = s.op
          BY <1>3
        <5>3. PICK n \in Paths : n = s.path
          BY <1>3
        <5>4. PICK v : v = s.value
          OBVIOUS
        <5>5. P!DetailOf(c)' = P!DetailOf(c)
          BY <1>1, <4>2, <5>1, <5>2, <5>3, <5>4, DetailAlone, Parts
        <5>6. P!DetailOf(c)' = P!DetailOf(code)'
          BY <5>1 DEF P!DetailOf
        <5>7. P!DetailOf(code)' = P!DetailOf(code)
          BY <5>1, <5>5, <5>6
        <5>8. clouded \subseteq clouded' /\ Told(tasks) \subseteq Told(tasks')
          BY <1>1, <1>5, <4>4
        <5> QED
          BY <4>4, <5>7, <5>8, Parts DEF PanesInv
      <4> QED
        BY <1>5, <4>3, <4>4
    <3> QED
      BY <3>1, <3>2, <3>3, <3>4
  <2> QED
    BY <2>2, <2>3, <2>4 DEF PanesInv
<1>9. WaitInv'
  BY <1>1, <1>4, <1>5, Parts DEF WaitInv, DeletionInv
<1> QED
  BY <1>5, <1>6, <1>7, <1>8, <1>9 DEF NormalInv, PageTypes

LEMMA ReceiveListKeeps == ASSUME NormalInv, NEW x \in tasks, P!ReceiveList(x) PROVE NormalInv'
<1> DEFINE s == Head(x.steps)
<1>1. /\ s.op = "list" /\ x.got # Nil /\ products' = x.got.rows /\ loading' = (loading /\ x.kind # "list")
      /\ P!Selects(s.then, P!Rest(x))
      /\ clouded' = (clouded \ {"list"}) \cup (IF x.got.rows = P!ListOf(term) THEN {} ELSE {"list"})
                      \cup (IF s.then = code THEN {"detail"} ELSE {})
      /\ UNCHANGED <<val, term, listError, observations, dialog, deleting, spent>>
  BY DEF P!ReceiveList
<1>2. IsTask(x) /\ s = x.steps[1]
  BY Parts
<1>3. x.got.rows \in P!Lists /\ x.got.rows # Nil
  BY <1>1, <1>2, PageConstants DEF IsTask, IsAnswer
<1>4. P!Done(x) <=> x.kind = "list"
  BY <1>1, <1>2, EndOf, OneStep
<1>5. s.op \in P!Reads /\ Renews(s) = {"list"} \cup (IF s.then # "keep" THEN {"detail"} ELSE {})
  BY <1>1 DEF P!Reads, Renews
<1>6. PICK ts :
         /\ PaneTypes' /\ FormTypes' /\ Handlers(tasks)'
         /\ Told(tasks) \subseteq Told(ts) \cup Renews(s)
         /\ Left(x) \subseteq Told(ts) /\ Told(ts) \subseteq Told(tasks') \cup {"detail"}
         /\ \/ UNCHANGED <<code, detail, detailError>> /\ Told(ts) = Told(tasks')
            \/ code' = Nil \/ "detail" \in Told(tasks')
         /\ code' = (IF s.then = "keep" THEN code ELSE s.then)
         /\ OneDeletes(tasks') /\ (Has(tasks', "delete") <=> Has(tasks, "delete"))
         /\ Has(tasks, "list") => Has(tasks', "list") \/ P!Done(x)
         /\ modal'.busy => modal.busy /\ Owned(tasks')
         /\ code' # Nil /\ detail' = P!NoDetail /\ ~detailError' => Has(tasks', "detail")
  BY <1>1, <1>4, <1>5, GoesOn
<1>7. ServerTypes'
  <2>1. clouded' \subseteq P!Reads
    BY <1>1, Parts DEF ServerTypes, P!Reads
  <2> QED
    BY <1>1, <1>3, <2>1, Parts DEF ServerTypes, Rooted, IsTree
<1>8. DeletionInv'
  <2>1. dialog' # Nil /\ ~deleting' => code' # Nil
    <3>1. s.then # Nil
      BY <1>2, <1>5, FirstStep DEF IsTask, IsRead
    <3> QED
      BY <1>1, <1>6, <3>1, Parts DEF DeletionInv
  <2> QED
    BY <1>1, <1>6, <2>1, Parts DEF DeletionInv
<1>9. PanesInv'
  <2>1. P!ListOf(term)' = P!ListOf(term) /\ P!Issues' = P!Issues /\ (code' = code => P!DetailOf(code)' = P!DetailOf(code))
    BY <1>1 DEF P!ListOf, P!Issues, P!DetailOf
  <2>2. "list" \in clouded' \/ products' = P!ListOf(term)'
    BY <1>1, <2>1
  <2>3. "obs" \in clouded' \cup Told(tasks') \/ observations' = P!Issues'
    BY <1>1, <1>5, <1>6, <2>1, Parts DEF PanesInv
  <2>4. \/ "detail" \in clouded' \/ "detail" \in Told(tasks')
        \/ code' = Nil \/ detailError' \/ detail' = P!DetailOf(code)'
    <3>1. CASE "detail" \in clouded
      BY <1>1, <3>1
    <3>2. CASE ~(UNCHANGED <<code, detail, detailError>> /\ Told(ts) = Told(tasks'))
      BY <1>6, <3>2
    <3>3. CASE UNCHANGED <<code, detail, detailError>> /\ Told(ts) = Told(tasks') /\ "detail" \in Told(tasks)
      <4>1. s.then # "keep" => "detail" \in clouded'
        BY <1>1, <1>6, <3>3
      <4> QED
        BY <1>5, <1>6, <3>3, <4>1
    <3>4. CASE UNCHANGED <<code, detail, detailError>> /\ "detail" \notin Told(tasks) /\ "detail" \notin clouded
      BY <2>1, <3>4, Parts DEF PanesInv
    <3> QED
      BY <3>1, <3>2, <3>3, <3>4
  <2> QED
    BY <2>2, <2>3, <2>4 DEF PanesInv
<1>10. WaitInv'
  BY <1>1, <1>3, <1>4, <1>6, Parts DEF WaitInv, DeletionInv
<1> QED
  BY <1>6, <1>7, <1>8, <1>9, <1>10 DEF NormalInv, PageTypes

LEMMA ReceiveDetailKeeps == ASSUME NormalInv, NEW x \in tasks, P!ReceiveDetail(x) PROVE NormalInv'
<1> DEFINE s == Head(x.steps)
<1>1. /\ s.op = "detail" /\ x.got # Nil /\ detail' = [code |-> s.path[1], rows |-> x.got.rows]
      /\ tasks' = P!Rest(x)
      /\ clouded' = IF code = s.path[1] /\ detail' = P!DetailOf(code) THEN clouded \ {"detail"} ELSE clouded \cup {"detail"}
      /\ UNCHANGED <<val, term, products, loading, listError, code, detailError, observations, spent>>
  BY DEF P!ReceiveDetail, P!master
<1>2. IsTask(x) /\ s = x.steps[1]
  BY Parts
<1>3. /\ IsTree(x.got.rows) /\ \A n \in DOMAIN x.got.rows : n[1] = s.path[1]
      /\ s.path[1] \in P!Labels /\ s.path[1] # Nil /\ s.then = "keep"
  <2>1. IsTree(x.got.rows) /\ \A n \in DOMAIN x.got.rows : n[1] = s.path[1]
    BY <1>1, <1>2 DEF IsTask, IsAnswer
  <2>2. IsRead(s)
    BY <1>2, FirstStep DEF IsTask
  <2>3. s.path[1] \in P!Labels /\ s.then = "keep"
    BY <1>1, <2>2 DEF IsRead, IsCode
  <2> QED
    BY <2>1, <2>3, PageConstants
<1>4. P!Done(x) <=> x.kind = "detail"
  BY <1>1, <1>2, EndOf, OneStep
<1>5. UNCHANGED <<modal, dialog, deleting>>
  BY <1>4 DEF P!ReceiveDetail, P!Finishes
<1>6. s.op \in P!Reads /\ Renews(s) = {"detail"}
  BY <1>1, <1>3 DEF P!Reads, Renews
<1>7. PICK ts : ts = P!Rest(x)
  OBVIOUS
<1>8. /\ Handlers(ts) /\ OneDeletes(ts) /\ (\A k : Has(ts, k) => Has(tasks, k))
      /\ \A k : Has(tasks, k) => Has(ts, k) \/ (P!Done(x) /\ x.kind = k)
      /\ Owned(tasks) => Owned(ts) \/ (P!Done(x) /\ x.kind = "save")
  BY <1>7, RestOf, Parts DEF DeletionInv
<1>9. Told(tasks) \subseteq Told(ts) \cup {"detail"}
  BY <1>6, <1>7, ToldLeft, Parts
<1>10. Handlers(tasks)' /\ tasks' = ts
  <2>1. Handlers(ts)'
    BY <1>1, <1>8, TaskStays DEF Handlers
  <2> QED
    BY <1>1, <1>7, <2>1
<1>11. ServerTypes' /\ FormTypes'
  <2>1. clouded' \subseteq P!Reads
    BY <1>1, Parts DEF ServerTypes, P!Reads
  <2> QED
    BY <1>1, <1>5, <2>1, Parts DEF ServerTypes, FormTypes, Rooted, IsTree
<1>12. PaneTypes' /\ detail' # P!NoDetail
  <2>1. detail'.code = s.path[1] /\ detail'.rows = x.got.rows
    BY <1>1
  <2> QED
    BY <1>1, <1>3, <2>1, Parts DEF PaneTypes, IsTree, P!NoDetail
<1>13. DeletionInv'
  BY <1>1, <1>5, <1>8, <1>10, Parts DEF DeletionInv
<1>14. PanesInv'
  <2>1. P!ListOf(term)' = P!ListOf(term) /\ P!Issues' = P!Issues /\ P!DetailOf(code)' = P!DetailOf(code)
    BY <1>1 DEF P!ListOf, P!Issues, P!DetailOf
  <2>2. "detail" \in clouded' \/ detail' = P!DetailOf(code)'
    BY <1>1, <2>1
  <2> QED
    BY <1>1, <1>9, <1>10, <2>1, <2>2, Parts DEF PanesInv
<1>15. WaitInv'
  BY <1>1, <1>4, <1>5, <1>8, <1>10, <1>12, Parts DEF WaitInv
<1> QED
  BY <1>10, <1>11, <1>12, <1>13, <1>14, <1>15 DEF NormalInv, PageTypes

LEMMA ReceiveObsKeeps == ASSUME NormalInv, NEW x \in tasks, P!ReceiveObs(x) PROVE NormalInv'
<1> DEFINE s == Head(x.steps)
<1>1. /\ s.op = "obs" /\ tasks' = P!Rest(x) /\ P!Finishes(x)
      /\ \/ observations' = x.got.issues /\ spent' = spent
            /\ clouded' = IF x.got.issues = P!Issues THEN clouded \ {"obs"} ELSE clouded \cup {"obs"}
         \/ spent' = [spent EXCEPT !.faults = @ + 1] /\ clouded' = clouded \cup {"obs"} /\ observations' = observations
      /\ UNCHANGED <<val, term, products, loading, listError, code, detail, detailError>>
  BY DEF P!ReceiveObs, P!master, P!pane
<1>2. IsTask(x) /\ s = x.steps[1]
  BY Parts
<1>3. s.op \in P!Reads /\ Renews(s) = {"obs"}
  <2>1. s.then = "keep"
    BY <1>1, <1>2, FirstStep DEF IsTask, IsRead
  <2> QED
    BY <1>1, <2>1 DEF P!Reads, Renews
<1>4. P!Done(x) => x.kind \notin {"list", "detail"}
  BY <1>1, <1>2, EndOf
<1>5. PICK ts : ts = P!Rest(x)
  OBVIOUS
<1>6. /\ Handlers(ts) /\ OneDeletes(ts) /\ (\A k : Has(ts, k) => Has(tasks, k))
      /\ \A k : Has(tasks, k) => Has(ts, k) \/ (P!Done(x) /\ x.kind = k)
      /\ P!Done(x) /\ x.kind = "delete" => ~Has(ts, "delete")
      /\ Owned(tasks) => Owned(ts) \/ (P!Done(x) /\ x.kind = "save")
  BY <1>5, RestOf, Parts DEF DeletionInv
<1>7. Told(tasks) \subseteq Told(ts) \cup {"obs"}
  BY <1>3, <1>5, ToldLeft, Parts
<1>8. Handlers(tasks)' /\ tasks' = ts
  <2>1. Handlers(ts)'
    BY <1>1, <1>6, TaskStays DEF Handlers
  <2> QED
    BY <1>1, <1>5, <2>1
<1>9. /\ modal' = (IF P!Done(x) /\ x.kind = "save" THEN P!NoModal ELSE modal)
      /\ IF P!Done(x) /\ x.kind = "delete" THEN dialog' = Nil /\ deleting' = FALSE ELSE UNCHANGED <<dialog, deleting>>
  BY <1>1 DEF P!Finishes
<1>10. FormTypes' /\ (modal'.busy => modal.busy /\ ~(P!Done(x) /\ x.kind = "save"))
  <2>1. <<>> \in Seq(P!Labels)
    OBVIOUS
  <2> QED
    BY <1>9, <2>1, Parts DEF FormTypes, P!NoModal
<1>11. ServerTypes' /\ PaneTypes'
  <2>1. clouded' \subseteq P!Reads /\ spent' \in [writes : 0 .. MaxSaves, faults : Nat]
    BY <1>1, Parts DEF ServerTypes, P!Reads
  <2> QED
    BY <1>1, <2>1, Parts DEF ServerTypes, PaneTypes, Rooted, IsTree
<1>12. DeletionInv'
  BY <1>1, <1>6, <1>8, <1>9, Parts DEF DeletionInv
<1>13. PanesInv'
  <2>1. P!ListOf(term)' = P!ListOf(term) /\ P!Issues' = P!Issues /\ P!DetailOf(code)' = P!DetailOf(code)
    BY <1>1 DEF P!ListOf, P!Issues, P!DetailOf
  <2>2. "obs" \in clouded' \/ observations' = P!Issues'
    BY <1>1, <2>1
  <2> QED
    BY <1>1, <1>7, <1>8, <2>1, <2>2, Parts DEF PanesInv
<1>14. WaitInv'
  BY <1>1, <1>4, <1>6, <1>8, <1>9, <1>10, Parts DEF WaitInv
<1> QED
  BY <1>8, <1>10, <1>11, <1>12, <1>13, <1>14 DEF NormalInv, PageTypes
-----------------------------------------------------------------------------
(* What is sent.                                                             *)

LEMMA Wider == ASSUME NEW A, NEW B, NEW n \in Seq(A) PROVE n \in Seq(A \cup B)
OBVIOUS

\* The reads after a write.
Tells(rs) == UNION {Renews(rs[i]) : i \in 1 .. Len(rs)}
IsTail(rs) ==
  /\ rs \in Seq(AStep) /\ Len(rs) > 0 /\ rs[Len(rs)] = P!ReadObs
  /\ \A i \in 1 .. Len(rs) : rs[i].op \in P!Reads /\ IsRead(rs[i])

LEMMA CallSent ==
  ASSUME NEW k \in {"save", "delete"}, NEW w \in AStep, NEW rs, IsTail(rs),
         w.op \in {"create", "edit", "delete"}, w.path \in Paths, w.op # "delete" => w.value \in P!Held,
         w.then = "keep" \/ (Deletes(w) /\ k = "delete"),
         Len(w.path) = 1 => "list" \in Tells(rs),
         "detail" \in Tells(rs) \/ Deletes(w) \/ Len(w.path) > 1,
         NEW x, x = P!Task(k, <<w>> \o rs)
  PROVE  IsTask(x)' /\ Telling(x) = {} /\ x.kind = k /\ x.own
<1> DEFINE q == <<w>> \o rs
<1>1. x = [kind |-> k, steps |-> q, got |-> Nil, own |-> TRUE]
  BY DEF P!Task
<1>2. /\ q \in Seq(AStep) /\ Len(q) = Len(rs) + 1 /\ Len(rs) \in Nat /\ Len(rs) > 0
      /\ q[1] = w /\ \A i \in 1 .. Len(rs) : q[i + 1] = rs[i]
  BY DEF IsTail
<1> HIDE DEF q
<1>3. /\ x \in [kind : TaskKinds, steps : Seq(AStep), got : {x.got}, own : BOOLEAN]
      /\ x.kind = k /\ x.own /\ x.steps = q /\ x.got = Nil
  <2>1. k \in TaskKinds
    BY DEF TaskKinds
  <2>2. x.kind = k /\ x.steps = q /\ x.got = Nil /\ x.own = TRUE
    BY <1>1
  <2>3. \A c : \A a \in TaskKinds, b \in Seq(AStep) :
          [kind |-> a, steps |-> b, got |-> c, own |-> TRUE]
            \in [kind : TaskKinds, steps : Seq(AStep), got : {c}, own : BOOLEAN]
    OBVIOUS
  <2>4. x \in [kind : TaskKinds, steps : Seq(AStep), got : {Nil}, own : BOOLEAN]
    <3>1. q \in Seq(AStep)
      BY <1>2
    <3>2. [kind |-> k, steps |-> q, got |-> Nil, own |-> TRUE]
            \in [kind : TaskKinds, steps : Seq(AStep), got : {Nil}, own : BOOLEAN]
      BY <2>1, <2>3, <3>1, Zenon
    <3> QED
      BY <1>1, <3>2, Zenon
  <2> QED
    BY <2>2, <2>4
<1>4. /\ Len(x.steps) = Len(rs) + 1 /\ Len(x.steps) > 0 /\ x.steps[1] = w /\ \A i \in 1 .. Len(rs) : x.steps[i + 1] = rs[i]
      /\ \A i \in 2 .. Len(x.steps) : i - 1 \in 1 .. Len(rs) /\ x.steps[i] = rs[i - 1]
      /\ \A i \in 1 .. Len(x.steps) : i = 1 \/ i \in 2 .. Len(x.steps)
      /\ \A i \in 1 .. Len(rs) : i + 1 \in 2 .. Len(x.steps)
  <2>1. \A i \in 2 .. Len(q) : i - 1 \in 1 .. Len(rs) /\ q[i] = rs[i - 1]
    BY <1>2
  <2>2. Len(q) > 0 /\ (\A i \in 1 .. Len(q) : i = 1 \/ i \in 2 .. Len(q)) /\ \A i \in 1 .. Len(rs) : i + 1 \in 2 .. Len(q)
    BY <1>2
  <2> QED
    BY <1>2, <1>3, <2>1, <2>2
<1>5. w.op \notin P!Reads
  BY DEF P!Reads
<1>6. Left(x) = Tells(rs)
  <2>1. \A p : (\E i \in 2 .. Len(x.steps) : p \in Renews(x.steps[i])) => \E i \in 1 .. Len(rs) : p \in Renews(rs[i])
    BY <1>4
  <2>2. \A p : (\E i \in 1 .. Len(rs) : p \in Renews(rs[i])) => \E i \in 2 .. Len(x.steps) : p \in Renews(x.steps[i])
    BY <1>4
  <2>3. \A p : p \in Left(x) <=> p \in Tells(rs)
    BY <2>1, <2>2 DEF Left, Tells
  <2> QED
    BY <2>3
<1>7. "obs" \in Tells(rs) /\ x.steps[Len(x.steps)] = P!ReadObs
  <2>1. Len(rs) \in 1 .. Len(rs) /\ rs[Len(rs)] = P!ReadObs
    BY <1>2 DEF IsTail
  <2>2. P!ReadObs.op = "obs"
    BY DEF P!ReadObs, P!Step
  <2>3. "obs" \in Renews(rs[Len(rs)])
    BY <2>1, <2>2 DEF Renews
  <2> QED
    BY <1>4, <2>1, <2>3 DEF Tells
<1>8. IsKind(x)'
  BY <1>3, <1>7 DEF IsKind
<1>9. IsWrite(x)'
  BY <1>3, <1>4, <1>6, <1>7 DEF IsWrite
<1>10. IsAnswer(x)'
  BY <1>3 DEF IsAnswer
<1>11. \A i \in 2 .. Len(x.steps) : x.steps[i].op \in P!Reads /\ IsRead(x.steps[i])
  BY <1>4 DEF IsTail
<1>12. IsRead(w)
  BY <1>5 DEF IsRead, P!Reads
<1>13. IsTask(x)'
  <2>1. \A i \in 1 .. Len(x.steps) : IsRead(x.steps[i])
    BY <1>4, <1>11, <1>12
  <2> QED
    BY <1>3, <1>4, <1>8, <1>9, <1>10, <1>11, <2>1 DEF IsTask
<1> QED
  BY <1>3, <1>4, <1>5, <1>13 DEF Telling

\* The reads a handler ends with.
LEMMA ListRead ==
  ASSUME NEW t \in DOMAIN Terms, NEW c \in P!Labels \cup {"keep"}, NEW s, s = P!Step("list", <<t>>, c)
  PROVE  s \in AStep /\ s.op = "list" /\ s.op \in P!Reads /\ IsRead(s) /\ Renews(s) = {"list"} \cup (IF c # "keep" THEN {"detail"} ELSE {})
<1>1. s = [op |-> "list", path |-> <<t>>, value |-> Nil, then |-> c]
  BY DEF P!Step
<1>2. s \in AStep /\ s.op = "list" /\ s.then = c
  <2>1. <<t>> \in Seq(P!Labels \cup DOMAIN Terms)
    OBVIOUS
  <2>2. "list" \in P!Reads
    BY DEF P!Reads
  <2>3. \A p : p \in Seq(P!Labels \cup DOMAIN Terms)
          => [op |-> "list", path |-> p, value |-> Nil, then |-> c] \in AStep
    BY <2>2 DEF AStep
  <2>4. s \in AStep
    BY <1>1, <2>1, <2>3, Zenon
  <2> QED
    BY <1>1, <2>4
<1>3. c # Nil
  BY PageConstants
<1>4. s.op \in P!Reads /\ IsRead(s)
  BY <1>2, <1>3 DEF IsRead, P!Reads
<1> QED
  BY <1>2, <1>4 DEF Renews

LEMMA DetailRead ==
  ASSUME NEW c \in P!Labels, NEW s, s = P!ReadDetail(c)
  PROVE  s \in AStep /\ s.op = "detail" /\ s.op \in P!Reads /\ IsRead(s) /\ "detail" \in Renews(s)
<1>1. s = [op |-> "detail", path |-> <<c>>, value |-> Nil, then |-> "keep"]
  BY DEF P!ReadDetail, P!Step
<1>2. s \in AStep /\ s.op = "detail" /\ s.then = "keep" /\ s.path = <<c>>
  BY <1>1 DEF AStep, P!Reads
<1>3. "keep" # Nil /\ IsCode(<<c>>)
  BY PageConstants DEF IsCode
<1>4. s.op \in P!Reads /\ IsRead(s)
  BY <1>2, <1>3 DEF IsRead, P!Reads
<1> QED
  BY <1>2, <1>4 DEF Renews

LEMMA ObsRead == P!ReadObs \in AStep /\ P!ReadObs.op \in P!Reads /\ IsRead(P!ReadObs)
<1>1. P!ReadObs = [op |-> "obs", path |-> <<>>, value |-> Nil, then |-> "keep"]
  BY DEF P!ReadObs, P!Step
<1>2. P!ReadObs \in AStep /\ P!ReadObs.op = "obs" /\ P!ReadObs.then = "keep"
  BY <1>1 DEF AStep, P!Reads
<1>3. "keep" # Nil
  BY PageConstants
<1> QED
  BY <1>2, <1>3 DEF IsRead, P!Reads

LEMMA OneTail == IsTail(<<P!ReadObs>>)
BY ObsRead DEF IsTail

LEMMA LongerTail ==
  ASSUME NEW s \in AStep, s.op \in P!Reads, IsRead(s), NEW rs, IsTail(rs)
  PROVE  IsTail(<<s>> \o rs) /\ Tells(<<s>> \o rs) = Renews(s) \cup Tells(rs)
<1> DEFINE q == <<s>> \o rs
<1>1. /\ q \in Seq(AStep) /\ Len(q) = Len(rs) + 1 /\ Len(rs) \in Nat /\ Len(rs) > 0
      /\ q[1] = s /\ \A i \in 1 .. Len(rs) : q[i + 1] = rs[i]
  BY DEF IsTail
<1> HIDE DEF q
<1>2. /\ \A i \in 1 .. Len(q) : i = 1 \/ (i - 1 \in 1 .. Len(rs) /\ q[i] = rs[i - 1])
      /\ \A i \in 1 .. Len(rs) : i + 1 \in 1 .. Len(q)
      /\ 1 \in 1 .. Len(q) /\ q[Len(q)] = rs[Len(rs)]
  BY <1>1
<1>3. IsTail(q)
  <2>1. Len(q) > 0 /\ q[Len(q)] = P!ReadObs
    <3>1. Len(q) > 0
      BY <1>1
    <3> QED
      BY <1>2, <3>1, Zenon DEF IsTail
  <2>2. ASSUME NEW i \in 1 .. Len(q) PROVE q[i].op \in P!Reads /\ IsRead(q[i])
    <3>1. CASE i = 1
      BY <1>1, <3>1
    <3>2. CASE i # 1
      <4>1. PICK j \in 1 .. Len(rs) : q[i] = rs[j]
        BY <1>2, <3>2, Zenon
      <4> QED
        BY <4>1, Zenon DEF IsTail
    <3> QED
      BY <3>1, <3>2
  <2> QED
    BY <1>1, <2>1, <2>2, Zenon DEF IsTail
<1>4. Tells(q) = Renews(s) \cup Tells(rs)
  <2>1. \A p : (\E i \in 1 .. Len(q) : p \in Renews(q[i]))
               <=> (p \in Renews(s) \/ \E i \in 1 .. Len(rs) : p \in Renews(rs[i]))
    BY <1>1, <1>2
  <2> QED
    BY <2>1 DEF Tells
<1> QED
  BY <1>3, <1>4 DEF q
-----------------------------------------------------------------------------
(* A save and a deletion.                                                    *)

\* A name that is not one code is longer.
LEMMA Positive == \A k \in Nat : k > 0 => (k = 1 <=> ~(k > 1))
OBVIOUS

\* Tasks put together.
LEMMA SamePath ==
  ASSUME NEW S, NEW p \in Seq(S), NEW q \in Seq(S), Len(p) = Len(q), \A i \in 1 .. Len(p) : p[i] = q[i]
  PROVE  p = q
OBVIOUS

LEMMA Two == ASSUME NEW a, NEW b PROVE <<a>> \o <<b>> = <<a, b>>
<1> DEFINE p == <<a>>
           q == <<b>>
           r == <<a, b>>
<1>1. /\ p \in Seq({a, b}) /\ Len(p) = 1 /\ p[1] = a
      /\ q \in Seq({a, b}) /\ Len(q) = 1 /\ q[1] = b
      /\ r \in Seq({a, b}) /\ Len(r) = 2 /\ r[1] = a /\ r[2] = b
  OBVIOUS
<1> HIDE DEF p, q, r
<1>2. p \o q \in Seq({a, b}) /\ Len(p \o q) = 2 /\ (p \o q)[1] = a /\ (p \o q)[2] = b
  BY <1>1 DEF p, q
<1>3. p \o q = r
  BY <1>1, <1>2, SamePath
<1> QED
  BY <1>3 DEF p, q, r

LEMMA Three == ASSUME NEW a, NEW b, NEW c PROVE <<a>> \o (<<b>> \o <<c>>) = <<a, b, c>>
<1> DEFINE p == <<a>>
           q == <<b, c>>
           r == <<a, b, c>>
<1>1. /\ p \in Seq({a, b, c}) /\ Len(p) = 1 /\ p[1] = a
      /\ q \in Seq({a, b, c}) /\ Len(q) = 2 /\ q[1] = b /\ q[2] = c
      /\ r \in Seq({a, b, c}) /\ Len(r) = 3 /\ r[1] = a /\ r[2] = b /\ r[3] = c
  OBVIOUS
<1> HIDE DEF p, q, r
<1>2. /\ p \o q \in Seq({a, b, c}) /\ Len(p \o q) = 3
      /\ (p \o q)[1] = a /\ (p \o q)[2] = b /\ (p \o q)[3] = c
  BY <1>1 DEF p, q
<1>3. p \o q = r
  BY <1>1, <1>2, SamePath
<1> QED
  BY <1>3, Two DEF p, q, r

LEMMA WriteCounts ==
  ASSUME ServerTypes, spent.writes < MaxSaves, spent' = [spent EXCEPT !.writes = @ + 1]
  PROVE  spent' \in [writes : 0 .. MaxSaves, faults : Nat]
<1>1. MaxSaves \in Nat
  BY PageConstants
<1> QED
  BY <1>1 DEF ServerTypes

\* refetchDetail, and what follows a save or a deletion.
LEMMA RefetchTail ==
  ASSUME PaneTypes PROVE IsTail(P!Refetch) /\ (code # Nil => "detail" \in Tells(P!Refetch))
<1>1. CASE code = Nil
  <2>1. P!Refetch = <<>> \o <<P!ReadObs>>
    BY <1>1 DEF P!Refetch
  <2>2. P!Refetch = <<P!ReadObs>>
    BY <2>1
  <2> QED
    BY <1>1, <2>2, OneTail
<1>2. CASE code # Nil
  <2>1. P!Refetch = <<P!ReadDetail(code)>> \o <<P!ReadObs>>
    BY <1>2 DEF P!Refetch
  <2>2. PICK c \in P!Labels : c = code
    BY <1>2 DEF PaneTypes
  <2>3. PICK s : s = P!ReadDetail(c)
    OBVIOUS
  <2>4. s \in AStep /\ s.op \in P!Reads /\ IsRead(s) /\ "detail" \in Renews(s)
    BY <2>3, DetailRead
  <2>5. IsTail(<<s>> \o <<P!ReadObs>>) /\ Tells(<<s>> \o <<P!ReadObs>>) = Renews(s) \cup Tells(<<P!ReadObs>>)
    BY <2>4, OneTail, LongerTail
  <2> QED
    BY <2>1, <2>2, <2>3, <2>4, <2>5
<1> QED
  BY <1>1, <1>2

LEMMA SavedTail ==
  ASSUME PaneTypes, ServerTypes, NEW n \in Paths
  PROVE  /\ IsTail(P!Saved(n)) /\ (Len(n) = 1 => "list" \in Tells(P!Saved(n)))
         /\ Len(n) = 1 \/ code # Nil => "detail" \in Tells(P!Saved(n))
<1>1. Len(n) \in Nat /\ Len(n) > 0 /\ n[1] \in P!Labels /\ (Len(n) = 1 <=> ~(Len(n) > 1))
  <2>1. n \in Seq(P!Labels) /\ Len(n) \in Nat /\ Len(n) > 0
    BY DEF Paths
  <2>2. n[1] \in P!Labels
    BY <2>1
  <2>3. Len(n) = 1 <=> ~(Len(n) > 1)
    BY <2>1, Positive, Zenon
  <2> QED
    BY <2>1, <2>2, <2>3
<1>2. CASE Len(n) > 1
  BY <1>1, <1>2, RefetchTail DEF P!Saved, P!Level
<1>3. CASE Len(n) = 1 /\ n[1] = code
  <2>1. P!Saved(n) = <<P!ReadList(term)>> \o P!Refetch
    BY <1>1, <1>3 DEF P!Saved, P!Level
  <2>2. PICK s : s = P!Step("list", <<term>>, "keep")
    OBVIOUS
  <2>3. s \in AStep /\ s.op \in P!Reads /\ IsRead(s) /\ Renews(s) = {"list"}
    BY <2>2, ListRead DEF ServerTypes
  <2>4. code # Nil
    BY <1>1, <1>3, PageConstants
  <2>5. IsTail(<<s>> \o P!Refetch) /\ Tells(<<s>> \o P!Refetch) = Renews(s) \cup Tells(P!Refetch)
    BY <2>3, RefetchTail, LongerTail
  <2> QED
    BY <2>1, <2>2, <2>3, <2>4, <2>5, RefetchTail DEF P!ReadList
<1>4. CASE Len(n) = 1 /\ n[1] # code
  <2>1. P!Saved(n) = <<P!Step("list", <<term>>, n[1]), P!ReadObs>>
    BY <1>1, <1>4 DEF P!Saved, P!Level
  <2>2. PICK s : s = P!Step("list", <<term>>, n[1])
    OBVIOUS
  <2>3. n[1] # "keep"
    BY <1>1, PageConstants
  <2>4. s \in AStep /\ s.op \in P!Reads /\ IsRead(s) /\ Renews(s) = {"list", "detail"}
    BY <1>1, <2>2, <2>3, ListRead DEF ServerTypes
  <2>5. IsTail(<<s>> \o <<P!ReadObs>>) /\ Tells(<<s>> \o <<P!ReadObs>>) = Renews(s) \cup Tells(<<P!ReadObs>>)
    BY <2>4, OneTail, LongerTail
  <2>6. <<s>> \o <<P!ReadObs>> = <<s, P!ReadObs>>
    BY Two, Zenon
  <2> QED
    BY <2>1, <2>2, <2>4, <2>5, <2>6
<1> QED
  BY <1>1, <1>2, <1>3, <1>4

\* A handler more.
LEMMA Joins ==
  ASSUME NormalInv, NEW x, IsTask(x)', Telling(x) = {}, tasks' = tasks \cup {x},
         UNCHANGED <<val, P!master, P!pane, observations>>, spent' \in [writes : 0 .. MaxSaves, faults : Nat],
         clouded' = clouded, FormTypes',
         DeletionInv', modal'.busy => modal.busy \/ (x.kind = "save" /\ x.own), deleting' => deleting \/ x.kind = "delete"
  PROVE  NormalInv'
<1>1. UNCHANGED <<val, term, products, loading, listError, code, detail, detailError, observations>>
  BY DEF P!master, P!pane
<1>2. Handlers(tasks)'
  <2>1. \A y \in tasks : IsTask(y)'
    BY <1>1, Parts, TaskStays
  <2> QED
    BY <2>1 DEF Handlers
<1>3. /\ Told(tasks') = Told(tasks) /\ (\A k : Has(tasks, k) => Has(tasks', k)) /\ (Owned(tasks) => Owned(tasks'))
      /\ Has(tasks', x.kind) /\ (x.kind = "save" /\ x.own => Owned(tasks'))
  BY DEF Told, Has, Owned
<1>4. ServerTypes' /\ PaneTypes'
  <2>1. clouded' \subseteq P!Reads
    BY Parts DEF ServerTypes
  <2> QED
    BY <1>1, <2>1, Parts DEF ServerTypes, PaneTypes, Rooted, IsTree
<1>5. PanesInv'
  <2>1. clouded \cup Told(tasks) \subseteq clouded' \cup Told(tasks')
    BY <1>3
  <2> QED
    BY <1>1, <2>1, Parts, PanesKept
<1>6. WaitInv'
  BY <1>1, <1>3, Parts DEF WaitInv
<1> QED
  BY <1>2, <1>4, <1>5, <1>6 DEF NormalInv, PageTypes

LEMMA TargetPath ==
  ASSUME NormalInv, NEW k \in P!Labels, P!ModalShown
  PROVE  P!Target(k) \in Paths
<1>1. modal.path \in Paths
  BY Parts DEF FormTypes, P!ModalShown
<1>2. modal.path \in Seq(P!Labels) /\ Len(modal.path) \in Nat /\ Len(modal.path) > 0
  BY <1>1 DEF Paths
<1>3. CASE modal.mode = "edit"
  BY <1>1, <1>3 DEF P!Target
<1>4. CASE modal.mode # "edit" /\ Len(modal.path) = 1
  <2>1. <<k>> \in Seq(P!Labels) /\ Len(<<k>>) = 1
    OBVIOUS
  <2>2. <<k>> \in Paths
    BY <2>1 DEF Paths
  <2> QED
    BY <1>4, <2>2 DEF P!Target, P!Level
<1>5. CASE modal.mode # "edit" /\ Len(modal.path) # 1
  <2>1. Len(modal.path) > 1
    BY <1>2, <1>5, Positive, Zenon
  <2>2. detail.code \in P!Labels
    BY <1>5, <2>1, Parts DEF PaneTypes, P!ModalShown, P!Level
  <2>3. P!Front(modal.path) \in Paths
    BY <1>1, <2>1, FrontOf
  <2> DEFINE f == P!Front(modal.path)
  <2>4. f \in Seq(P!Labels) /\ Len(f) > 0
    BY <2>3 DEF Paths
  <2> HIDE DEF f
  <2>5. Tail(f) \in Seq(P!Labels)
    BY <2>4
  <2> DEFINE g == Tail(f)
  <2>6. <<detail.code>> \o g \o <<k>> \in Seq(P!Labels) /\ Len(<<detail.code>> \o g \o <<k>>) > 0
    <3>1. g \in Seq(P!Labels) /\ Len(g) \in Nat
      BY <2>5
    <3> HIDE DEF g
    <3>2. <<detail.code>> \o g \in Seq(P!Labels) /\ Len(<<detail.code>> \o g) = 1 + Len(g)
      BY <2>2, <3>1
    <3> QED
      BY <3>1, <3>2
  <2>7. P!Target(k) = <<detail.code>> \o g \o <<k>>
    BY <1>5 DEF P!Target, P!Level, f, g
  <2> QED
    BY <2>6, <2>7 DEF Paths
<1> QED
  BY <1>3, <1>4, <1>5

LEMMA SubmitKeeps ==
  ASSUME NormalInv, NEW k \in Codes \cup Series \cup Admins, NEW v \in P!Typed, P!Submit(k, v)
  PROVE  NormalInv'
<1>1. k \in P!Labels /\ v \in P!Held
  <2>1. Codes \subseteq P!Labels /\ Series \subseteq P!Labels /\ Admins \subseteq P!Labels
    BY PageConstants
  <2>2. Unnamed \in P!Held
    BY PageConstants
  <2>3. Typeable \subseteq P!Held
    BY PageConstants
  <2> QED
    BY <2>1, <2>2, <2>3 DEF P!Typed
<1>2. PICK n \in Paths : n = P!Target(k)
  BY <1>1, TargetPath DEF P!Submit
<1>3. PICK m \in {"edit", "create"} : m = modal.mode
  BY Parts DEF P!Submit, P!ModalShown, FormTypes
<1>4. PICK rs : rs = P!Saved(n)
  OBVIOUS
<1>5. PICK w : w = P!Writes(m, n, v, "keep")
  OBVIOUS
<1>6. PICK x : x = P!Task("save", <<w>> \o rs)
  OBVIOUS
<1>7. /\ tasks' = tasks \cup {x} /\ modal' = [modal EXCEPT !.busy = TRUE]
      /\ spent.writes < MaxSaves /\ spent' = [spent EXCEPT !.writes = @ + 1]
      /\ UNCHANGED <<val, P!master, P!pane, observations, dialog, deleting, clouded>>
  BY <1>2, <1>3, <1>4, <1>5, <1>6 DEF P!Submit
<1>8. w \in AStep /\ w.op = m /\ w.path = n /\ w.value = v /\ w.then = "keep"
  <2>1. w = [op |-> m, path |-> n, value |-> v, then |-> "keep"]
    BY <1>5 DEF P!Writes, P!Step
  <2>2. n \in Seq(P!Labels \cup DOMAIN Terms)
    BY Wider DEF Paths
  <2> QED
    BY <1>1, <2>1, <2>2 DEF AStep
<1>9. IsTail(rs) /\ (Len(n) = 1 => "list" \in Tells(rs)) /\ (Len(n) = 1 \/ code # Nil => "detail" \in Tells(rs))
  BY <1>4, SavedTail, Parts
<1>10. Len(n) = 1 \/ Len(n) > 1
  <2>1. Len(n) \in Nat /\ Len(n) > 0
    BY DEF Paths
  <2>2. Len(n) # 1 => Len(n) > 1
    BY <2>1, Positive, Zenon
  <2> QED
    BY <2>2
<1>11. "detail" \in Tells(rs) \/ Len(n) > 1
  BY <1>9, <1>10
<1>12. IsTask(x)' /\ Telling(x) = {} /\ x.kind = "save" /\ x.own
  BY <1>1, <1>6, <1>8, <1>9, <1>11, CallSent
<1>13. FormTypes'
  BY <1>7, Parts DEF FormTypes, P!Submit, P!ModalShown
<1>14. DeletionInv'
  <2>1. UNCHANGED <<code, dialog, deleting>>
    BY <1>7 DEF P!pane
  <2> QED
    BY <1>7, <1>12, <2>1, Parts DEF DeletionInv, OneDeletes, Has
<1>15. spent' \in [writes : 0 .. MaxSaves, faults : Nat]
  BY <1>7, Parts, WriteCounts
<1> QED
  BY <1>7, <1>12, <1>13, <1>14, <1>15, Joins

LEMMA ConfirmKeeps == ASSUME NormalInv, P!ConfirmDelete PROVE NormalInv'
<1>1. dialog # Nil /\ ~deleting /\ dialog \in Paths /\ code # Nil /\ ~Has(tasks, "delete")
  BY Parts DEF P!ConfirmDelete, FormTypes, DeletionInv
<1>2. PICK n \in Paths : n = dialog
  BY <1>1
<1>3. PICK x : x = P!Task("delete", P!Deletion(n))
  OBVIOUS
<1>4. /\ tasks' = tasks \cup {x} /\ deleting' = TRUE /\ spent.writes < MaxSaves /\ spent' = [spent EXCEPT !.writes = @ + 1]
      /\ UNCHANGED <<val, P!master, P!pane, observations, modal, dialog, clouded>>
  BY <1>2, <1>3 DEF P!ConfirmDelete
<1>5. \A w : \A t \in P!Labels \cup {Nil, "keep"} : w = P!Step("delete", n, t) =>
        w \in AStep /\ w.op = "delete" /\ w.path = n /\ w.then = t
  <2> SUFFICES ASSUME NEW t \in P!Labels \cup {Nil, "keep"}, NEW w, w = P!Step("delete", n, t)
               PROVE  w \in AStep /\ w.op = "delete" /\ w.path = n /\ w.then = t
    OBVIOUS
  <2>1. w = [op |-> "delete", path |-> n, value |-> Nil, then |-> t]
    BY DEF P!Step
  <2>2. n \in Seq(P!Labels \cup DOMAIN Terms)
    BY Wider DEF Paths
  <2> QED
    BY <2>1, <2>2 DEF AStep
<1>6. IsTask(x)' /\ Telling(x) = {} /\ x.kind = "delete" /\ x.own
  <2>1. CASE Len(n) = 1
    <3>1. PICK w : w = P!Step("delete", n, Nil)
      OBVIOUS
    <3>2. PICK s : s = P!ReadList(term)
      OBVIOUS
    <3>3. w \in AStep /\ w.op = "delete" /\ w.path = n /\ w.then = Nil
      BY <1>5, <3>1
    <3>4. s \in AStep /\ s.op \in P!Reads /\ IsRead(s) /\ Renews(s) = {"list"}
      BY <3>2, ListRead, Parts DEF ServerTypes, P!ReadList
    <3>5. PICK rs : rs = <<s>> \o <<P!ReadObs>>
      OBVIOUS
    <3>6. IsTail(rs) /\ "list" \in Tells(rs)
      BY <3>4, <3>5, OneTail, LongerTail
    <3>7. P!Deletion(n) = <<w>> \o rs
      <4>1. P!Deletion(n) = <<w, s, P!ReadObs>>
        BY <2>1, <3>1, <3>2 DEF P!Deletion, P!Level
      <4>2. <<w>> \o (<<s>> \o <<P!ReadObs>>) = <<w, s, P!ReadObs>>
        BY Three, Zenon
      <4> QED
        BY <3>5, <4>1, <4>2
    <3>8. x = P!Task("delete", <<w>> \o rs)
      BY <1>3, <3>7
    <3> QED
      BY <3>3, <3>6, <3>8, CallSent DEF Deletes
  <2>2. CASE Len(n) # 1
    <3>1. PICK w : w = P!Step("delete", n, "keep")
      OBVIOUS
    <3>2. PICK rs : rs = P!Refetch
      OBVIOUS
    <3>3. w \in AStep /\ w.op = "delete" /\ w.path = n /\ w.then = "keep"
      BY <1>5, <3>1
    <3>4. IsTail(rs) /\ "detail" \in Tells(rs)
      BY <1>1, <3>2, RefetchTail, Parts
    <3>5. x = P!Task("delete", <<w>> \o rs)
      BY <1>3, <2>2, <3>1, <3>2 DEF P!Deletion, P!Level
    <3> QED
      BY <2>2, <3>3, <3>4, <3>5, CallSent DEF Deletes
  <2> QED
    BY <2>1, <2>2
<1>7. FormTypes'
  BY <1>4, Parts DEF FormTypes
<1>8. DeletionInv'
  BY <1>1, <1>4, <1>6, Parts DEF DeletionInv, OneDeletes, Has
<1>9. spent' \in [writes : 0 .. MaxSaves, faults : Nat]
  BY <1>4, Parts, WriteCounts
<1> QED
  BY <1>4, <1>6, <1>7, <1>8, <1>9, Joins
-----------------------------------------------------------------------------
(* The page.                                                                 *)

LEMMA TreeRooted == Rooted(Tree)
<1>1. Tree \in [DOMAIN Tree -> P!Held]
  BY PageConstants
<1>2. IsTree(Tree)
  BY ScreensInstance DEF P!PageAssumption, IsTree, Paths
<1> QED
  BY <1>1, <1>2 DEF Rooted

\* An effect of the first render.
LEMMA FirstTask ==
  ASSUME NEW k \in {"list", "obs"}, NEW s \in AStep, IsRead(s), s.op = k, s.then = "keep",
         s = P!ReadObs \/ (k = "list" /\ s = P!ReadList(term)), k = "obs" => s = P!ReadObs,
         NEW x, x = P!Task(k, <<s>>)
  PROVE  IsTask(x) /\ x.kind = k /\ k \in Told({x})
<1> DEFINE q == <<s>>
<1>1. x = [kind |-> k, steps |-> q, got |-> Nil, own |-> TRUE]
  BY DEF P!Task
<1>2. q \in Seq(AStep) /\ Len(q) = 1 /\ q[1] = s
  OBVIOUS
<1> HIDE DEF q
<1>3. /\ x.kind = k /\ x.steps = q /\ x.got = Nil
      /\ x \in [kind : TaskKinds, steps : Seq(AStep), got : {x.got}, own : BOOLEAN]
  <2>1. \A c : \A a \in TaskKinds, b \in Seq(AStep) :
          [kind |-> a, steps |-> b, got |-> c, own |-> TRUE]
            \in [kind : TaskKinds, steps : Seq(AStep), got : {c}, own : BOOLEAN]
    OBVIOUS
  <2>2. k \in TaskKinds /\ x.kind = k /\ x.steps = q /\ x.got = Nil
    BY <1>1 DEF TaskKinds
  <2>3. x \in [kind : TaskKinds, steps : Seq(AStep), got : {Nil}, own : BOOLEAN]
    <3>1. q \in Seq(AStep)
      BY <1>2
    <3>2. [kind |-> k, steps |-> q, got |-> Nil, own |-> TRUE]
            \in [kind : TaskKinds, steps : Seq(AStep), got : {Nil}, own : BOOLEAN]
      BY <2>1, <2>2, <3>1, Zenon
    <3> QED
      BY <1>1, <3>2, Zenon
  <2> QED
    BY <2>2, <2>3
<1>4. IsKind(x)
  <2>1. CASE k = "list"
    <3>1. s = P!ReadList(term)
      BY <2>1 DEF P!ReadObs, P!Step
    <3> QED
      BY <1>3, <2>1, <3>1 DEF IsKind, q
  <2>2. CASE k = "obs"
    BY <1>3, <2>2 DEF IsKind, q
  <2> QED
    BY <2>1, <2>2
<1>5. IsWrite(x) /\ IsAnswer(x)
  <2>1. x.steps[1].op \in P!Reads
    BY <1>2, <1>3 DEF P!Reads
  <2> QED
    BY <1>3, <2>1 DEF IsWrite, IsAnswer
<1>6. IsTask(x)
  <2>1. Len(x.steps) > 0 /\ (\A i \in 2 .. Len(x.steps) : FALSE) /\ \A i \in 1 .. Len(x.steps) : i = 1
    <3>1. 1 > 0 /\ (\A i \in 2 .. 1 : FALSE) /\ \A i \in 1 .. 1 : i = 1
      OBVIOUS
    <3>2. Len(x.steps) = 1
      BY <1>2, <1>3, Zenon
    <3> QED
      BY <3>1, <3>2, Zenon
  <2>2. IsRead(x.steps[1])
    BY <1>2, <1>3
  <2> QED
    BY <1>3, <1>4, <1>5, <2>1, <2>2 DEF IsTask
<1>7. k \in Telling(x)
  BY <1>2, <1>3 DEF Telling, Renews, P!Reads
<1> QED
  BY <1>3, <1>6, <1>7 DEF Told

LEMMA InitNormal == ASSUME P!Init PROVE NormalInv
<1>1. /\ val = Tree /\ term = "" /\ products = Nil /\ loading = TRUE /\ listError = FALSE
      /\ code = Nil /\ detail = P!NoDetail /\ detailError = FALSE /\ observations = {}
      /\ modal = P!NoModal /\ dialog = Nil /\ deleting = FALSE
      /\ tasks = {P!LoadList(""), P!Task("obs", <<P!ReadObs>>)}
      /\ clouded = {} /\ spent = [writes |-> 0, faults |-> 0]
  BY DEF P!Init
<1>2. ServerTypes
  <2>1. Rooted(val)
    BY <1>1, TreeRooted
  <2>2. spent \in [writes : 0 .. MaxSaves, faults : Nat]
    <3>1. MaxSaves \in Nat
      BY PageConstants
    <3>2. 0 \in 0 .. MaxSaves /\ 0 \in Nat
      BY <3>1
    <3>3. [writes |-> 0, faults |-> 0] \in [writes : 0 .. MaxSaves, faults : Nat]
      BY <3>2
    <3> QED
      BY <1>1, <3>3, Zenon
  <2>3. term \in DOMAIN Terms
    BY <1>1, PageConstants
  <2> QED
    BY <1>1, <2>1, <2>2, <2>3 DEF ServerTypes
<1>3. PaneTypes
  <2>1. detail.rows = <<>> /\ detail.code = Nil /\ detail = P!NoDetail /\ code = Nil
    BY <1>1 DEF P!NoDetail
  <2>2. \A n : n \notin DOMAIN <<>>
    OBVIOUS
  <2> QED
    BY <2>1, <2>2 DEF PaneTypes, IsTree
<1>4. FormTypes
  <2>1. <<>> \in Seq(P!Labels)
    OBVIOUS
  <2> QED
    BY <1>1, <2>1 DEF FormTypes, P!NoModal
<1>5. PICK x, y : /\ tasks = {x, y} /\ IsTask(x) /\ IsTask(y) /\ x.kind = "list" /\ y.kind = "obs"
                  /\ "list" \in Told({x}) /\ "obs" \in Told({y})
  <2>1. PICK x : x = P!Task("list", <<P!ReadList(term)>>)
    OBVIOUS
  <2>2. PICK y : y = P!Task("obs", <<P!ReadObs>>)
    OBVIOUS
  <2>3. tasks = {x, y}
    BY <1>1, <2>1, <2>2 DEF P!LoadList
  <2>4. PICK s : s = P!ReadList(term)
    OBVIOUS
  <2>5. s \in AStep /\ s.op = "list" /\ IsRead(s)
    BY <1>2, <2>4, ListRead DEF ServerTypes, P!ReadList
  <2>6. s.then = "keep"
    BY <2>4 DEF P!ReadList, P!Step
  <2>7. IsTask(x) /\ x.kind = "list" /\ "list" \in Told({x})
    BY <2>1, <2>4, <2>5, <2>6, FirstTask
  <2>8. P!ReadObs.op = "obs" /\ P!ReadObs.then = "keep"
    BY DEF P!ReadObs, P!Step
  <2>9. IsTask(y) /\ y.kind = "obs" /\ "obs" \in Told({y})
    BY <2>2, <2>8, ObsRead, FirstTask
  <2> QED
    BY <2>3, <2>7, <2>9
<1>6. Handlers(tasks) /\ Has(tasks, "list") /\ ~Has(tasks, "delete") /\ {"list", "obs"} \subseteq Told(tasks)
  BY <1>5 DEF Handlers, Has, Told
<1>7. DeletionInv
  BY <1>1, <1>6 DEF DeletionInv, OneDeletes, Has
<1>8. PanesInv
  BY <1>1, <1>6 DEF PanesInv
<1>9. WaitInv
  BY <1>1, <1>6 DEF WaitInv, P!NoModal
<1> QED
  BY <1>2, <1>3, <1>4, <1>6, <1>7, <1>8, <1>9 DEF NormalInv, PageTypes

LEMMA AdministratorKeeps == ASSUME NormalInv, P!User PROVE NormalInv'
<1>1. CASE P!OpenNewProduct \/ P!CloseModal \/ P!Cancel \/ P!ConfirmDelete
  BY <1>1, OpenNewKeeps, CloseModalKeeps, CancelKeeps, ConfirmKeeps
<1>2. CASE \E t \in DOMAIN Terms : P!SetTerm(t)
  BY <1>2, SetTermKeeps
<1>3. CASE products # Nil /\ \E n \in DOMAIN products : P!Select(n[1])
  BY <1>3, PickKeeps
<1>4. CASE P!Shown /\ \E n \in DOMAIN detail.rows : P!OpenEdit(n) \/ P!OpenAdd(n) \/ P!OpenDelete(n)
  BY <1>4, OpenEditPage, OpenAddKeeps, OpenDeleteKeeps
<1>5. CASE \E k \in Codes \cup Series \cup Admins, v \in P!Typed : P!Submit(k, v)
  BY <1>5, SubmitKeeps
<1> QED
  BY <1>1, <1>2, <1>3, <1>4, <1>5 DEF P!User

LEMMA CatalogServes == ASSUME NormalInv, P!Server PROVE NormalInv'
<1>1. PICK x \in tasks : \/ P!Serve(x) \/ P!Written(x) \/ P!Refused(x) \/ P!NotFound(x) \/ P!Lost(x)
                         \/ P!ReceiveList(x) \/ P!ReceiveDetail(x) \/ P!ReceiveObs(x)
  BY DEF P!Server
<1> QED
  BY <1>1, ServeKeeps, WrittenKeeps, RefusedKeeps, NotFoundKeeps, LostKeeps, ReceiveListKeeps,
     ReceiveDetailKeeps, ReceiveObsKeeps

LEMMA StillNormal == ASSUME NormalInv, UNCHANGED pageVars PROVE NormalInv'
<1>1. /\ UNCHANGED <<val, term, products, loading, listError, code, detail, detailError>>
      /\ UNCHANGED <<observations, modal, dialog, deleting, tasks, clouded, spent>>
  BY DEF pageVars
<1>2. PageTypes'
  <2>1. ServerTypes' /\ PaneTypes' /\ FormTypes'
    BY <1>1, Parts DEF ServerTypes, PaneTypes, FormTypes, Rooted, IsTree
  <2>2. \A x \in tasks : IsTask(x)'
    BY <1>1, Parts, TaskStays
  <2> QED
    BY <1>1, <2>1, <2>2 DEF PageTypes, Handlers
<1>3. DeletionInv' /\ WaitInv'
  BY <1>1, Parts DEF DeletionInv, WaitInv
<1>4. PanesInv'
  BY <1>1, Parts, PanesKept
<1> QED
  BY <1>2, <1>3, <1>4 DEF NormalInv

LEMMA NormalAlways == ScreenSpec => []NormalInv
<1>1. ScreenInit => NormalInv
  BY InitNormal DEF ScreenInit
<1>2. NormalInv /\ [ScreenNext]_<<screen, formVars, pageVars>> => NormalInv'
  <2> SUFFICES ASSUME NormalInv, [ScreenNext]_<<screen, formVars, pageVars>> PROVE NormalInv'
    OBVIOUS
  <2>1. UNCHANGED pageVars \/ P!Next
    BY DEF ScreenNext
  <2> QED
    BY <2>1, StillNormal, AdministratorKeeps, CatalogServes DEF P!Next
<1> QED
  BY <1>1, <1>2, PTL DEF ScreenSpec

-----------------------------------------------------------------------------
(* What is checked of the screens.                                           *)

\* The types of the forms and of the page.
THEOREM TypesOfScreens == ScreenSpec => []ScreenTypeOK
<1>1. FormsInv => F!TypeOK
  <2> SUFFICES ASSUME FormsInv PROVE F!TypeOK
    OBVIOUS
  <2>1. /\ mode \in {Nil, "edit", "create"} /\ locking \in BOOLEAN /\ pending \in [F!Modes -> SUBSET Who]
        /\ pending["create"] # {} => mode = "create"
        /\ mode = Nil => form = F!Blank
        /\ writes \in 0 .. MaxWrites /\ IsForm(form)
    BY DEF FormsInv, FormsTypes, Side, F!Modes
  <2>2. DOMAIN form.f = F!Field /\ (\A k \in Alloc : F!IsAllocation(form.f[k])) /\ form.draft \subseteq Who
    BY <2>1 DEF IsForm, IsFields
  <2>3. /\ \A w \in form.draft : form.f[w] # ""
        /\ form.reset \subseteq Who /\ \A w \in Who : form.score[w] \in F!Mark \cup {Nil}
    BY <2>1 DEF IsForm, Empty, Cell
  <2> QED
    BY <2>1, <2>2, <2>3 DEF F!TypeOK
<1>2. NormalInv => P!TypeOK
  <2> SUFFICES ASSUME NormalInv PROVE P!TypeOK
    OBVIOUS
  <2>1. \A n \in DOMAIN val : P!Level(n) > 1 => P!Front(n) \in DOMAIN val
    BY Parts DEF Rooted, IsTree, P!Level
  <2>2. \A n \in DOMAIN detail.rows : n[1] = detail.code /\ (P!Level(n) > 1 => P!Front(n) \in DOMAIN detail.rows)
    BY Parts DEF PaneTypes, IsTree, P!Level
  <2>3. /\ modal.mode \in {Nil, "edit", "create"} /\ (modal.mode = Nil => modal = P!NoModal) /\ deleting \in BOOLEAN
    BY Parts DEF FormTypes
  <2>4. loading \in BOOLEAN /\ clouded \subseteq P!Reads /\ spent.writes \in 0 .. MaxSaves
    BY Parts DEF ServerTypes
  <2> QED
    BY <2>1, <2>2, <2>3, <2>4 DEF P!TypeOK
<1> QED
  BY <1>1, <1>2, FormsInvariance, NormalAlways, PTL DEF ScreenTypeOK

\* Once nothing is under way the page shows what the server has, and what waits
\* has a task to wait for.
THEOREM PageComesToRest == ScreenSpec => []PageSettles
<1>1. NormalInv => P!SettledShowsServer
  <2> SUFFICES ASSUME NormalInv, tasks = {} PROVE P!SettledShowsServer
    BY DEF P!SettledShowsServer
  <2>1. Told(tasks) = {}
    BY DEF Told
  <2> QED
    BY <2>1, Parts DEF PanesInv, P!SettledShowsServer
<1>2. NormalInv => P!WaitingHasTask
  <2> SUFFICES ASSUME NormalInv PROVE P!WaitingHasTask
    OBVIOUS
  <2>1. \A x \in tasks : x.kind = "detail" => P!ReadDetail(code) \in P!ToSet(x.steps)
    <3> SUFFICES ASSUME NEW x \in tasks, x.kind = "detail" PROVE P!ReadDetail(code) \in P!ToSet(x.steps)
      OBVIOUS
    <3>1. x.steps = <<P!ReadDetail(code)>>
      BY Parts DEF IsTask, IsKind
    <3>2. 1 \in DOMAIN x.steps /\ x.steps[1] = P!ReadDetail(code)
      BY <3>1
    <3> QED
      BY <3>2 DEF P!ToSet
  <2> QED
    BY <2>1, Parts DEF WaitInv, Has, Owned, P!WaitingHasTask
<1> QED
  BY <1>1, <1>2, NormalAlways, PTL DEF PageSettles, P!PageSettles
=============================================================================
