----------------------------- MODULE CatalogPage -----------------------------
(***************************************************************************)
(* The administrator's catalog page (app/admin/catalog/page.tsx): the      *)
(* table under a search and filters, the banner that counts observations   *)
(* over the whole catalog, the selection to export, and the dialogs that   *)
(* create, edit, delete and restore entries, beside the other writers of   *)
(* product_catalog.                                                        *)
(*                                                                         *)
(* A write is served and answered in one step; a read is served in one     *)
(* step and answered in another.  Search, filters and "Ver eliminados" are *)
(* one value, the query.  A 401 ends the page.                             *)
(***************************************************************************)
EXTENDS FiniteSets, Integers

CONSTANTS
  Id, Field, Value,
  Query,
  Finds,       \* query -> the values of the searched field it finds
  Searched,    \* that field
  WithDeleted, \* the queries with "Ver eliminados"
  Unlisted,    \* values outside the official lists, or none: an observation
  Named,       \* fields whose official list the page has to read
  Managed,     \* fields the Excel owns
  NameOf,      \* a field that holds a score -> the name it is the score of
  Fixes,       \* score -> the names of its list that fix it -> the score
  NoScore,     \* the value of a score that is missing
  Trimmed,     \* a text -> the same without the blanks around it
  Coded,       \* entries with a codigo
  Stored,      \* product_catalog when the page opens
  First,       \* the query the page opens on
  Complete,    \* contents the forms accept
  Inputs,      \* what is typed in the edit form
  Incoming,    \* rows as others may leave them
  None,
  MaxEvents,   \* bound on the writes, the administrator's and others', and on
               \* the calls that fail or lose their answer, together
  MaxCalls     \* bound on what is in flight when the administrator acts, or when
               \* a list of the edit form arrives

Scored == DOMAIN NameOf
Data == [Field -> Value]
Row  == [live : BOOLEAN, data : Data]

\* What a read returns: the rows it found.
Listings == [Id -> Row \cup {None}]

ASSUME CatalogAssumption ==
  /\ Searched \in Field /\ Managed \subseteq Field /\ Coded \subseteq Id
  /\ Finds \in [Query -> SUBSET Value] /\ WithDeleted \subseteq Query
  /\ Unlisted \subseteq Value /\ Named \subseteq Field /\ First \in Query
  /\ Complete \subseteq Data /\ Inputs \subseteq Value /\ Incoming \subseteq Row
  /\ None \notin Row \cup Id \cup Listings /\ Stored \in Listings
  /\ MaxEvents \in Nat /\ MaxCalls \in Nat

ASSUME FormAssumption ==
  /\ NameOf \in [Scored -> Field \ Scored] /\ Scored \subseteq Field /\ Scored \cap Managed = {}
  /\ \A s \in Scored : DOMAIN Fixes[s] \subseteq Value /\ \A n \in DOMAIN Fixes[s] : Fixes[s][n] \in Value
  /\ NoScore \in Value /\ Trimmed \in [Value -> Value]

VARIABLES
  db,          \* product_catalog
  query,       \* debouncedSearch, filters, showDeleted
  entries,     \* the rows of the table, None before the first load
  error, fetching,
  loads,       \* GET entries for the table: abortRef keeps one at most
  all,         \* allEntries and allEntriesFailed
  alls,        \* GET entries for the banner
  names, managed, \* have the official names and the managed fields arrived?
  scorers,     \* scores whose list of names the edit form has
  obsOnly, selected,
  confirm,     \* confirmDeleteId
  busy,        \* deletingId, restoringId, exportingFormat
  edit,        \* EditCatalogModal
  create,      \* CreateCatalogModal
  jobs,        \* handlers that wait for a call
  staleTable, staleBanner, \* why they may differ from the catalog: history
  events       \* spent so far

table  == <<query, entries, error, fetching, loads>>
banner == <<all, alls>>
lists  == <<names, managed, scorers>>
picked == <<obsOnly, selected>>
forms  == <<confirm, busy, edit, create>>
stale  == <<staleTable, staleBanner>>
vars   == <<db, table, banner, lists, picked, forms, jobs, stale, events>>

Closed == [on |-> None, base |-> None, draft |-> None, saving |-> FALSE]

Load(kind, q, job) == [kind |-> kind, q |-> q, job |-> job, got |-> None]
All(job) == [job |-> job, newest |-> TRUE, got |-> None]

Init ==
  /\ db = Stored /\ query = First
  /\ entries = None /\ error = FALSE /\ fetching = TRUE
  /\ loads = {Load("effect", First, None)}
  /\ all = [rows |-> None, failed |-> FALSE] /\ alls = {All(None)}
  /\ names = FALSE /\ managed = FALSE /\ scorers = {}
  /\ obsOnly = FALSE /\ selected = {}
  /\ confirm = None /\ busy = [deleting |-> None, restoring |-> None, exporting |-> FALSE]
  /\ edit = Closed /\ create = [open |-> FALSE, saving |-> FALSE]
  /\ jobs = {}
  /\ staleTable = FALSE /\ staleBanner = FALSE
  /\ events = 0

-----------------------------------------------------------------------------
(* What the server answers and what the page shows.                        *)

\* list_catalog_entries
Matches(q, r) == r # None /\ (r.live \/ q \in WithDeleted) /\ r.data[Searched] \in Finds[q]
Listing(q) == [i \in Id |-> IF Matches(q, db[i]) THEN db[i] ELSE None]
Active     == [i \in Id |-> IF db[i] # None /\ db[i].live THEN db[i] ELSE None]

\* getObservations: deleted rows carry none, and a field whose list is still
\* to come is not looked up.
Observed(r, n) == r.live /\ \E f \in Field : (f \in Named => n) /\ r.data[f] \in Unlisted

\* visibleEntries
Shown(t, o, n) ==
  IF t = None THEN {} ELSE {i \in Id : t[i] # None /\ (o => Observed(t[i], n))}

Selectable(t, o, n) == {i \in Shown(t, o, n) : t[i].live}

\* Mutant: the selection is only cleared of what was deleted.
PruneDeleted(t, o, n) ==
  selected' = IF t = None THEN selected
              ELSE {i \in selected : t[i] # None => t[i].live}

\* The effect on visibleEntries.
Prune(t, o, n) ==
  selected' = IF t = None THEN selected ELSE selected \cap Selectable(t, o, n)

Room == Cardinality(loads) + Cardinality(alls) + Cardinality(jobs) <= MaxCalls
Event == events < MaxEvents /\ events' = events + 1
Act  == Event /\ Room

\* A dialog covers the page.
NoDialog == confirm = None /\ edit.on = None /\ ~create.open

-----------------------------------------------------------------------------
(* The table's loads.                                                      *)

\* Whoever waited for an aborted refetch goes on: its AbortError is swallowed.
Resumed(js, ls) ==
  {IF \E l \in ls : l.job = <<j.op, j.id>> THEN [j EXCEPT !.table = FALSE] ELSE j : j \in js}

\* Mutant: the previous request is not cancelled.
StartBeside(l, js) == loads' = loads \cup {l} /\ jobs' = js

\* A load starts: the one under way is aborted.
Start(l, js) == loads' = {l} /\ jobs' = Resumed(js, loads)

\* The effect on the debounced search, the filters and "Ver eliminados"; what
\* was typed settles 300 ms later, also under a dialog opened meanwhile.
SetQuery(q) ==
  /\ Room /\ q # query /\ query' = q
  /\ error' = FALSE /\ fetching' = TRUE
  /\ Start(Load("effect", q, None), jobs)
  /\ UNCHANGED <<db, entries, banner, lists, picked, forms, stale, events>>

\* The server reads; what it finds for the current query is up to date.
ServeLoad(l) ==
  /\ l \in loads /\ l.got = None
  /\ loads' = (loads \ {l}) \cup {[l EXCEPT !.got = Listing(l.q)]}
  /\ staleTable' = (staleTable /\ l.q # query)
  /\ UNCHANGED <<db, query, entries, error, fetching, banner, lists, picked, forms, jobs, staleBanner, events>>

\* A refetch may be one of the query its handler closed over.
LandLoad(l) ==
  /\ l \in loads /\ l.got # None
  /\ entries' = l.got /\ Prune(l.got, obsOnly, names)
  /\ fetching' = (fetching /\ l.kind # "effect")
  /\ loads' = loads \ {l} /\ jobs' = Resumed(jobs, {l})
  /\ staleTable' = (staleTable \/ (l.kind = "refetch" /\ l.q # query))
  /\ UNCHANGED <<db, query, error, banner, lists, obsOnly, forms, staleBanner, events>>

\* The effect says so above the table; a handler tells a toast and ends.
LoadFails(l) ==
  /\ Event /\ l \in loads
  /\ loads' = loads \ {l}
  /\ IF l.kind = "effect"
     THEN error' = TRUE /\ fetching' = FALSE /\ UNCHANGED <<jobs, staleTable>>
     ELSE /\ jobs' = {IF <<j.op, j.id>> = l.job THEN [j EXCEPT !.table = FALSE, !.banner = FALSE, !.failed = TRUE]
                      ELSE j : j \in jobs}
          /\ staleTable' = TRUE /\ UNCHANGED <<error, fetching>>
  /\ UNCHANGED <<db, query, entries, banner, lists, picked, forms, staleBanner>>

-----------------------------------------------------------------------------
(* The banner's loads.                                                     *)

\* loadAllEntries: a new request supersedes the others.
Supersede(job) == {[a EXCEPT !.newest = FALSE] : a \in alls} \cup {All(job)}

Counted(js, a) ==
  {IF <<j.op, j.id>> = a.job THEN [j EXCEPT !.banner = FALSE] ELSE j : j \in js}

ServeAll(a) ==
  /\ a \in alls /\ a.got = None
  /\ alls' = (alls \ {a}) \cup {[a EXCEPT !.got = Active]}
  /\ staleBanner' = (staleBanner /\ ~a.newest)
  /\ UNCHANGED <<db, table, all, lists, picked, forms, jobs, staleTable, events>>

\* Mutant: the last answer wins.
KeepAny(a) == all' = [rows |-> a.got, failed |-> FALSE]

\* An answer that was superseded is dropped.
KeepNewest(a) ==
  IF a.newest THEN all' = [rows |-> a.got, failed |-> FALSE] ELSE UNCHANGED all

LandAll(a) ==
  /\ a \in alls /\ a.got # None
  /\ KeepNewest(a)
  /\ alls' = alls \ {a} /\ jobs' = Counted(jobs, a)
  /\ UNCHANGED <<db, table, lists, picked, forms, stale, events>>

AllFails(a) ==
  /\ Event /\ a \in alls
  /\ all' = [all EXCEPT !.failed = @ \/ a.newest]
  /\ alls' = alls \ {a} /\ jobs' = Counted(jobs, a)
  /\ UNCHANGED <<db, table, lists, picked, forms, stale>>

\* The two effects that read the administrators, the managers and the fields
\* of the Excel; what fails stays unknown.
NamesArrive ==
  /\ ~names /\ names' = TRUE /\ Prune(entries, obsOnly, TRUE)
  /\ UNCHANGED <<db, table, banner, managed, scorers, obsOnly, forms, jobs, stale, events>>

ManagedArrive ==
  /\ ~managed /\ managed' = TRUE
  /\ UNCHANGED <<db, table, banner, names, scorers, picked, forms, jobs, stale, events>>

-----------------------------------------------------------------------------
(* Selection and export.                                                   *)

ToggleObservations ==
  /\ NoDialog /\ obsOnly' = ~obsOnly /\ Prune(entries, ~obsOnly, names)
  /\ UNCHANGED <<db, table, banner, lists, forms, jobs, stale, events>>

ToggleRow(i) ==
  /\ NoDialog /\ i \in Selectable(entries, obsOnly, names)
  /\ selected' = IF i \in selected THEN selected \ {i} ELSE selected \cup {i}
  /\ UNCHANGED <<db, table, banner, lists, obsOnly, forms, jobs, stale, events>>

\* "Seleccionar todo"
ToggleAll ==
  /\ NoDialog
  /\ LET s == Selectable(entries, obsOnly, names) IN
       Shown(entries, obsOnly, names) # {} /\ selected' = IF s # {} /\ s \subseteq selected THEN {} ELSE s
  /\ UNCHANGED <<db, table, banner, lists, obsOnly, forms, jobs, stale, events>>

\* A handler that runs, with the query its closure holds.
Job(op, i) ==
  [op |-> op, id |-> i, q |-> query, stage |-> "call", live |-> TRUE,
   table |-> FALSE, banner |-> FALSE, failed |-> FALSE, patch |-> None, touched |-> {}, refilled |-> {}]

\* handleExport, in either format: it takes what is selected now
PressExport ==
  /\ Act /\ NoDialog /\ selected # {} /\ ~busy.exporting
  /\ busy' = [busy EXCEPT !.exporting = TRUE]
  /\ jobs' = jobs \cup {[Job("export", None) EXCEPT !.touched = selected]}
  /\ UNCHANGED <<db, table, banner, lists, picked, confirm, edit, create, stale>>

\* The file, an error or no answer; the live rows among j.touched are in it.
Exported(j) ==
  /\ j \in jobs /\ j.op = "export" /\ jobs' = jobs \ {j}
  /\ busy' = [busy EXCEPT !.exporting = FALSE]
  /\ UNCHANGED <<db, table, banner, lists, picked, confirm, edit, create, stale, events>>

-----------------------------------------------------------------------------
(* Delete, restore and create: a call, then refreshAll.                    *)

\* Bound: one handler of a kind for an entry.
Free(op, i) == ~\E j \in jobs : j.op = op /\ j.id = i

OnRow(i) == NoDialog /\ i \in Shown(entries, obsOnly, names)

\* The bin, then "Cancelar"
AskDelete(i) ==
  /\ Room /\ OnRow(i) /\ entries[i].live /\ busy.deleting # i /\ confirm' = i
  /\ UNCHANGED <<db, table, banner, lists, picked, busy, edit, create, jobs, stale, events>>

CancelDelete ==
  /\ confirm # None /\ confirm' = None
  /\ UNCHANGED <<db, table, banner, lists, picked, busy, edit, create, jobs, stale, events>>

PressDelete ==
  /\ Act /\ confirm # None /\ Free("delete", confirm)
  /\ busy' = [busy EXCEPT !.deleting = confirm] /\ confirm' = None
  /\ jobs' = jobs \cup {Job("delete", confirm)}
  /\ UNCHANGED <<db, table, banner, lists, picked, edit, create, stale>>

PressRestore(i) ==
  /\ Act /\ OnRow(i) /\ ~entries[i].live /\ busy.restoring # i /\ Free("restore", i)
  /\ busy' = [busy EXCEPT !.restoring = i]
  /\ jobs' = jobs \cup {Job("restore", i)}
  /\ UNCHANGED <<db, table, banner, lists, picked, confirm, edit, create, stale>>

OpenCreate ==
  /\ Room /\ NoDialog /\ create' = [open |-> TRUE, saving |-> FALSE]
  /\ UNCHANGED <<db, table, banner, lists, picked, confirm, busy, edit, jobs, stale, events>>

\* The modal goes with its state; a call it made goes on.
CloseCreate ==
  /\ create.open /\ create' = [open |-> FALSE, saving |-> FALSE]
  /\ jobs' = {IF j.op = "create" THEN [j EXCEPT !.live = FALSE] ELSE j : j \in jobs}
  /\ UNCHANGED <<db, table, banner, lists, picked, confirm, busy, edit, stale, events>>

\* handleSave of CreateCatalogModal, past its checks
PressCreate(i, d) ==
  /\ Act /\ create.open /\ ~create.saving /\ Free("create", i) /\ db[i] = None /\ d \in Complete
  /\ create' = [create EXCEPT !.saving = TRUE]
  /\ jobs' = jobs \cup {[Job("create", i) EXCEPT !.patch = d]}
  /\ UNCHANGED <<db, table, banner, lists, picked, confirm, busy, edit, stale>>

\* Mutant: the banner is left to its next request.
RefreshTable(j, js) ==
  /\ Start(Load("refetch", j.q, <<j.op, j.id>>), js \cup {[j EXCEPT !.stage = "refresh", !.table = TRUE]})
  /\ UNCHANGED alls

\* refreshAll: both lists are read again
Refresh(j, js) ==
  /\ Start(Load("refetch", j.q, <<j.op, j.id>>),
           js \cup {[j EXCEPT !.stage = "refresh", !.table = TRUE, !.banner = TRUE]})
  /\ alls' = Supersede(<<j.op, j.id>>)

\* What the call of a handler does to the catalog.
Written(j) ==
  CASE j.op = "delete"  -> [db EXCEPT ![j.id] = [@ EXCEPT !.live = FALSE]]
    [] j.op = "restore" -> [db EXCEPT ![j.id] = [@ EXCEPT !.live = TRUE]]
    [] j.op = "create"  -> [db EXCEPT ![j.id] = [live |-> TRUE, data |-> j.patch]]

\* restore: only of a deleted row; create: 409 when another one made it first
Accepted(j) ==
  /\ j.op = "delete" => db[j.id] # None
  /\ j.op = "restore" => db[j.id] # None /\ ~db[j.id].live
  /\ j.op = "create" => db[j.id] = None

\* Restored and created rows are read again at once, a deleted one after
\* its 400 ms of fading.
Done(j) ==
  /\ j \in jobs /\ j.op \in {"delete", "restore", "create"} /\ j.stage = "call" /\ Accepted(j)
  /\ db' = Written(j)
  /\ IF j.op = "delete"
     THEN jobs' = (jobs \ {j}) \cup {[j EXCEPT !.stage = "pause"]} /\ UNCHANGED <<loads, alls>>
     ELSE Refresh(j, jobs \ {j})
  /\ UNCHANGED <<query, entries, error, fetching, all, lists, picked, forms, stale, events>>

Faded(j) ==
  /\ j \in jobs /\ j.stage = "pause" /\ Refresh(j, jobs \ {j})
  /\ UNCHANGED <<db, query, entries, error, fetching, all, lists, picked, forms, stale, events>>

\* Refused, lost on the way, or lost on the way back.
DoFails(j, stored) ==
  /\ j \in jobs /\ j.op \in {"delete", "restore", "create"} /\ j.stage = "call"
  /\ IF Accepted(j)
     THEN /\ Event
          /\ db' = IF stored THEN Written(j) ELSE db
          /\ staleTable' = (staleTable \/ stored) /\ staleBanner' = (staleBanner \/ stored)
     ELSE ~stored /\ UNCHANGED <<db, stale, events>>
  /\ jobs' = (jobs \ {j}) \cup {[j EXCEPT !.stage = "refresh", !.failed = TRUE]}
  /\ UNCHANGED <<table, banner, lists, picked, forms>>

\* Mutant: the flags are taken back where the handler went well.
ReleaseIfDone(j) ==
  IF j.failed THEN UNCHANGED <<busy, create>>
  ELSE IF j.op = "delete" THEN busy' = [busy EXCEPT !.deleting = None] /\ UNCHANGED create
  ELSE IF j.op = "restore" THEN busy' = [busy EXCEPT !.restoring = None] /\ UNCHANGED create
  ELSE create' = [open |-> FALSE, saving |-> FALSE] /\ UNCHANGED busy

\* The `finally` of each handler.  deletingId is one for all rows; a created
\* entry closes the modal that is open, the one it was made in or not.
Release(j) ==
  CASE j.op = "delete"  -> busy' = [busy EXCEPT !.deleting = None] /\ UNCHANGED create
    [] j.op = "restore" -> busy' = [busy EXCEPT !.restoring = None] /\ UNCHANGED create
    [] OTHER ->
         /\ create' = IF ~j.failed THEN [open |-> FALSE, saving |-> FALSE]
                      ELSE IF j.live THEN [create EXCEPT !.saving = FALSE] ELSE create
         /\ UNCHANGED busy

Finish(j) ==
  /\ j \in jobs /\ j.stage = "refresh" /\ ~j.table /\ ~j.banner
  /\ Release(j)
  /\ jobs' = {IF j.op = "create" /\ ~j.failed /\ k.op = "create" THEN [k EXCEPT !.live = FALSE] ELSE k
                : k \in jobs \ {j}}
  /\ UNCHANGED <<db, table, banner, lists, picked, confirm, edit, stale, events>>

-----------------------------------------------------------------------------
(* EditCatalogModal.                                                       *)

\* isFieldReadOnly
ReadOnly(f) == managed /\ edit.on \in Coded /\ f \in Managed

\* The name fixes the score, which is then not typed.
Fixed(s, d, known) == s \in known /\ d[NameOf[s]] \in DOMAIN Fixes[s]

\* prefillScore: a missing score is that of the name, once its list is there.
Prefilled(d, known) ==
  [f \in Field |-> IF f \in Scored /\ d[f] = NoScore /\ Fixed(f, d, known)
                   THEN Fixes[f][d[NameOf[f]]] ELSE d[f]]

\* The form is filled from the row that was shown.
OpenEdit(i) ==
  /\ Room /\ OnRow(i) /\ entries[i].live
  /\ edit' = [edit EXCEPT !.on = i, !.base = entries[i].data,
                          !.draft = Prefilled(entries[i].data, scorers)]
  /\ UNCHANGED <<db, table, banner, lists, picked, confirm, busy, create, jobs, stale, events>>

\* A list of the form arrives: the scores are filled again, whatever was typed.
ScoresArrive(s) ==
  /\ Room /\ s \notin scorers /\ scorers' = scorers \cup {s}
  /\ edit' = IF edit.on = None THEN edit
             ELSE [edit EXCEPT !.draft = [f \in Field |->
                     IF f \in Scored THEN Prefilled(edit.base, scorers')[f] ELSE edit.draft[f]]]
  /\ UNCHANGED <<db, table, banner, names, managed, picked, confirm, busy, create, jobs, stale, events>>

\* A name that is chosen brings the score it fixes; another one takes it away.
Brought(s, n) == IF s \in scorers /\ n \in DOMAIN Fixes[s] THEN Fixes[s][n] ELSE NoScore

TypeField(f, v) ==
  /\ Room /\ edit.on # None /\ ~ReadOnly(f) /\ edit.draft[f] # v
  /\ f \in Scored => ~Fixed(f, edit.draft, scorers)
  /\ edit' = [edit EXCEPT !.draft = [g \in Field |->
       IF g = f THEN v
       ELSE IF g \in Scored /\ NameOf[g] = f THEN Brought(g, v)
       ELSE edit.draft[g]]]
  /\ UNCHANGED <<db, table, banner, lists, picked, confirm, busy, create, jobs, stale, events>>

CloseForm == edit' = [Closed EXCEPT !.saving = edit.saving]

CloseEdit ==
  /\ edit.on # None /\ CloseForm
  /\ UNCHANGED <<db, table, banner, lists, picked, confirm, busy, create, jobs, stale, events>>

\* What a field is sent as: texts lose the blanks around them.
Sent(f) == IF f \in Scored THEN edit.draft[f] ELSE Trimmed[edit.draft[f]]

\* What differs from the row the form was opened on; a name takes its score
\* along.
TextEdits == {f \in Field \ Scored : ~ReadOnly(f) /\ Sent(f) # edit.base[f]}
Edits == TextEdits \cup {s \in Scored : NameOf[s] \in TextEdits \/ Sent(s) # edit.base[s]}

\* Mutant: the form is sent whole.
PatchWhole == edit.draft

\* The PATCH of handleSave: the fields that changed.
Patch == [f \in Edits |-> Sent(f)]

\* Of which the administrator typed some ...
WithScores(fs) == fs \cup {s \in Scored : NameOf[s] \in fs}
Touched ==
  WithScores({f \in Field : edit.draft[f] # Prefilled(edit.base, scorers)[f]})

\* ... and the form changed others by itself: a missing score that the list
\* gives, and a text with blanks around it.
Refilled ==
  WithScores({f \in Field : IF f \in Scored THEN Prefilled(edit.base, scorers)[f] # edit.base[f]
                            ELSE Trimmed[edit.base[f]] # edit.base[f]})

\* The checks of the form, which spare what is read-only.
Valid == \E d \in Complete : \A f \in Field : ReadOnly(f) \/ d[f] = Sent(f)

\* handleSave: nothing changed, it closes; else it waits for the answer.
PressSave ==
  /\ edit.on # None /\ ~edit.saving /\ Valid
  /\ IF Edits = {}
     THEN CloseForm /\ UNCHANGED <<jobs, events>>
     ELSE /\ Act /\ Free("edit", edit.on)
          /\ edit' = [edit EXCEPT !.saving = TRUE]
          /\ jobs' = jobs \cup {[Job("edit", edit.on) EXCEPT !.patch = Patch, !.touched = Touched, !.refilled = Refilled]}
  /\ UNCHANGED <<db, table, banner, lists, picked, confirm, busy, create, stale>>

\* CatalogRepository.update: a null is not written.
Patched(j) ==
  [db EXCEPT ![j.id].data = [f \in Field |->
     IF f \in DOMAIN j.patch /\ (f \in Scored => j.patch[f] # NoScore) THEN j.patch[f] ELSE db[j.id].data[f]]]

\* handleUpdated: the row is replaced where it stands, whatever the query;
\* a load that read the old row may still put it back.
SavedEdit(j) ==
  /\ j \in jobs /\ j.op = "edit" /\ db[j.id] # None
  /\ db' = Patched(j)
  /\ LET row == db'[j.id]
         t == IF entries # None /\ entries[j.id] # None THEN [entries EXCEPT ![j.id] = row] ELSE entries
     IN /\ entries' = t /\ Prune(t, obsOnly, names)
        /\ staleTable' = (\/ staleTable \/ \E l \in loads : l.got # None
                          \/ t # None /\ (t[j.id] # None) # Matches(query, row))
  /\ alls' = Supersede(None)
  /\ edit' = Closed
  /\ jobs' = jobs \ {j}
  /\ UNCHANGED <<query, error, fetching, loads, all, lists, obsOnly, confirm, busy, create, staleBanner, events>>

\* The error shows in the form that is open by then.
EditFails(j, stored) ==
  /\ j \in jobs /\ j.op = "edit" /\ Event
  /\ db' = IF stored THEN Patched(j) ELSE db
  /\ staleTable' = (staleTable \/ stored) /\ staleBanner' = (staleBanner \/ stored)
  /\ edit' = [edit EXCEPT !.saving = FALSE]
  /\ jobs' = jobs \ {j}
  /\ UNCHANGED <<table, banner, lists, picked, confirm, busy, create>>

-----------------------------------------------------------------------------
(* The sync and the other administrators.                                  *)
Elsewhere(i, r) ==
  /\ Event
  /\ db[i] # None /\ db[i] # r
  /\ db' = [db EXCEPT ![i] = r]
  /\ staleTable' = TRUE /\ staleBanner' = TRUE
  /\ UNCHANGED <<table, banner, lists, picked, forms, jobs>>

Administrator ==
  \/ \E q \in Query : SetQuery(q)
  \/ ToggleObservations \/ ToggleAll \/ PressExport
  \/ CancelDelete \/ PressDelete \/ OpenCreate \/ CloseCreate \/ CloseEdit \/ PressSave
  \/ \E i \in Id : ToggleRow(i) \/ AskDelete(i) \/ PressRestore(i) \/ OpenEdit(i)
  \/ \E i \in Id, d \in Data : PressCreate(i, d)
  \/ \E f \in Field, v \in Inputs : TypeField(f, v)

Network ==
  \/ NamesArrive \/ ManagedArrive \/ \E s \in Scored : ScoresArrive(s)
  \/ \E l \in loads : ServeLoad(l) \/ LandLoad(l) \/ LoadFails(l)
  \/ \E a \in alls : ServeAll(a) \/ LandAll(a) \/ AllFails(a)
  \/ \E j \in jobs :
       \/ Exported(j) \/ Done(j) \/ Faded(j) \/ Finish(j) \/ SavedEdit(j)
       \/ \E b \in BOOLEAN : DoFails(j, b) \/ EditFails(j, b)

Others == \E i \in Id, r \in Incoming : Elsewhere(i, r)

Next == Administrator \/ Network \/ Others

Spec == Init /\ [][Next]_vars

-----------------------------------------------------------------------------
(* Properties.                                                             *)

\* The page's state, the catalog and every call have their types, and one
\* load of the table is under way at most.
TypeOK ==
  /\ db \in Listings /\ query \in Query
  /\ entries \in Listings \cup {None}
  /\ scorers \subseteq Scored
  /\ {error, fetching, names, managed, obsOnly, staleTable, staleBanner} \subseteq BOOLEAN
  /\ Cardinality(loads) <= 1
  /\ \A l \in loads : l.kind \in {"effect", "refetch"} /\ l.q \in Query /\ l.got \in Listings \cup {None}
  /\ all.rows \in Listings \cup {None} /\ all.failed \in BOOLEAN
  /\ \A a \in alls : a.newest \in BOOLEAN /\ a.got \in Listings \cup {None}
  /\ selected \subseteq Id /\ confirm \in Id \cup {None}
  /\ busy \in [deleting : Id \cup {None}, restoring : Id \cup {None}, exporting : BOOLEAN]
  /\ edit.on \in Id \cup {None} /\ {edit.base, edit.draft} \subseteq Data \cup {None} /\ edit.saving \in BOOLEAN
  /\ create \in [open : BOOLEAN, saving : BOOLEAN]
  /\ \A j \in jobs : j.op \in {"delete", "restore", "create", "edit", "export"} /\ j.id \in Id \cup {None}
  /\ events \in 0 .. MaxEvents

Quiet == jobs = {} /\ loads = {}

\* At rest the table holds what the server has for the query above it: every
\* create, delete and restore reads it again, and a superseded answer never
\* lands (refetchCatalog, the load effect and abortRef of page.tsx).
\* staleTable names what breaks it: others' writes, a lost answer, an edit
\* beside a load or out of the query, a refetch of the query that was left.
TableIsQuery ==
  (Quiet /\ ~error /\ ~staleTable) => entries = Listing(query)

\* The banner counts the catalog as it is, whatever the order of the answers
\* (allEntriesRequestRef); others' writes and lost answers apart.
BannerIsCatalog ==
  (jobs = {} /\ alls = {} /\ ~all.failed /\ ~staleBanner) => all.rows = Active

\* At rest the page shows the catalog, in its table and in its banner.
PageIsTrue == TableIsQuery /\ BannerIsCatalog

\* An export holds no entry that the administrator does not see, nor a
\* deleted one: the selection follows search, filters and edits (ADR-7).
SelectionIsVisible == selected \subseteq Selectable(entries, obsOnly, names)

\* A row that is being deleted or restored and a form that is being saved
\* have a handler that will release them, also when a load was aborted.
ButtonsComeBack ==
  /\ busy.deleting # None => \E j \in jobs : j.op = "delete"
  /\ busy.restoring # None => \E j \in jobs : j.op = "restore"
  /\ busy.exporting => \E j \in jobs : j.op = "export"
  /\ create.saving => \E j \in jobs : j.op = "create" /\ j.live
  /\ edit.saving => \E j \in jobs : j.op = "edit"

\* What another writer put in a field stays, unless this administrator changed
\* that very field in the form, or the form did: it fills in a missing score
\* of a name that fixes it, and takes the blanks from around a text
\* (handleSave sends what differs from the row the form was opened on).
EditsKeepOthers ==
  [][\A j \in jobs : SavedEdit(j) =>
       \A f \in Field \ (j.touched \cup j.refilled) : db'[j.id].data[f] = db[j.id].data[f]]_vars

\* Without that exception it is false of the code: a score another writer gave
\* meanwhile is overwritten with the one the form filled in.
OnlyTypedIsWritten ==
  [][\A j \in jobs : SavedEdit(j) =>
       \A f \in Field \ j.touched : db'[j.id].data[f] = db[j.id].data[f]]_vars
=============================================================================
