---------------------------- MODULE NormalizedPage ----------------------------
(***************************************************************************)
(* The page of the normalized catalog: the list with its search, the       *)
(* detail of the selected product, the observations, the forms for a       *)
(* product, a series and an administrator, and the dialog that deletes one *)
(* (app/admin/catalogo-normalizado/page.tsx and the forms of               *)
(* components/admin/catalog-normalized), over what                         *)
(* db/catalog_normalized.py does with each call.                           *)
(*                                                                         *)
(* A row is named by its path: <<code>>, <<code, series>> or <<code,       *)
(* series, administrator>>; a row that is created again after it was       *)
(* deleted is the same row, as it is in the tables.  A row holds one       *)
(* value.  What is typed in a form is chosen when it is sent.              *)
(*                                                                         *)
(* A handler that awaits several calls is a task that goes through its     *)
(* steps; a read is served in one step and answered in another.  Nobody    *)
(* else changes the catalog meanwhile, the name of a product never makes   *)
(* it leave a search, and a 401, which leaves the page, is left out.       *)
(***************************************************************************)
EXTENDS Integers, Sequences, FiniteSets, SequencesExt, Functions, TLC

CONSTANTS
  Codes, Series, Admins, \* the names a form may use
  Value,     \* values that may be typed
  Blank,     \* no value, or the blank name the workbook gives a series
  Terms,     \* search terms -> the codes they match
  Stored,    \* the rows at first: path -> value
  None,
  MaxTasks,  \* bound on the tasks a click may find under way
  MaxWrites, \* bound on the rows written here
  MaxFaults

\* What a row may be named, what it may hold, and what the list may be.
Labels == Codes \cup Series \cup Admins \cup {Blank} \cup UNION {Range(n) : n \in DOMAIN Stored}
Held   == Value \cup {Blank} \cup Range(Stored)
Lists  == UNION {[S -> Held] : S \in SUBSET {<<c>> : c \in Labels}}

PageAssumption ==
  /\ MaxTasks \in Nat /\ MaxWrites \in Nat /\ MaxFaults \in Nat
  /\ Stored \in [DOMAIN Stored -> Held]
  /\ \A n \in DOMAIN Stored : n \in Seq(Labels) /\ Len(n) > 0 /\ (Len(n) > 1 => Front(n) \in DOMAIN Stored)
  /\ {None, "keep"} \cap Labels = {} /\ None \notin {"keep", "edit", "create"}
  /\ None \notin Lists /\ "" \in DOMAIN Terms

VARIABLES
  val,          \* the active rows of the server
  term,         \* debouncedSearch
  products,     \* the list shown, or None
  fetching,     \* isFetching
  listError,
  selected,     \* selectedCode
  detail,       \* [code, rows]
  detailError,
  observations, \* <<path, issue>>
  modal,        \* the form
  dialog,       \* deleteTarget
  deleting,     \* isDeleting
  tasks,        \* the handlers under way
  clouded,      \* history: panes whose last word was not the server's
  spent         \* [writes, faults]

master == <<term, products, fetching, listError>>
pane   == <<selected, detail, detailError>>
forms  == <<modal, dialog, deleting>>
vars   == <<val, master, pane, observations, forms, tasks, clouded, spent>>

Level(n) == Len(n)
Under(n, m) == IsPrefix(n, m)

\* list_products, get_product_detail and catalog_observations
ListOf(t)   == Restrict(val, {n \in DOMAIN val : Level(n) = 1 /\ n[1] \in Terms[t]})
DetailOf(c) == [code |-> c, rows |-> Restrict(val, {n \in DOMAIN val : n[1] = c})]
Issues ==
  {<<n, "empty">> : n \in {m \in DOMAIN val : val[m] = Blank \/ Last(m) = Blank}}
    \cup {<<n, "no_children">> : n \in {m \in DOMAIN val : Level(m) < 3 /\ ~\E k \in DOMAIN val : Front(k) = m}}

NoModal  == [mode |-> None, path |-> <<>>, busy |-> FALSE]
NoDetail == [code |-> None, rows |-> <<>>]

\* A step of a task: a call, and what is selected when its answer comes.
Step(op, path, then) == [op |-> op, path |-> path, value |-> None, then |-> then]
Writes(op, path, v, then) == [Step(op, path, then) EXCEPT !.value = v]
Task(kind, steps) == [kind |-> kind, steps |-> steps, got |-> None, own |-> TRUE]
ReadList(t)   == Step("list", <<t>>, "keep")
ReadDetail(c) == Step("detail", <<c>>, "keep")
ReadObs       == Step("obs", <<>>, "keep")
LoadList(t)   == Task("list", <<ReadList(t)>>)
LoadDetail(c) == Task("detail", <<ReadDetail(c)>>)

\* What a read brings.
Answer(ok, rows, issues) == [ok |-> ok, rows |-> rows, issues |-> issues]

Init ==
  /\ val = Stored /\ term = "" /\ products = None /\ fetching = TRUE /\ listError = FALSE
  /\ selected = None /\ detail = NoDetail /\ detailError = FALSE /\ observations = {}
  /\ modal = NoModal /\ dialog = None /\ deleting = FALSE
  /\ tasks = {LoadList(""), Task("obs", <<ReadObs>>)}
  /\ clouded = {} /\ spent = [writes |-> 0, faults |-> 0]

-----------------------------------------------------------------------------
(* The administrator.                                                      *)

\* The forms of a series and of an administrator need a detail to be on.
ModalShown == modal.mode # None /\ (Level(modal.path) > 1 => detail # NoDetail)
Clear == ~ModalShown /\ dialog = None
Shown == selected # None /\ detail # NoDetail
Room  == Cardinality(tasks) <= MaxTasks

\* The effect of debouncedSearch, which may come when a form is open by then:
\* the load before is aborted.
SetTerm(t) ==
  /\ Room /\ t # term /\ term' = t /\ fetching' = TRUE /\ listError' = FALSE
  /\ tasks' = {x \in tasks : x.kind # "list"} \cup {LoadList(t)}
  /\ UNCHANGED <<val, products, pane, observations, forms, clouded, spent>>

\* A form whose detail goes is unmounted, and starts anew with the next one;
\* what it had sent goes on.
Disowned(ts) == {[x EXCEPT !.own = FALSE] : x \in ts}
Unmounts(ts) ==
  IF detail' = NoDetail /\ Level(modal.path) > 1
  THEN modal' = [modal EXCEPT !.busy = FALSE] /\ tasks' = Disowned(ts)
  ELSE UNCHANGED modal /\ tasks' = ts

\* setSelectedCode and its effect, among the tasks ts.
Selects(s, ts) ==
  IF s = "keep" \/ s = selected
  THEN UNCHANGED <<pane, modal>> /\ tasks' = ts
  ELSE /\ selected' = s
       /\ detail' = IF s = None THEN NoDetail ELSE detail
       /\ detailError' = IF s = None THEN detailError ELSE FALSE
       /\ Unmounts({x \in ts : x.kind # "detail"} \cup (IF s = None THEN {} ELSE {LoadDetail(s)}))

Select(c) ==
  /\ Clear /\ Room /\ products # None /\ <<c>> \in DOMAIN products /\ c # selected
  /\ Selects(c, tasks)
  /\ UNCHANGED <<val, master, observations, dialog, deleting, clouded, spent>>

Opens(mode, path) ==
  /\ Clear /\ modal' = [mode |-> mode, path |-> path, busy |-> FALSE]
  /\ UNCHANGED <<val, master, pane, observations, dialog, deleting, tasks, clouded, spent>>

OpenNewProduct == Opens("create", <<Blank>>)
OpenEdit(n)    == Shown /\ n \in DOMAIN detail.rows /\ Opens("edit", n)
OpenAdd(n)     == Shown /\ n \in DOMAIN detail.rows /\ Level(n) < 3 /\ Opens("create", Append(n, Blank))

\* onClose of ModalShell; a submit under way goes on.
CloseModal ==
  /\ ModalShown /\ modal' = NoModal /\ tasks' = Disowned(tasks)
  /\ UNCHANGED <<val, master, pane, observations, dialog, deleting, clouded, spent>>

\* The fields of the three forms: the name of what is new, which goes under
\* the product that is shown by now, and a value.
Name(l) == CASE l = 1 -> Codes [] l = 2 -> Series [] OTHER -> Admins
Target(k) ==
  LET p == modal.path IN
  IF modal.mode = "edit" THEN p
  ELSE IF Level(p) = 1 THEN <<k>> ELSE <<detail.code>> \o Tail(Front(p)) \o <<k>>
Typed == Value \cup {Blank}

\* refetchDetail
Refetch ==
  (IF selected = None THEN <<>> ELSE <<ReadDetail(selected)>>) \o <<ReadObs>>

\* Mutant: a product that was saved is not selected.
SavedInPlace(n) == <<ReadList(term), ReadObs>>

\* handleProductSaved, and onSaved of the other two forms
Saved(n) ==
  IF Level(n) > 1 THEN Refetch
  ELSE IF n[1] = selected THEN <<ReadList(term)>> \o Refetch
  ELSE <<Step("list", <<term>>, n[1]), ReadObs>>

\* A blank name holds the button back, also of a series that has none.
Submit(k, v) ==
  /\ ModalShown /\ ~modal.busy /\ Room /\ spent.writes < MaxWrites
  /\ k \in Name(Level(modal.path)) /\ Last(Target(k)) # Blank
  /\ modal' = [modal EXCEPT !.busy = TRUE]
  /\ tasks' = tasks \cup {Task("save", <<Writes(modal.mode, Target(k), v, "keep")>> \o Saved(Target(k)))}
  /\ spent' = [spent EXCEPT !.writes = @ + 1]
  /\ UNCHANGED <<val, master, pane, observations, dialog, deleting, clouded>>

OpenDelete(n) ==
  /\ Clear /\ Shown /\ n \in DOMAIN detail.rows /\ dialog' = n
  /\ UNCHANGED <<val, master, pane, observations, modal, deleting, tasks, clouded, spent>>
Cancel ==
  /\ dialog # None /\ dialog' = None
  /\ UNCHANGED <<val, master, pane, observations, modal, deleting, tasks, clouded, spent>>

\* Mutant: a product that was deleted stays selected.
DeletedInPlace(n) == <<Step("delete", n, "keep")>> \o Refetch

\* handleConfirmDelete
Deletion(n) ==
  IF Level(n) = 1
  THEN <<Step("delete", n, None), ReadList(term), ReadObs>>
  ELSE <<Step("delete", n, "keep")>> \o Refetch

ConfirmDelete ==
  /\ dialog # None /\ ~deleting /\ Room /\ spent.writes < MaxWrites
  /\ deleting' = TRUE /\ tasks' = tasks \cup {Task("delete", Deletion(dialog))}
  /\ spent' = [spent EXCEPT !.writes = @ + 1]
  /\ UNCHANGED <<val, master, pane, observations, modal, dialog, clouded>>

-----------------------------------------------------------------------------
(* The server.                                                             *)

\* update_*: a number that is null is not written, a text that is blank is.
Update(n, v) == IF v = Blank /\ Level(n) > 1 THEN val ELSE [val EXCEPT ![n] = v]

\* 404 for a row or a parent that is not there, 409 for one that is.
Accepts(op, n) ==
  IF op = "create" THEN n \notin DOMAIN val /\ (Level(n) = 1 \/ Front(n) \in DOMAIN val)
  ELSE n \in DOMAIN val

\* delete_* takes what is under the row along.
After(op, n, v) ==
  CASE op = "create" -> [m \in DOMAIN val \cup {n} |-> IF m = n THEN v ELSE val[m]]
    [] op = "edit"   -> Update(n, v)
    [] OTHER         -> Restrict(val, {m \in DOMAIN val : ~Under(n, m)})

Reads == {"list", "detail", "obs"}

\* A product that is gone answers 404.
Result(s) ==
  CASE s.op = "list"   -> Answer(TRUE, ListOf(s.path[1]), {})
    [] s.op = "obs"    -> Answer(TRUE, <<>>, Issues)
    [] s.op = "detail" -> Answer(s.path \in DOMAIN val, DetailOf(s.path[1]).rows, {})

Serve(x) ==
  LET s == Head(x.steps) IN
  /\ s.op \in Reads /\ x.got = None
  /\ tasks' = (tasks \ {x}) \cup {[x EXCEPT !.got = Result(s)]}
  /\ UNCHANGED <<val, master, pane, observations, forms, clouded, spent>>

\* The task goes on; after its last step its form or its dialog is closed,
\* whichever that is by now.
Done(x) == Len(x.steps) = 1
Rest(x) ==
  IF ~Done(x) THEN (tasks \ {x}) \cup {[x EXCEPT !.steps = Tail(@), !.got = None]}
  ELSE IF x.kind = "save" THEN Disowned(tasks \ {x})
  ELSE tasks \ {x}

\* Mutant: the failure of the load of a detail is not shown.
DropsError(x) == UNCHANGED <<listError, fetching, products>> /\ detail' = NoDetail /\ detailError' = detailError

\* The catch of the two effects.
ShowsError(x) ==
  IF x.kind = "list" THEN listError' = TRUE /\ fetching' = FALSE /\ UNCHANGED <<products, detail, detailError>>
  ELSE detail' = NoDetail /\ detailError' = TRUE /\ UNCHANGED <<listError, fetching, products>>

\* A step fails: the rest of the task is not done.
Fails(x) ==
  /\ UNCHANGED <<term, selected, observations>>
  /\ IF x.kind \in {"list", "detail"} THEN ShowsError(x) ELSE UNCHANGED <<listError, fetching, products, detail, detailError>>
  /\ IF x.kind = "save" /\ x.own
     THEN modal' = [modal EXCEPT !.busy = FALSE] /\ tasks' = tasks \ {x}
     ELSE Unmounts(tasks \ {x})
  /\ IF x.kind = "delete" THEN dialog' = None /\ deleting' = FALSE ELSE UNCHANGED <<dialog, deleting>>
Undone(x) ==
  ({s.op : s \in ToSet(x.steps)} \cap Reads)
    \cup (IF \E s \in ToSet(x.steps) : s.then # "keep" THEN {"detail"} ELSE {})

\* A row of the product shown, sent when no product was selected, is written,
\* and no load of the detail follows (the closure of refetchDetail).
Unread(x) ==
  LET s == Head(x.steps) IN
  Level(s.path) > 1 /\ s.path[1] = selected /\ \A y \in ToSet(x.steps) : y.op # "detail"

\* A row is written.
Written(x) ==
  LET s == Head(x.steps) IN
  /\ s.op \notin Reads /\ Accepts(s.op, s.path) /\ val' = After(s.op, s.path, s.value)
  /\ Selects(s.then, Rest(x))
  /\ clouded' = IF Unread(x) THEN clouded \cup {"detail"} ELSE clouded
  /\ UNCHANGED <<master, observations, dialog, deleting, spent>>

Refused(x) ==
  LET s == Head(x.steps) IN
  /\ s.op \notin Reads /\ ~Accepts(s.op, s.path) /\ Fails(x) /\ UNCHANGED <<val, clouded, spent>>

\* After its last step a save closes the form and a deletion the dialog.
Finishes(x) ==
  /\ modal' = IF Done(x) /\ x.kind = "save" THEN NoModal ELSE modal
  /\ IF Done(x) /\ x.kind = "delete" THEN dialog' = None /\ deleting' = FALSE ELSE UNCHANGED <<dialog, deleting>>

ReceiveList(x) ==
  LET s == Head(x.steps) IN
  /\ s.op = "list" /\ x.got # None
  /\ products' = x.got.rows /\ fetching' = (fetching /\ x.kind # "list")
  /\ Selects(s.then, Rest(x))
  /\ clouded' = (clouded \ {"list"})
       \cup (IF x.got.rows = ListOf(term) THEN {} ELSE {"list"})
       \cup (IF s.then = selected THEN {"detail"} ELSE {})
  /\ UNCHANGED <<val, term, listError, observations, dialog, deleting, spent>>

ReceiveDetail(x) ==
  LET s == Head(x.steps) IN
  /\ s.op = "detail" /\ x.got # None /\ x.got.ok
  /\ detail' = [code |-> s.path[1], rows |-> x.got.rows]
  /\ tasks' = Rest(x) /\ Finishes(x)
  /\ clouded' = IF selected = s.path[1] /\ detail' = DetailOf(selected) THEN clouded \ {"detail"} ELSE clouded \cup {"detail"}
  /\ UNCHANGED <<val, master, selected, detailError, observations, spent>>

\* A load of the observations that fails changes nothing and stops nothing.
ReceiveObs(x) ==
  LET s == Head(x.steps) IN
  /\ s.op = "obs" /\ x.got # None /\ tasks' = Rest(x) /\ Finishes(x)
  /\ \/ /\ observations' = x.got.issues /\ UNCHANGED spent
        /\ clouded' = IF x.got.issues = Issues THEN clouded \ {"obs"} ELSE clouded \cup {"obs"}
     \/ /\ spent.faults < MaxFaults /\ spent' = [spent EXCEPT !.faults = @ + 1]
        /\ clouded' = clouded \cup {"obs"} /\ UNCHANGED observations
  /\ UNCHANGED <<val, master, pane>>

\* The product is not there any more.
NotFound(x) ==
  /\ x.got # None /\ ~x.got.ok /\ Fails(x) /\ clouded' = clouded \cup Undone(x)
  /\ UNCHANGED <<val, spent>>

\* No answer; a write may have been done all the same.
Lost(x) ==
  LET s == Head(x.steps) IN
  /\ spent.faults < MaxFaults /\ spent' = [spent EXCEPT !.faults = @ + 1]
  /\ s.op # "obs" /\ Fails(x)
  /\ clouded' = clouded \cup (IF s.op \in Reads THEN Undone(x) ELSE Reads)
  /\ val' \in {val} \cup (IF s.op \notin Reads /\ Accepts(s.op, s.path) THEN {After(s.op, s.path, s.value)} ELSE {})

User ==
  \/ OpenNewProduct \/ CloseModal \/ Cancel \/ ConfirmDelete
  \/ \E t \in DOMAIN Terms : SetTerm(t)
  \/ products # None /\ \E n \in DOMAIN products : Select(n[1])
  \/ Shown /\ \E n \in DOMAIN detail.rows : OpenEdit(n) \/ OpenAdd(n) \/ OpenDelete(n)
  \/ \E k \in Codes \cup Series \cup Admins, v \in Typed : Submit(k, v)

Server ==
  \E x \in tasks : \/ Serve(x) \/ Written(x) \/ Refused(x) \/ NotFound(x) \/ Lost(x)
                    \/ ReceiveList(x) \/ ReceiveDetail(x) \/ ReceiveObs(x)

Next == User \/ Server
Spec == Init /\ [][Next]_vars

-----------------------------------------------------------------------------
(* Properties.                                                             *)

\* The rows form trees, on the server and in the detail, and what is open or
\* waits is of its kind.
TypeOK ==
  /\ \A n \in DOMAIN val : Level(n) > 1 => Front(n) \in DOMAIN val
  /\ \A n \in DOMAIN detail.rows : n[1] = detail.code /\ (Level(n) > 1 => Front(n) \in DOMAIN detail.rows)
  /\ modal.mode \in {None, "edit", "create"} /\ (modal.mode = None => modal = NoModal)
  /\ deleting \in BOOLEAN /\ fetching \in BOOLEAN
  /\ clouded \subseteq Reads /\ spent.writes \in 0 .. MaxWrites

\* When nothing is under way the page shows what the server has: the list of
\* the search that is on, the detail of the product that is selected, and the
\* observations, after any sequence of searches, selections, saves and
\* deletions.  A pane is apart whose last word was a failure or an answer to an
\* earlier question, and the detail that a form changed whose product was not
\* selected when it was sent.
SettledShowsServer ==
  tasks = {} =>
    /\ "list" \in clouded \/ products = ListOf(term)
    /\ "obs" \in clouded \/ observations = Issues
    /\ "detail" \in clouded \/ selected = None \/ detailError \/ detail = DetailOf(selected)

\* Whatever waits has a task to wait for: the spinner of the search, a form
\* that is being saved, a deletion, and a pane that says "Cargando".
WaitingHasTask ==
  /\ fetching \/ (products = None /\ ~listError) => \E x \in tasks : x.kind = "list"
  /\ modal.busy => \E x \in tasks : x.kind = "save" /\ x.own
  /\ deleting => \E x \in tasks : x.kind = "delete"
  /\ (selected # None /\ detail = NoDetail /\ ~detailError)
       => \E x \in tasks : \E s \in ToSet(x.steps) : s = ReadDetail(selected)

\* The page comes to rest on what the server has.
PageSettles == SettledShowsServer /\ WaitingHasTask
=============================================================================
