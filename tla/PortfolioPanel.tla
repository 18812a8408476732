--------------------------- MODULE PortfolioPanel ---------------------------
(***************************************************************************)
(* The client's portfolio panel (PortfolioPanel.tsx): the cards, the       *)
(* product modal, "Guardar version" and the two hooks that feed them,      *)
(* beside a chat whose agent edits the same portfolio.                     *)
(*                                                                         *)
(* A write is served and answered in one step; a read is served in one     *)
(* step and answered in another, and answers come in any order.  What a    *)
(* product holds is one value of Content.  A 401 leads to the login page,  *)
(* which ends the panel: AuthSessions models it.                           *)
(***************************************************************************)
EXTENDS FiniteSets, Integers

CONSTANTS
  Id, Content,
  ClassOf,     \* content -> the asset class with its largest share
  Complete,    \* contents the form of the modal accepts
  Kept,        \* content -> what a version keeps of it: all but isin and distribution
  Stored,      \* what the portfolio holds when the page opens
  None, Gone, New,
  Tab,         \* the tabs that are used
  Versioned,   \* does the last version hold Stored, or is there none?
  MaxTurns,    \* bound on the agent's turns
  MaxActs,     \* bound on the client's and the agent's writes
  MaxCalls,    \* bound on the calls in flight when the client acts
  MaxFaults    \* bound on calls that fail or lose their answer

Lists == [Id -> Content \cup {None}]

ASSUME PanelAssumption ==
  /\ Complete \subseteq Content /\ "todos" \in Tab
  /\ Stored \in [Id -> Content \cup {None}] /\ Kept \in [Content -> Content]
  /\ {None, Gone} \cap Content = {} /\ None # Gone
  /\ {None, New} \cap Id = {} /\ None # New /\ None \notin Lists \cup {"yes", "no"}
  /\ Versioned \in BOOLEAN /\ MaxTurns \in Nat /\ MaxActs \in Nat /\ MaxCalls \in Nat /\ MaxFaults \in Nat

VARIABLES
  rows,        \* products: the client's rows; a deleted id does not come back
  newest,      \* what the last version holds, None before the first
  turn,        \* the agent's turn: is it streamed, or cut off and still running
  shown,       \* products of usePortfolio
  loading, error,
  tab,         \* activeAssetClass
  card,        \* per product: ProductCard's mode, "hidden" while isDeleting
  modal,       \* EditProductModal: the product it is open on, isSaving
  snap,        \* SnapshotModal: isOpen, isSaving
  hasChanges,  \* of usePortfolioVersioning
  calls,       \* requests in flight
  byHand,      \* an edit by modal or card since the last has-changes: history
  excused,     \* an answer was lost, or came after a later one: history
  turns, acts, faults \* spent so far

server == <<rows, newest, turn>>
list   == <<shown, loading, error>>
forms  == <<card, modal, snap>>
spent  == <<turns, acts, faults>>
vars == <<server, list, tab, forms, hasChanges, calls, byHand, excused, spent>>

Listing == [i \in Id |-> IF rows[i] \in Content THEN rows[i] ELSE None]
Nothing == [i \in Id |-> None]

\* A list as a version keeps it: _row_to_product of versioning.py.
AsVersion(s) == [i \in Id |-> IF s[i] = None THEN None ELSE Kept[s[i]]]

\* What a version taken now would hold.
NextVersion == AsVersion(Listing)

\* current_products == prev_products
Unchanged == newest # None /\ newest = NextVersion

\* What is in flight.  `at` is the place of a read among those served.
Fetch(t)      == [op |-> "fetch", then |-> t, got |-> None, at |-> 0, late |-> FALSE]
Check(t, a)   == [op |-> "check", then |-> t, live |-> a, got |-> None, at |-> 0, late |-> FALSE]
Save(i, v)    == [op |-> "save", id |-> i, v |-> v]
Delete(i)     == [op |-> "delete", id |-> i]
Snapshot(a)   == [op |-> "snapshot", live |-> a]
Versions(a)   == [op |-> "versions", live |-> a]

Init ==
  /\ rows = Stored /\ newest = (IF Versioned THEN AsVersion(Stored) ELSE None) /\ turn = "none"
  /\ shown = Nothing /\ loading = TRUE /\ error = FALSE
  /\ tab = "todos" /\ card = [i \in Id |-> "view"]
  /\ modal = [on |-> None, saving |-> FALSE]
  /\ snap = [open |-> FALSE, saving |-> FALSE]
  /\ hasChanges = TRUE
  /\ calls = {Fetch("none"), Check("none", FALSE)}  \* the effects of the mount
  /\ byHand = FALSE /\ excused = FALSE
  /\ turns = 0 /\ acts = 0 /\ faults = 0

-----------------------------------------------------------------------------
(* What the panel shows.                                                   *)

\* isInitialLoading, isEmpty
View(l, s) == IF s # Nothing THEN "list" ELSE IF l THEN "loading" ELSE "empty"

\* productsByAssetClass, visibleAssetClasses
Visible(i) == shown[i] # None /\ (tab = "todos" \/ ClassOf[shown[i]] = tab)

\* A card is keyed by its product under the section of its class: it starts
\* anew when it leaves the list, the class or the tab.
CardsAfter(s, t) ==
  [i \in Id |->
     IF /\ Visible(i) /\ s[i] # None /\ ClassOf[s[i]] = ClassOf[shown[i]]
        /\ t = "todos" \/ ClassOf[s[i]] = t
     THEN card[i] ELSE "view"]

\* The button is another one in the empty panel: its modal and its state go,
\* and what its calls do to them is dropped.
Detached(cs) ==
  {c \in cs : c.op \notin {"snapshot", "versions", "check"}}
    \cup {[c EXCEPT !.live = FALSE] : c \in
            {d \in cs : d.op \in {"snapshot", "versions", "check"}}}

\* Mutant: what was deleted is kept in the list, marked.
ReceiveRaw(s, cs) ==
  /\ shown' = [i \in Id |-> IF shown[i] # None /\ s[i] = None THEN Gone ELSE s[i]]
  /\ loading' = FALSE /\ card' = card /\ calls' = cs /\ UNCHANGED snap

\* The list becomes s; cs are the calls still in flight.
Receive(s, cs) ==
  /\ shown' = s /\ loading' = FALSE
  /\ card' = CardsAfter(s, tab)
  /\ IF View(loading, shown) = View(FALSE, s)
     THEN calls' = cs /\ UNCHANGED snap
     ELSE calls' = Detached(cs) /\ snap' = [open |-> FALSE, saving |-> FALSE]

-----------------------------------------------------------------------------
(* The client.                                                             *)

Room == Cardinality(calls) <= MaxCalls
Act  == acts < MaxActs /\ acts' = acts + 1 /\ Room

\* An open modal covers the panel.
NoOverlay == modal.on = None /\ ~snap.open

\* AssetClassTabs
SetTab(t) ==
  /\ View(loading, shown) = "list" /\ t # tab /\ NoOverlay
  /\ tab' = t /\ card' = CardsAfter(shown, t)
  /\ UNCHANGED <<server, list, modal, snap, hasChanges, calls, byHand, excused, spent>>

\* openCreateModal and openEditModal
OpenModal(on) ==
  /\ NoOverlay /\ View(loading, shown) # "loading"
  /\ on = New \/ (on \in Id /\ Visible(on) /\ card[on] = "view")
  /\ modal' = [modal EXCEPT !.on = on]
  /\ UNCHANGED <<server, list, tab, card, snap, hasChanges, calls, byHand, excused, spent>>

\* Mutant: the modal is unmounted when it closes, and its state with it.
CloseAndForget == modal' = [on |-> None, saving |-> FALSE]

\* closeModal, whoever calls it; the modal returns null but stays mounted.
CloseModal == modal' = [modal EXCEPT !.on = None]

\* "Cancelar", the cross, Escape, the overlay: also while it saves.
PressClose ==
  /\ modal.on # None /\ CloseModal
  /\ UNCHANGED <<server, list, tab, card, snap, hasChanges, calls, byHand, excused, spent>>

\* handleSave of the modal, past its checks
PressSave(v) ==
  /\ Act /\ modal.on # None /\ ~modal.saving /\ v \in Complete
  /\ modal' = [modal EXCEPT !.saving = TRUE]
  /\ calls' = calls \cup {Save(modal.on, v)}
  /\ UNCHANGED <<server, list, tab, card, snap, hasChanges, byHand, excused, turns, faults>>

\* The bin of a card, and "Cancelar" beside its question.
AskDelete(i) ==
  /\ Visible(i) /\ NoOverlay /\ card[i] \in {"view", "confirm"}
  /\ card' = [card EXCEPT ![i] = IF @ = "view" THEN "confirm" ELSE "view"]
  /\ UNCHANGED <<server, list, tab, modal, snap, hasChanges, calls, byHand, excused, spent>>

\* handleConfirmDelete: the card fades, then the call leaves
PressDelete(i) ==
  /\ Act /\ Visible(i) /\ NoOverlay /\ card[i] = "confirm"
  /\ card' = [card EXCEPT ![i] = "hidden"]
  /\ calls' = calls \cup {Delete(i)}
  /\ UNCHANGED <<server, list, tab, modal, snap, hasChanges, byHand, excused, turns, faults>>

\* SnapshotButton
OpenSnapshot ==
  /\ hasChanges /\ NoOverlay /\ View(loading, shown) # "loading"
  /\ snap' = [snap EXCEPT !.open = TRUE]
  /\ UNCHANGED <<server, list, tab, card, modal, hasChanges, calls, byHand, excused, spent>>

CloseSnapshot ==
  /\ snap.open /\ snap' = [snap EXCEPT !.open = FALSE]
  /\ UNCHANGED <<server, list, tab, card, modal, hasChanges, calls, byHand, excused, spent>>

\* handleSave of SnapshotModal, with a name
PressSnapshot ==
  /\ Act /\ snap.open /\ ~snap.saving
  /\ snap' = [snap EXCEPT !.saving = TRUE]
  /\ calls' = calls \cup {Snapshot(TRUE)}
  /\ UNCHANGED <<server, list, tab, card, modal, hasChanges, byHand, excused, turns, faults>>

-----------------------------------------------------------------------------
(* The agent's turn.                                                       *)

\* A message is sent: assistant.tsx starts a stream.
StartTurn ==
  /\ turns < MaxTurns /\ turns' = turns + 1
  /\ turn = "none" /\ turn' = "streamed"
  /\ UNCHANGED <<rows, newest, list, tab, forms, hasChanges, calls, byHand, excused, acts, faults>>

\* add_product, update_product or delete_product
AgentEdits(i, v) ==
  /\ acts < MaxActs /\ acts' = acts + 1
  /\ turn # "none" /\ rows[i] # Gone /\ rows[i] # v
  /\ v \in Content \/ (v = Gone /\ rows[i] \in Content)
  /\ rows' = [rows EXCEPT ![i] = v]
  /\ UNCHANGED <<newest, turn, list, tab, forms, hasChanges, calls, byHand, excused, turns, faults>>

\* Mutant: only the list listens.
ListListens(cs) == error' = FALSE /\ calls' = cs \cup {Fetch("none")}

\* PORTFOLIO_REFETCH_EVENT, at both hooks; the change log is no part of this.
RefetchEvent(cs) ==
  error' = FALSE /\ calls' = cs \cup {Fetch("none"), Check("none", FALSE)}

\* The stream ends, or breaks while the server goes on.
EndTurn(cut) ==
  /\ turn = "streamed" /\ Room /\ RefetchEvent(calls)
  /\ IF cut THEN faults < MaxFaults /\ faults' = faults + 1 /\ turn' = "cut" /\ excused' = TRUE
            ELSE turn' = "none" /\ UNCHANGED <<faults, excused>>
  /\ UNCHANGED <<rows, newest, shown, loading, tab, forms, hasChanges, byHand, turns, acts>>

EndCutTurn ==
  /\ turn = "cut" /\ turn' = "none"
  /\ UNCHANGED <<rows, newest, list, tab, forms, hasChanges, calls, byHand, excused, spent>>

-----------------------------------------------------------------------------
(* Reads.                                                                  *)

Served == {c \in calls : c.op \in {"fetch", "check"} /\ c.got # None}

\* list_products, has_changes_since_latest
Serve(c) ==
  /\ c \in calls /\ c.op \in {"fetch", "check"} /\ c.got = None
  /\ calls' = (calls \ {c}) \cup
       {[c EXCEPT !.at = Cardinality(Served) + 1,
                  !.got = IF c.op = "fetch" THEN Listing
                          ELSE IF Unchanged THEN "no" ELSE "yes"]}
  /\ byHand' = (byHand /\ c.op = "fetch")
  /\ UNCHANGED <<server, list, tab, forms, hasChanges, excused, spent>>

\* The calls without c; those of its kind that were served before it are late.
Overtaken(c) ==
  {IF d \in Served /\ d.op = c.op /\ d.at < c.at THEN [d EXCEPT !.late = TRUE]
   ELSE IF c.at > 0 /\ d \in Served /\ d.at > c.at THEN [d EXCEPT !.at = @ - 1] ELSE d
     : d \in calls \ {c}}

\* refetch answers; the modal that waited for it closes, whatever it is on.
Fetched(c) ==
  /\ c \in Served /\ c.op = "fetch"
  /\ Receive(c.got, Overtaken(c))
  /\ excused' = (excused \/ c.late)
  /\ modal' = IF c.then = "modal" THEN [on |-> None, saving |-> FALSE] ELSE modal
  /\ UNCHANGED <<server, error, tab, hasChanges, byHand, spent>>

Fault == faults < MaxFaults /\ faults' = faults + 1

\* It catches its own failure: the old list stays, and the modal closes too.
FetchFails(c) ==
  /\ Fault /\ c \in calls /\ c.op = "fetch"
  /\ error' = TRUE
  /\ Receive(shown, Overtaken(c))
  /\ modal' = IF c.then = "modal" THEN [on |-> None, saving |-> FALSE] ELSE modal
  /\ UNCHANGED <<server, tab, hasChanges, byHand, excused, turns, acts>>

\* The last call of createSnapshot: "guardada", and the modal closes.
SnapshotDone(c) ==
  snap' = IF c.then = "snap" /\ c.live THEN [open |-> FALSE, saving |-> FALSE] ELSE snap

\* checkForChanges
Checked(c) ==
  /\ c \in Served /\ c.op = "check"
  /\ hasChanges' = (c.got = "yes") /\ SnapshotDone(c)
  /\ calls' = Overtaken(c) /\ excused' = (excused \/ c.late)
  /\ UNCHANGED <<server, list, tab, card, modal, byHand, spent>>

Others(c) == \E d \in calls \ {c} : d.op = c.op

\* A refusal keeps what was known, an exception supposes changes.
CheckFails(c, thrown) ==
  /\ Fault /\ c \in calls /\ c.op = "check"
  /\ hasChanges' = (thrown \/ hasChanges) /\ SnapshotDone(c)
  /\ calls' = Overtaken(c) /\ excused' = (excused \/ ~thrown \/ Others(c))
  /\ UNCHANGED <<server, list, tab, card, modal, byHand, turns, acts>>

-----------------------------------------------------------------------------
(* Writes.                                                                 *)

\* create_product under a new id, or update_product of a row that is there
Store(c) ==
  \E i \in Id :
    /\ IF c.id = New THEN rows[i] = None ELSE i = c.id /\ rows[i] \in Content
    /\ rows' = [rows EXCEPT ![i] = c.v]

\* handleSave of the modal goes on with onSaved, which is refetch.
Saved(c) ==
  /\ c \in calls /\ c.op = "save" /\ Store(c)
  /\ byHand' = TRUE /\ error' = FALSE
  /\ calls' = (calls \ {c}) \cup {Fetch("modal")}
  /\ UNCHANGED <<newest, turn, shown, loading, tab, forms, hasChanges, excused, spent>>

\* Mutant: no one catches.
LeaveHidden(i) == UNCHANGED card

\* The card comes back, with its question.
RestoreCard(i) == card' = [card EXCEPT ![i] = IF @ = "hidden" THEN "confirm" ELSE @]

\* A product that is gone is not found; else the call or its answer is lost.
SaveFails(c, stored) ==
  /\ c \in calls /\ c.op = "save"
  /\ IF c.id # New /\ rows[c.id] = Gone
     THEN ~stored /\ UNCHANGED <<rows, byHand, excused, faults>>
     ELSE /\ Fault /\ excused' = (excused \/ stored)
          /\ IF stored THEN Store(c) /\ byHand' = TRUE ELSE UNCHANGED <<rows, byHand>>
  /\ modal' = [modal EXCEPT !.saving = FALSE]
  /\ calls' = calls \ {c}
  /\ UNCHANGED <<newest, turn, list, tab, card, snap, hasChanges, turns, acts>>

\* Mutant: the list is left as it was.
NoRefetch(cs) == calls' = cs /\ UNCHANGED error

\* refetch, after a deletion
RefetchList(cs) == calls' = cs \cup {Fetch("none")} /\ error' = FALSE

\* handleDeleteProduct
Deleted(c) ==
  /\ c \in calls /\ c.op = "delete" /\ rows[c.id] \in Content
  /\ rows' = [rows EXCEPT ![c.id] = Gone] /\ byHand' = TRUE
  /\ RefetchList(calls \ {c})
  /\ UNCHANGED <<newest, turn, shown, loading, tab, forms, hasChanges, excused, spent>>

DeleteFails(c, deleted) ==
  /\ c \in calls /\ c.op = "delete"
  /\ IF rows[c.id] = Gone
     THEN ~deleted /\ UNCHANGED <<rows, byHand, excused, faults>>
     ELSE /\ Fault /\ excused' = (excused \/ deleted)
          /\ IF deleted THEN rows' = [rows EXCEPT ![c.id] = Gone] /\ byHand' = TRUE
                        ELSE UNCHANGED <<rows, byHand>>
  /\ RestoreCard(c.id)
  /\ calls' = calls \ {c}
  /\ UNCHANGED <<newest, turn, list, tab, modal, snap, hasChanges, turns, acts>>

\* createSnapshot: the version is stored, then the list is read, then the flag.
SnapshotStored(c) ==
  /\ c \in calls /\ c.op = "snapshot" /\ ~Unchanged
  /\ newest' = NextVersion
  /\ calls' = (calls \ {c}) \cup {Versions(c.live)}
  /\ UNCHANGED <<rows, turn, list, tab, forms, hasChanges, byHand, excused, spent>>

\* SnapshotUnchangedError, 409: the modal stays open with an error.
SnapshotRefused(c) ==
  /\ c \in calls /\ c.op = "snapshot" /\ Unchanged
  /\ snap' = IF c.live THEN [snap EXCEPT !.saving = FALSE] ELSE snap
  /\ calls' = calls \ {c}
  /\ UNCHANGED <<server, list, tab, card, modal, hasChanges, byHand, excused, spent>>

VersionsRead(c) ==
  /\ c \in calls /\ c.op = "versions"
  /\ calls' = (calls \ {c}) \cup {Check("snap", c.live)}
  /\ UNCHANGED <<server, list, tab, forms, hasChanges, byHand, excused, spent>>

\* Any of the two throws: the modal stays open with an error, version or not.
SnapshotFails(c, stored) ==
  /\ Fault /\ c \in calls /\ c.op \in {"snapshot", "versions"}
  /\ stored => c.op = "snapshot" /\ ~Unchanged
  /\ newest' = IF stored THEN NextVersion ELSE newest
  /\ snap' = IF c.live THEN [snap EXCEPT !.saving = FALSE] ELSE snap
  /\ calls' = calls \ {c}
  /\ UNCHANGED <<rows, turn, list, tab, card, modal, hasChanges, byHand, excused, turns, acts>>

-----------------------------------------------------------------------------
Client ==
  \/ \E t \in Tab : SetTab(t)
  \/ \E on \in Id \cup {New} : OpenModal(on)
  \/ PressClose
  \/ \E v \in Content : PressSave(v)
  \/ \E i \in Id : AskDelete(i) \/ PressDelete(i)
  \/ OpenSnapshot \/ CloseSnapshot \/ PressSnapshot

Agent ==
  \/ StartTurn
  \/ \E i \in Id, v \in Content \cup {Gone} : AgentEdits(i, v)
  \/ \E cut \in BOOLEAN : EndTurn(cut)
  \/ EndCutTurn

Network == \E c \in calls :
  \/ Serve(c) \/ Fetched(c) \/ FetchFails(c) \/ Checked(c)
  \/ Saved(c) \/ Deleted(c) \/ SnapshotStored(c) \/ SnapshotRefused(c) \/ VersionsRead(c)
  \/ \E b \in BOOLEAN :
       CheckFails(c, b) \/ SaveFails(c, b) \/ DeleteFails(c, b) \/ SnapshotFails(c, b)

Next == Client \/ Agent \/ Network

Spec == Init /\ [][Next]_vars

-----------------------------------------------------------------------------
(* Properties.                                                             *)

\* The panel's state, the portfolio and every call have their types.
TypeOK ==
  /\ rows \in [Id -> Content \cup {None, Gone}] /\ newest \in Lists \cup {None}
  /\ turn \in {"none", "streamed", "cut"}
  /\ shown \in Lists /\ {loading, error, hasChanges, byHand, excused} \subseteq BOOLEAN
  /\ tab \in Tab /\ card \in [Id -> {"view", "confirm", "hidden"}]
  /\ modal \in [on : Id \cup {None, New}, saving : BOOLEAN]
  /\ snap \in [open : BOOLEAN, saving : BOOLEAN]
  /\ \A c \in calls :
       \/ c.op = "fetch" /\ c.got \in Lists \cup {None} /\ c.then \in {"none", "modal"}
       \/ c.op = "check" /\ c.got \in {None, "yes", "no"} /\ c.then \in {"none", "snap"}
       \/ c.op = "save" /\ c.id \in Id \cup {New} /\ c.v \in Complete
       \/ c.op = "delete" /\ c.id \in Id
       \/ c.op \in {"snapshot", "versions"}
  /\ turns \in 0 .. MaxTurns /\ acts \in 0 .. MaxActs /\ faults \in 0 .. MaxFaults

Pending(ops) == \E c \in calls : c.op \in ops

\* Once nothing is on its way, the cards are the portfolio: every edit, by
\* the modal, by a card or by the agent, ends in a refetch (usePortfolio.ts,
\* PortfolioPanel.tsx).  A lost or overtaken answer is excused for good; a
\* failed refetch only while its error shows.
PanelShowsPortfolio ==
  (turn = "none" /\ ~Pending({"fetch", "save", "delete"}) /\ ~error /\ ~excused)
    => shown = Listing

\* A card is invisible only while its deletion is on its way or when the
\* product is gone (ProductCard.tsx: isDeleting is reset by a failure only).
HiddenCardIsDeleted ==
  \A i \in Id : card[i] = "hidden" => Delete(i) \in calls \/ rows[i] = Gone

\* One product is saved at a time, although the modal can be closed and
\* opened again while it saves: a double click makes no second product.
OneSaveInFlight ==
  /\ Cardinality({c \in calls : c.op = "save" \/ (c.op = "fetch" /\ c.then = "modal")}) <= 1
  /\ Pending({"save"}) => modal.saving

AllChecked == turn = "none" /\ ~Pending({"check", "save", "delete", "snapshot", "versions"})

\* "Guardar version" is disabled only when the last version holds what a new
\* one would, up to edits by hand since the flag was read: the refetch event of
\* a turn reads it again (usePortfolioVersioning.ts).  That is less than the
\* portfolio: an isin or a distribution that changed alone is in no version,
\* changes no flag and enables no button (_row_to_product of versioning.py).
SaveOfferedAfterTurns ==
  (AllChecked /\ ~excused /\ ~byHand /\ ~hasChanges) => newest = NextVersion

\* What DOCUMENTATION.md says of the button, edits by hand included.
DisabledWhenIdentical ==
  (AllChecked /\ ~excused /\ ~hasChanges) => newest = NextVersion

\* The panel shows what the server has, hides only what is being deleted or is
\* gone, and saves one product at a time.
PanelIsTrue == PanelShowsPortfolio /\ HiddenCardIsDeleted /\ OneSaveInFlight
=============================================================================
