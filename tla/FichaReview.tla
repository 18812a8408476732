---------------------------- MODULE FichaReview ----------------------------
(***************************************************************************)
(* The "Ficha Patrimonial" workbench: the admin page (page.tsx), its       *)
(* sidebar and upload zone, the review table, and the routes they call.    *)
(* The page never waits for a call before it offers the next button, so    *)
(* several calls are in flight at once: the server serves them in any      *)
(* order, and an answer may not come.                                      *)
(*                                                                         *)
(* A call is a record, served and answered in one step: what it leaves in  *)
(* the database in between is seen by a list only, which is therefore read *)
(* in a step of its own.  What a handler reads when it answers is what its *)
(* closure captured when the button was pressed: those values travel in    *)
(* the call.  Two calls with the same contents are one.                    *)
(***************************************************************************)
EXTENDS FiniteSets, Integers

CONSTANTS
  Ficha, Line,
  FichaOf,     \* line -> the ficha it is a line of
  ClientOf,    \* ficha -> its client's user_id
  Filter,      \* the sidebar's tabs that are used
  Stored,      \* fichas saved by earlier visits
  InitMapped,  \* lines whose asset class the parse could map
  None,
  MaxActs,     \* bound on what the admin does
  MaxCalls,    \* bound on the calls in flight when the admin acts
  MaxFaults    \* bound on calls that fail or lose their answer

ASSUME FichaAssumption ==
  /\ FichaOf \in [Line -> Ficha]
  /\ None \notin Ficha \cup Line /\ "todas" \in Filter
  /\ Stored \subseteq Ficha /\ InitMapped \subseteq Line
  /\ MaxActs \in Nat /\ MaxCalls \in Nat /\ MaxFaults \in Nat

VARIABLES
  saved,       \* ficha: the fichas that have a row
  lineStatus,  \* ficha_line.line_status
  confirmed,   \* ficha.confirmed
  holdings,    \* the products created: line, client, by which route
  pane,        \* PageState
  review,      \* the ficha whose client and rows the page passes down
  selected,    \* selectedId
  filter,      \* activeFilter
  listed,      \* fichas the sidebar shows
  mounted,     \* the ficha the table's editableRows were made of
  row,         \* editableRows: is the class mapped, and the decision
  busy,        \* researchingIndex
  submitting,  \* isSubmitting
  calls,       \* requests in flight
  accepted,    \* lines approved on screen: history
  mixed,       \* was a ficha opened while another was reviewed? history
  acts, faults \* spent so far

db      == <<saved, lineStatus, confirmed, holdings>>
page    == <<pane, review, selected>>
sidebar == <<filter, listed>>
table   == <<mounted, row, busy, submitting>>
past    == <<accepted, mixed>>
vars == <<db, page, sidebar, table, calls, past, acts, faults>>

LinesOf(f) == {l \in Line : FichaOf[l] = f}
PaneState == {"idle", "loading", "review", "success"}
Decision  == {"pending", "approved", "discarded"}
LineState == {"approved", "discarded"}
Status    == {"por_validar", "en_proceso", "validada"}

\* What is in flight.
Parse(f)           == [op |-> "parse", f |-> f]
Get(f)             == [op |-> "get", f |-> f]
List(t)            == [op |-> "list", tab |-> t, done |-> FALSE, found |-> {}]
Decide(l, s)       == [op |-> "decide", l |-> l, status |-> s]
Approve(l, u, t)   == [op |-> "approve", l |-> l, client |-> u, tab |-> t]
Research(l)        == [op |-> "research", l |-> l]
Confirm(ls, u, s, t) ==
  [op |-> "confirm", lines |-> ls, client |-> u, sel |-> s, tab |-> t,
   live |-> TRUE]
Finish(f)          == [op |-> "finish", f |-> f]
Delete(f, s, t)    == [op |-> "delete", f |-> f, sel |-> s, tab |-> t]

Blank == [l \in Line |-> [mapped |-> FALSE, mark |-> "pending"]]
FirstRows(f) ==
  [l \in Line |-> [mapped |-> FichaOf[l] = f /\ l \in InitMapped, mark |-> "pending"]]

Init ==
  /\ saved = Stored /\ confirmed = {} /\ holdings = {}
  /\ lineStatus = [l \in Line |-> "pending"]
  /\ pane = "idle" /\ review = None /\ selected = None
  /\ filter = "todas" /\ listed = {}
  /\ mounted = None /\ row = Blank /\ busy = None /\ submitting = FALSE
  /\ calls = {List(filter)}        \* the effect of the first render
  /\ accepted = {} /\ mixed = FALSE
  /\ acts = 0 /\ faults = 0

-----------------------------------------------------------------------------
(* The page shows a review, or takes it down.                              *)

\* setReview, setState("review"): ReviewTable has no key, so rows that are
\* already mounted stay, whoever's review they now hang under.
Show(f) ==
  /\ pane' = "review" /\ review' = f
  /\ IF mounted = None
     THEN /\ mounted' = f /\ row' = FirstRows(f)
          /\ UNCHANGED <<busy, submitting>>
     ELSE UNCHANGED table
  /\ mixed' = (mixed \/ (pane = "review" /\ review # f))

\* Mutant: the table is hidden and kept.
Hide == UNCHANGED table

\* The table is unmounted: what its own calls do to its state is dropped.
Unmount ==
  mounted' = None /\ row' = Blank /\ busy' = None /\ submitting' = FALSE

Detached(cs) ==
  {c \in cs : c.op \notin {"research", "confirm"}}
    \cup {[c EXCEPT !.live = FALSE] : c \in {d \in cs : d.op = "confirm"}}

\* handleReset
Reset ==
  pane' = "idle" /\ review' = None /\ selected' = None /\ Unmount

-----------------------------------------------------------------------------
(* What the admin does.                                                    *)

Act == acts < MaxActs /\ acts' = acts + 1 /\ Cardinality(calls) <= MaxCalls

\* handleFile, handleFileSelected: a valid file; the zone is disabled while
\* one is parsed.
SelectFile(f) ==
  /\ Act /\ pane = "idle" /\ f \notin saved
  /\ pane' = "loading"
  /\ calls' = calls \cup {Parse(f)}
  /\ UNCHANGED <<db, review, selected, sidebar, table, past, faults>>

\* handleSelectFicha
SelectFicha(f) ==
  /\ Act /\ f \in listed
  /\ calls' = calls \cup {Get(f)}
  /\ UNCHANGED <<db, page, sidebar, table, past, faults>>

\* "Subir ficha" and "Cargar otra ficha"
PressReset ==
  /\ Act /\ pane # "idle"
  /\ Reset /\ calls' = Detached(calls)
  /\ UNCHANGED <<db, sidebar, past, faults>>

\* setActiveFilter and the effect it triggers
SetFilter(t) ==
  /\ Act /\ t # filter
  /\ filter' = t /\ calls' = calls \cup {List(t)}
  /\ UNCHANGED <<db, page, listed, table, past, faults>>

\* handleDeleteFicha
PressDelete(f) ==
  /\ Act /\ f \in listed
  /\ calls' = calls \cup {Delete(f, selected, filter)}
  /\ UNCHANGED <<db, page, sidebar, table, past, faults>>

Card(l) == pane = "review" /\ l \in LinesOf(mounted)

\* The select of a card.
ChooseClass(l, m) ==
  /\ Act /\ Card(l) /\ row[l].mapped # m
  /\ row' = [row EXCEPT ![l].mapped = m]
  /\ UNCHANGED <<db, page, sidebar, mounted, busy, submitting, calls, past, faults>>

\* approveRow: marked, patched, and approved in one go, none of them awaited.
ApproveRow(l) ==
  /\ Act /\ Card(l) /\ row[l].mapped
  /\ row' = [row EXCEPT ![l].mark = "approved"]
  /\ calls' = calls \cup {Decide(l, "approved"), Approve(l, ClientOf[review], filter)}
  /\ accepted' = accepted \cup {l}
  /\ UNCHANGED <<db, page, sidebar, mounted, busy, submitting, mixed, faults>>

\* "Descartar linea"
DiscardRow(l) ==
  /\ Act /\ Card(l)
  /\ row' = [row EXCEPT ![l].mark = "discarded"]
  /\ calls' = calls \cup {Decide(l, "discarded")}
  /\ UNCHANGED <<db, page, sidebar, mounted, busy, submitting, past, faults>>

\* researchRow: only the card that shows "Buscando" is disabled.
ResearchRow(l) ==
  /\ Act /\ Card(l) /\ busy # l
  /\ busy' = l /\ calls' = calls \cup {Research(l)}
  /\ UNCHANGED <<db, page, sidebar, mounted, row, submitting, past, faults>>

\* Mutant: only what was discarded stays out.
NotDiscarded == {l \in Line : Card(l) /\ row[l].mark # "discarded"}

\* selectApprovedRows
Approved == {l \in Line : Card(l) /\ row[l].mark = "approved"}

\* confirmDisabled, handleConfirm
PressConfirm ==
  /\ Act /\ pane = "review" /\ ~submitting /\ Approved # {}
  /\ submitting' = TRUE
  /\ calls' = calls \cup {Confirm(Approved, ClientOf[review], selected, filter)}
  /\ UNCHANGED <<db, page, sidebar, mounted, row, busy, past, faults>>

-----------------------------------------------------------------------------
(* The server.  A call of a ficha or line that is gone finds nothing.      *)

\* derive_ficha_status, over line_status and the flag
StatusOf(f) ==
  LET decided == {l \in LinesOf(f) : lineStatus[l] \in LineState}
  IN  IF LinesOf(f) # {} /\ f \in confirmed /\ decided = LinesOf(f) THEN "validada"
      ELSE IF decided # {} THEN "en_proceso" ELSE "por_validar"

Found(t) == {f \in saved : t = "todas" \/ StatusOf(f) = t}

Created(ls, u, by) == {[line |-> l, client |-> u, by |-> by] : l \in ls}

\* What a call leaves in the database.
Effect(c) ==
  CASE c.op = "parse" -> saved' = saved \cup {c.f} /\ UNCHANGED <<lineStatus, confirmed, holdings>>
    [] c.op = "decide" ->
         /\ lineStatus' = IF FichaOf[c.l] \in saved
                          THEN [lineStatus EXCEPT ![c.l] = c.status] ELSE lineStatus
         /\ UNCHANGED <<saved, confirmed, holdings>>
    [] c.op = "approve" ->
         /\ holdings' = holdings \cup Created({c.l}, c.client, "approve")
         /\ UNCHANGED <<saved, lineStatus, confirmed>>
    [] c.op = "confirm" ->
         /\ holdings' = holdings \cup Created(c.lines, c.client, "confirm")
         /\ UNCHANGED <<saved, lineStatus, confirmed>>
    [] c.op = "finish" ->
         confirmed' = confirmed \cup ({c.f} \cap saved) /\ UNCHANGED <<saved, lineStatus, holdings>>
    [] c.op = "delete" ->
         /\ saved' = saved \ {c.f} /\ confirmed' = confirmed \ {c.f}
         /\ UNCHANGED <<lineStatus, holdings>>
    [] OTHER -> UNCHANGED db

Missing(c) == c.op \in {"get", "delete"} /\ c.f \notin saved

Rest(c) == calls \ {c}

\* A call is served and answered, or fails: refused, missing, timed out, or
\* served and its answer lost.
Good(c) == ~Missing(c) /\ Effect(c) /\ UNCHANGED <<acts, faults>>
Bad(c) ==
  \/ Missing(c) /\ UNCHANGED <<db, acts, faults>>
  \/ faults < MaxFaults /\ faults' = faults + 1 /\ Effect(c) /\ UNCHANGED acts
  \/ faults < MaxFaults /\ faults' = faults + 1 /\ UNCHANGED <<db, acts>>

-----------------------------------------------------------------------------
(* The answers.                                                            *)

\* handleFileSelected goes on wherever the page is by now.
ParseAnswered(c) ==
  /\ c.op = "parse" /\ Good(c)
  /\ Show(c.f) /\ selected' = c.f
  /\ calls' = Rest(c) \cup {List(filter)}
  /\ UNCHANGED <<sidebar, accepted>>

\* Mutant: setReview(null) is forgotten.
ParseFailedKeepsReview(c) ==
  /\ c.op = "parse" /\ Bad(c)
  /\ pane' = "idle" /\ calls' = Detached(Rest(c))
  /\ UNCHANGED <<review, table, selected, sidebar, past>>

\* The catch: back to idle, whatever is reviewed by now; selectedId stays.
ParseFailed(c) ==
  /\ c.op = "parse" /\ Bad(c)
  /\ pane' = "idle" /\ review' = None /\ Unmount
  /\ calls' = Detached(Rest(c))
  /\ UNCHANGED <<selected, sidebar, past>>

FichaLoaded(c) ==
  /\ c.op = "get" /\ Good(c)
  /\ Show(c.f) /\ selected' = c.f /\ calls' = Rest(c)
  /\ UNCHANGED <<sidebar, accepted>>

\* refreshList: what the server found when it looked.
ListServed(c) ==
  /\ c.op = "list" /\ ~c.done
  /\ calls' = Rest(c) \cup {[c EXCEPT !.done = TRUE, !.found = Found(c.tab)]}
  /\ UNCHANGED <<db, page, sidebar, table, past, acts, faults>>

\* The last answer wins, whatever tab and moment it is of; none: no fichas.
Listed(c) ==
  /\ c.op = "list" /\ c.done /\ listed' = c.found
  /\ calls' = Rest(c)
  /\ UNCHANGED <<db, page, filter, table, past, acts, faults>>

ListFailed(c) ==
  /\ c.op = "list" /\ Bad(c) /\ listed' = {}
  /\ calls' = Rest(c)
  /\ UNCHANGED <<page, filter, table, past>>

\* handleApprove: then refreshList with the tab of the closure.
ApproveAnswered(c) ==
  /\ c.op = "approve" /\ Good(c)
  /\ calls' = Rest(c) \cup {List(c.tab)}
  /\ UNCHANGED <<page, sidebar, table, past>>

\* applyResearchToRow: the class becomes what the web says, mapped or not.
\* Either way the indicator goes, whosever it is by now.
Researched(c) ==
  /\ c.op = "research"
  /\ \/ Good(c) /\ \E m \in BOOLEAN : row' = [row EXCEPT ![c.l].mapped = m]
     \/ Bad(c) /\ row' = row
  /\ busy' = None /\ calls' = Rest(c)
  /\ UNCHANGED <<page, sidebar, mounted, submitting, past>>

\* Mutant: the selectedId is read when the answer comes.
ConfirmAnsweredLate(c) ==
  /\ c.op = "confirm" /\ Good(c)
  /\ pane' = "success" /\ review' = None /\ Unmount
  /\ calls' = Detached(Rest(c)) \cup {List(c.tab)}
                \cup {Finish(f) : f \in {selected} \cap Ficha}
  /\ UNCHANGED <<selected, sidebar, past>>

\* onConfirmed runs in the page even when the table that asked is gone.
ConfirmAnswered(c) ==
  /\ c.op = "confirm" /\ Good(c)
  /\ pane' = "success" /\ review' = None /\ Unmount
  /\ calls' = Detached(Rest(c)) \cup {List(c.tab)}
                \cup {Finish(f) : f \in {c.sel} \cap Ficha}
  /\ UNCHANGED <<selected, sidebar, past>>

\* Mutant: no finally.
ConfirmFailedStays(c) ==
  /\ c.op = "confirm" /\ Bad(c) /\ calls' = Rest(c)
  /\ UNCHANGED <<page, sidebar, table, past>>

\* The catch, and the finally, of a table that is still there.
ConfirmFailed(c) ==
  /\ c.op = "confirm" /\ Bad(c)
  /\ submitting' = (submitting /\ ~c.live)
  /\ calls' = Rest(c)
  /\ UNCHANGED <<page, sidebar, mounted, row, busy, past>>

\* handleDeleteFicha: compares with the selectedId its closure captured.
DeleteAnswered(c) ==
  /\ c.op = "delete" /\ Good(c)
  /\ IF c.sel = c.f
     THEN Reset /\ calls' = Detached(Rest(c)) \cup {List(c.tab)}
     ELSE calls' = Rest(c) \cup {List(c.tab)} /\ UNCHANGED <<page, table>>
  /\ UNCHANGED <<sidebar, past>>

\* Calls nobody waits for, and errors that only show a line.
Ignored(c) ==
  /\ \/ c.op \in {"decide", "finish"} /\ (Good(c) \/ Bad(c))
     \/ c.op \in {"get", "approve", "delete"} /\ Bad(c)
  /\ calls' = Rest(c)
  /\ UNCHANGED <<page, sidebar, table, past>>

Answer(c) ==
  \/ ParseAnswered(c) \/ ParseFailed(c) \/ FichaLoaded(c)
  \/ ListServed(c) \/ Listed(c) \/ ListFailed(c)
  \/ ApproveAnswered(c) \/ Researched(c) \/ ConfirmAnswered(c) \/ ConfirmFailed(c)
  \/ DeleteAnswered(c) \/ Ignored(c)

Network == \E c \in calls : Answer(c)

Admin ==
  \/ \E f \in Ficha : SelectFile(f) \/ SelectFicha(f) \/ PressDelete(f)
  \/ \E t \in Filter : SetFilter(t)
  \/ \E l \in Line : \/ ApproveRow(l) \/ DiscardRow(l) \/ ResearchRow(l)
                     \/ \E m \in BOOLEAN : ChooseClass(l, m)
  \/ PressReset \/ PressConfirm

Next == Admin \/ Network

Spec == Init /\ [][Next]_vars

-----------------------------------------------------------------------------
(* Properties.                                                             *)

\* Every variable keeps its type, and the table is mounted exactly under a
\* review.
TypeOK ==
  /\ saved \subseteq Ficha /\ confirmed \subseteq saved
  /\ lineStatus \in [Line -> Decision]
  /\ \A h \in holdings : h.line \in Line /\ h.by \in {"approve", "confirm"}
  /\ pane \in PaneState /\ review \in Ficha \cup {None} /\ selected \in Ficha \cup {None}
  /\ filter \in Filter /\ listed \subseteq Ficha
  /\ mounted \in Ficha \cup {None}
  /\ row \in [Line -> [mapped : BOOLEAN, mark : Decision]]
  /\ busy \in Line \cup {None} /\ submitting \in BOOLEAN
  /\ (pane = "review") = (mounted # None) /\ (review = None) = (mounted = None)
  /\ accepted \subseteq Line /\ mixed \in BOOLEAN

\* Only what the admin approved on screen becomes a holding, whichever of the
\* two routes creates it and however late (selectApprovedRows, approveRow).
OnlyApproved == \A h \in holdings : h.line \in accepted

\* A line becomes a holding of the client of its own ficha, as long as no
\* review was opened on top of another: through a parse that ends late, a
\* reset, a deletion or a remount (userId and rows come from one review).
ClientsOwnLines ==
  ~mixed => \A h \in holdings : h.client = ClientOf[FichaOf[h.line]]

\* Only a ficha whose lines were imported is marked confirmed, though the mark
\* is a second call made from the answer of the first, when the admin may be
\* looking at another ficha (handleConfirmed's selectedId).
ConfirmedImported ==
  ~mixed => \A f \in confirmed :
              \E h \in holdings : FichaOf[h.line] = f /\ h.by = "confirm"

\* Whatever waits has a call to wait for: the upload zone, "Buscando" on a
\* card, and the button that confirms, whatever was closed, opened or deleted
\* meanwhile.
WaitingHasCalls ==
  /\ pane = "loading" => \E c \in calls : c.op = "parse"
  /\ busy # None => Research(busy) \in calls
  /\ submitting => \E c \in calls : c.op = "confirm" /\ c.live

\* A product hangs from a line that was approved, or that the confirmation of
\* its ficha imported, and from that line's client.
HoldingsAreApproved == OnlyApproved /\ ClientsOwnLines /\ ConfirmedImported
=============================================================================
