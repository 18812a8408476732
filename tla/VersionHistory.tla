---------------------------- MODULE VersionHistory ----------------------------
(***************************************************************************)
(* The history of a portfolio in the web client: the drawer with the saved *)
(* versions, the detail of one, the comparison of two, and the change log  *)
(* page by page (VersioningDrawer.tsx, SnapshotList.tsx,                   *)
(* ComparisonView.tsx, ChangeLog.tsx, VersioningBar.tsx,                   *)
(* lib/usePortfolioVersioning.ts), and what db/versioning.py answers.      *)
(*                                                                         *)
(* A version never changes once it is saved, so a call for the detail of   *)
(* one or for the difference of two is answered in one step; the lists     *)
(* grow, and are read in one step and shown in another.  A 401, which      *)
(* leaves the page, is left out, and so is a second call equal to one that *)
(* is still on its way.                                                    *)
(***************************************************************************)
EXTENDS Integers, Sequences, FiniteSets, FiniteSetsExt, SequencesExt, Functions

CONSTANTS
  Product, Field, Value,
  Saves,    \* the versions that may be saved, oldest first: product -> its fields,
            \* of which every product has the same, empty or not
  Before,   \* how many of them there are when the page is opened
  ListMax,  \* limit of list_snapshots
  PageSize, \* limit of list_changes
  Logged,   \* entries of the change log when the page is opened
  None,
  MaxLog,   \* bound on the entries of the change log
  MaxCalls, \* bound on the calls in flight
  MaxFaults \* bound on the calls that fail

HistoryAssumption ==
  /\ Saves \in Seq(UNION {[P -> [Field -> Value]] : P \in SUBSET Product})
  /\ Before \in 0 .. Len(Saves) /\ ListMax \in Nat \ {0} /\ PageSize \in Nat \ {0}
  /\ MaxLog \in Nat /\ Logged \in 0 .. MaxLog /\ MaxCalls \in Nat /\ MaxFaults \in Nat

VARIABLES
  saved,      \* versions the server has: 1 .. saved
  log,        \* entries its change log has: 1 .. log
  snapshots,  \* the versions the page knows
  changes,    \* [rows, more, busy]: the entries shown, newest first
  open,       \* the drawer
  tab,        \* "snapshots" or "changes"
  picks,      \* compareSelection
  detail,     \* [of, busy, error]: the version shown instead of the list
  comparing,  \* isComparing
  comparison, \* [open, diff, error]
  calls,      \* calls in flight
  faults

drawer == <<open, tab, picks, detail>>
vars == <<saved, log, snapshots, changes, drawer, comparing, comparison, calls, faults>>

Version == 1 .. Len(Saves)

\* list_snapshots of a server with n versions
Listed(n) == {v \in 1 .. n : v > n - ListMax}

\* A page of list_changes, of a log with n entries.
Page(n, offset) ==
  [i \in 1 .. Min({PageSize, Max({0, n - offset})}) |-> n - offset - i + 1]

NoDetail == [of |-> None, busy |-> FALSE, error |-> FALSE]
NoComparison == [open |-> FALSE, diff |-> None, error |-> FALSE]
ChangesCall(offset) == [op |-> "changes", offset |-> offset, rows |-> None]
VersionsCall == [op |-> "versions", got |-> None]

Init ==
  /\ saved = Before /\ log = Logged
  /\ snapshots = {} /\ changes = [rows |-> <<>>, more |-> FALSE, busy |-> TRUE]
  /\ open = FALSE /\ tab = "snapshots" /\ picks = <<None, None>> /\ detail = NoDetail
  /\ comparing = FALSE /\ comparison = NoComparison
  /\ calls = {VersionsCall, ChangesCall(0)} /\ faults = 0

-----------------------------------------------------------------------------
(* What differs between two versions.                                      *)

\* compare_snapshots: by product, and in a product of both by field.
Diff(a, b) ==
  LET A == Saves[a] B == Saves[b] both == DOMAIN A \cap DOMAIN B IN
  [added    |-> Restrict(B, DOMAIN B \ DOMAIN A),
   removed  |-> Restrict(A, DOMAIN A \ DOMAIN B),
   modified |-> [p \in {q \in both : A[q] # B[q]} |->
                   [f \in {f \in DOMAIN A[p] : A[p][f] # B[p][f]} |->
                      [before |-> A[p][f], after |-> B[p][f]]]]]

\* The older first, as far as both are listed: the header of ComparisonView and
\* the order of handleCompareSelected.
Ordered ==
  LET known == {picks[i] : i \in 1 .. 2} \cap snapshots IN
  IF picks[1] # picks[2] /\ Cardinality(known) = 2 THEN <<Min(known), Max(known)>> ELSE None

-----------------------------------------------------------------------------
(* The client.                                                             *)

\* The drawer covers the panel, and the comparison covers the drawer.
InDrawer == open /\ ~comparison.open
ListShown == InDrawer /\ tab = "snapshots" /\ detail = NoDetail

Send(c) == c \notin calls /\ Cardinality(calls) < MaxCalls /\ calls' = calls \cup {c}

OpenDrawer ==
  /\ ~open /\ open' = TRUE
  /\ UNCHANGED <<saved, log, snapshots, changes, tab, picks, detail, comparing, comparison, calls, faults>>

\* Everything but isComparing, which is the hook's, starts anew.
CloseDrawer ==
  /\ InDrawer /\ open' = FALSE
  /\ tab' = "snapshots" /\ picks' = <<None, None>> /\ detail' = NoDetail
  /\ comparison' = NoComparison
  /\ UNCHANGED <<saved, log, snapshots, changes, comparing, calls, faults>>

SetTab(t) ==
  /\ InDrawer /\ t # tab /\ tab' = t
  /\ UNCHANGED <<saved, log, snapshots, changes, open, picks, detail, comparing, comparison, calls, faults>>

\* handleSelectSnapshot
SelectSnapshot(v) ==
  /\ ListShown /\ v \in snapshots /\ Send([op |-> "detail", of |-> v])
  /\ detail' = [NoDetail EXCEPT !.busy = TRUE]
  /\ UNCHANGED <<saved, log, snapshots, changes, open, tab, picks, comparing, comparison, faults>>

\* handleCloseDetail: the call goes on.
CloseDetail ==
  /\ InDrawer /\ tab = "snapshots" /\ detail # NoDetail /\ detail' = NoDetail
  /\ UNCHANGED <<saved, log, snapshots, changes, open, tab, picks, comparing, comparison, calls, faults>>

\* Mutant: a pick is never taken back.
PickAlways(v) ==
  IF picks[1] = None THEN <<v, picks[2]>>
  ELSE IF picks[2] = None THEN <<picks[1], v>>
  ELSE <<picks[2], v>>

\* handleToggleCompare: a third pick replaces the older one.
Picked(v) ==
  IF picks[1] = v THEN <<None, picks[2]>>
  ELSE IF picks[2] = v THEN <<picks[1], None>>
  ELSE IF picks[1] = None THEN <<v, picks[2]>>
  ELSE IF picks[2] = None THEN <<picks[1], v>>
  ELSE <<picks[2], v>>

ToggleCompare(v) ==
  /\ ListShown /\ v \in snapshots /\ picks' = Picked(v)
  /\ UNCHANGED <<saved, log, snapshots, changes, open, tab, detail, comparing, comparison, calls, faults>>

\* Mutant: the button can be pressed while a comparison is on its way.
AnyTime == ListShown /\ Ordered # None

\* The button needs two picks and no comparison on its way.  A pick that left
\* the list makes it do nothing.
MayCompare == ListShown /\ Ordered # None /\ ~comparing

\* handleCompareSelected and compareSnapshots
Compare ==
  /\ MayCompare /\ Send([op |-> "compare", a |-> Ordered[1], b |-> Ordered[2]])
  /\ comparing' = TRUE /\ comparison' = [comparison EXCEPT !.open = TRUE, !.error = FALSE]
  /\ UNCHANGED <<saved, log, snapshots, changes, drawer, faults>>

\* onClose of ComparisonView and clearComparison
CloseComparison ==
  /\ open /\ comparison.open /\ comparison' = NoComparison
  /\ UNCHANGED <<saved, log, snapshots, changes, drawer, comparing, calls, faults>>

\* fetchChanges
FetchChanges(offset) ==
  /\ Send(ChangesCall(offset)) /\ changes' = [changes EXCEPT !.busy = TRUE]
  /\ UNCHANGED <<saved, log, snapshots, drawer, comparing, comparison, faults>>

LoadMore == InDrawer /\ tab = "changes" /\ changes.more /\ ~changes.busy /\ FetchChanges(Len(changes.rows))

\* A turn of the chat ends (PORTFOLIO_REFETCH_EVENT).
RefetchEvent == FetchChanges(0)

\* createSnapshot of the panel, which then reads the list again
SaveVersion ==
  /\ ~open /\ saved < Len(Saves) /\ saved' = saved + 1 /\ Send(VersionsCall)
  /\ UNCHANGED <<log, snapshots, changes, drawer, comparing, comparison, faults>>

\* The chat or a form changes a product.
Mutate == log < MaxLog /\ log' = log + 1 /\ UNCHANGED <<saved, snapshots, changes, drawer, comparing, comparison, calls, faults>>

-----------------------------------------------------------------------------
(* The server and the network.                                             *)

ServeVersions(c) ==
  /\ c.op = "versions" /\ c.got = None
  /\ calls' = (calls \ {c}) \cup {[c EXCEPT !.got = Listed(saved)]}
  /\ UNCHANGED <<saved, log, snapshots, changes, drawer, comparing, comparison, faults>>

VersionsArrive(c) ==
  /\ c.op = "versions" /\ c.got # None /\ calls' = calls \ {c} /\ snapshots' = c.got
  /\ UNCHANGED <<saved, log, changes, drawer, comparing, comparison, faults>>

\* list_changes: the rows first, the total by a second statement.
ServeChanges(c) ==
  /\ c.op = "changes" /\ c.rows = None
  /\ calls' = (calls \ {c}) \cup {[c EXCEPT !.rows = Page(log, c.offset)]}
  /\ UNCHANGED <<saved, log, snapshots, changes, drawer, comparing, comparison, faults>>

\* Mutant: the oldest entry is not counted.
HasMany(c, total) == c.offset + Len(c.rows) + 1 < total

HasMore(c, total) == c.offset + Len(c.rows) < total

\* The total may be of any moment between the rows and now.
ChangesArrive(c) ==
  /\ c.op = "changes" /\ c.rows # None /\ calls' = calls \ {c}
  /\ \E total \in (IF c.rows = <<>> THEN c.offset ELSE c.offset + c.rows[1]) .. log :
       changes' = [rows |-> c.rows, more |-> HasMore(c, total), busy |-> FALSE]
  /\ UNCHANGED <<saved, log, snapshots, drawer, comparing, comparison, faults>>

\* The version is shown whatever was closed or chosen meanwhile.
DetailArrives(c) ==
  /\ c.op = "detail" /\ calls' = calls \ {c}
  /\ detail' = [detail EXCEPT !.of = c.of, !.busy = FALSE]
  /\ UNCHANGED <<saved, log, snapshots, changes, open, tab, picks, comparing, comparison, faults>>

ComparisonArrives(c) ==
  /\ c.op = "compare" /\ calls' = calls \ {c}
  /\ comparing' = FALSE /\ comparison' = [comparison EXCEPT !.diff = Diff(c.a, c.b)]
  /\ UNCHANGED <<saved, log, snapshots, changes, drawer, faults>>

\* Mutant: a comparison that failed is still on its way for the page.
FailsQuietly(c) ==
  /\ changes' = IF c.op = "changes" THEN [changes EXCEPT !.busy = FALSE] ELSE changes
  /\ detail' = IF c.op = "detail" THEN [detail EXCEPT !.busy = FALSE, !.error = TRUE] ELSE detail
  /\ comparing' = comparing
  /\ comparison' = IF c.op = "compare" THEN [comparison EXCEPT !.diff = None, !.error = TRUE] ELSE comparison

\* The catch and finally blocks: a failed list leaves what was shown.
Failed(c) ==
  /\ changes' = IF c.op = "changes" THEN [changes EXCEPT !.busy = FALSE] ELSE changes
  /\ detail' = IF c.op = "detail" THEN [detail EXCEPT !.busy = FALSE, !.error = TRUE] ELSE detail
  /\ comparing' = (comparing /\ c.op # "compare")
  /\ comparison' = IF c.op = "compare" THEN [comparison EXCEPT !.diff = None, !.error = TRUE] ELSE comparison

Fail(c) ==
  /\ faults < MaxFaults /\ faults' = faults + 1 /\ calls' = calls \ {c} /\ Failed(c)
  /\ UNCHANGED <<saved, log, snapshots, open, tab, picks>>

Client ==
  \/ OpenDrawer \/ CloseDrawer \/ CloseDetail \/ Compare \/ CloseComparison
  \/ LoadMore \/ RefetchEvent \/ SaveVersion \/ Mutate
  \/ \E t \in {"snapshots", "changes"} : SetTab(t)
  \/ \E v \in Version : SelectSnapshot(v) \/ ToggleCompare(v)

Network ==
  \E c \in calls :
    \/ ServeVersions(c) \/ VersionsArrive(c) \/ ServeChanges(c) \/ ChangesArrive(c)
    \/ DetailArrives(c) \/ ComparisonArrives(c) \/ Fail(c)

Next == Client \/ Network
Spec == Init /\ [][Next]_vars

-----------------------------------------------------------------------------
(* Properties.                                                             *)

\* The state has its shape; a version is picked once.
TypeOK ==
  /\ saved \in 0 .. Len(Saves) /\ log \in 0 .. MaxLog /\ snapshots \subseteq 1 .. saved
  /\ changes.rows \in Seq(1 .. log) /\ open \in BOOLEAN /\ tab \in {"snapshots", "changes"}
  /\ \A i \in 1 .. 2 : picks[i] \in {None} \cup Version
  /\ picks[1] # None => picks[1] # picks[2]
  /\ detail.of \in {None} \cup 1 .. saved /\ comparing \in BOOLEAN
  /\ ~open => ~comparison.open /\ picks = <<None, None>>
  /\ faults \in 0 .. MaxFaults

\* What a difference makes of the older version.
Patched(c, d) ==
  [p \in (DOMAIN c \ DOMAIN d.removed) \cup DOMAIN d.added |->
     IF p \in DOMAIN d.added THEN d.added[p]
     ELSE IF p \notin DOMAIN d.modified THEN c[p]
     ELSE [f \in DOMAIN c[p] |-> IF f \in DOMAIN d.modified[p] THEN d.modified[p][f].after ELSE c[p][f]]]

\* The difference the comparison shows is the one between the two versions its
\* header names, the older first: it makes the newer of the older, whatever was
\* closed, picked or asked before it came (compare_snapshots,
\* handleCompareSelected, and the header of ComparisonView).
ComparisonExplains ==
  (comparison.open /\ ~comparing /\ comparison.diff # None /\ Ordered # None)
    => Patched(Saves[Ordered[1]], comparison.diff) = Saves[Ordered[2]]

\* What waits has a call to wait for: no spinner turns for ever, though calls
\* are left behind, overtaken and fail.
SpinnersHaveCalls ==
  /\ detail.busy => \E c \in calls : c.op = "detail"
  /\ comparing => \E c \in calls : c.op = "compare"
  /\ changes.busy => \E c \in calls : c.op = "changes"

\* The page offers no more only under the oldest entry of the log, however old
\* the answer is and though rows and total are read by two statements (has_more
\* of list_changes).  Pressing it is another matter: see MoreGoesBack.
EndIsTold == (changes.rows # <<>> /\ Last(changes.rows) # 1) => changes.more

\* "Paginated, reverse-chronological change history" (ChangeLog.tsx:35): what
\* "Cargar mas" brings is older than what it was pressed under.  It is not so:
\* setChanges replaces the entries (usePortfolioVersioning.ts:270) and the next
\* offset is the number of entries shown (PortfolioPanel.tsx:236), so that the
\* second page asks for itself again and a third is out of reach.
MoreGoesBack ==
  [][\A c \in calls :
       (c.op = "changes" /\ c.offset > 0 /\ c.rows \notin {None, <<>>} /\ ChangesArrive(c))
         => Last(c.rows) < Last(changes.rows)]_vars

\* "Reset all transient drawer state when it closes, so reopening never shows a
\* stale selection, detail view, or comparison result" (VersioningDrawer.tsx).
ReopensClean == [][(~open /\ open') => detail' = NoDetail]_vars

\* What the history shows is what the server has: the difference of the two
\* versions that were picked, a spinner only beside a call, and an end of the
\* log only where it is.
HistoryIsTrue == ComparisonExplains /\ SpinnersHaveCalls /\ EndIsTold
=============================================================================
