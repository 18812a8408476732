--------------------------- MODULE PortfolioPage ---------------------------
(* The portfolio page of a client: the panel of products, or the history     *)
(* behind it.  The two share no state but the server's, so a behaviour       *)
(* exercises one of them and the other stands still.                         *)
EXTENDS PortfolioPanel

CONSTANTS
  \* those of VersionHistory
  Product, Field, Value, Saves, Before, ListMax, PageSize, Logged, MaxLog,
  MaxHistoryCalls,  \* its MaxCalls
  MaxHistoryFaults  \* its MaxFaults

VARIABLES
  part,     \* "panel" or "history"
  hSaved, hLog, hSnapshots, hChanges, hOpen, hTab, hPicks, hDetail,
  hComparing, hComparison, hCalls, hFaults

hVars == <<hSaved, hLog, hSnapshots, hChanges, hOpen, hTab, hPicks, hDetail,
           hComparing, hComparison, hCalls, hFaults>>

H == INSTANCE VersionHistory WITH
       saved <- hSaved, log <- hLog, snapshots <- hSnapshots, changes <- hChanges,
       open <- hOpen, tab <- hTab, picks <- hPicks, detail <- hDetail,
       comparing <- hComparing, comparison <- hComparison, calls <- hCalls, faults <- hFaults,
       MaxCalls <- MaxHistoryCalls, MaxFaults <- MaxHistoryFaults

ASSUME HistoryInstance == H!HistoryAssumption

PageInit == part \in {"panel", "history"} /\ Init /\ H!Init
PageNext ==
  /\ UNCHANGED part
  /\ \/ part = "panel" /\ Next /\ UNCHANGED hVars
     \/ part = "history" /\ H!Next /\ UNCHANGED vars
PageSpec == PageInit /\ [][PageNext]_<<part, vars, hVars>>

\* The type invariants of the panel and of the history.
PageTypeOK == TypeOK /\ H!TypeOK

\* What the drawer, the comparison and the change log show is what the server
\* has (VersioningDrawer.tsx, ComparisonView.tsx, ChangeLog.tsx).
HistoryIsTrue == H!HistoryIsTrue

\* What "Cargar mas" brings is older than what it was pressed under ("Paginated,
\* reverse-chronological change history", ChangeLog.tsx:35); the code violates it.
MoreGoesBack == H!MoreGoesBack

\* "Reset all transient drawer state when it closes, so reopening never shows a
\* stale selection, detail view, or comparison result."
\* (VersioningDrawer.tsx:71-72)
ReopensClean == H!ReopensClean
=============================================================================
