# SABBI Portfolio Builder: verification project

The system is an investment portfolio builder: a Python backend (FastAPI, a
LangGraph agent, asyncpg over PostgreSQL) and a Next.js front end. Backend paths
below are relative to `src/apps/backend/src`, web paths to `src/apps/web`.

Contents: [inventory](#inventory) · [plan](#plan) · backend modules:
[PortfolioAudit](#portfolioaudit), [SyncRuns](#syncruns),
[NormalizedCatalog](#normalizedcatalog) · both sides: [AuthSessions](#authsessions),
[ChatThread](#chatthread), [fichas](#fichareview-and-fichacuration) · web modules:
[portfolio page](#portfoliopanel-and-versionhistory), [CatalogPage](#catalogpage),
[catalog screens](#catalogforms-and-normalizedpage) · [proofs](#proofs) ·
[what the runs found](#what-the-runs-found) · [limits](#limits)

## Inventory

| Part | State | Operations | Interacts with | What is hard | What makes it correct |
|---|---|---|---|---|---|
| Products and change log: `db/repository.py`, `api/routes.py`, `agent/tools.py` | `products`, `portfolio_changes` | create, update, delete; each logs before and after in its own transaction | REST routes and chat tools call it; snapshots read it | row locks, waiting writers, crashes between statement and log row, an ownership check outside the transaction | the log explains the rows; nobody changes another's product |
| Snapshots: `db/versioning.py` | `portfolio_snapshots`, `snapshot_products` | create, list, get, compare, has-changes | reads products FOR SHARE | REPEATABLE READ views against READ COMMITTED writers, two saves at once | a version is one moment and holds nothing already gone; no duplicates |
| Flat catalog sync: `catalog_sync/service.py`, `lock.py`, `scheduler.py`, `api/webhook_routes.py` | `product_catalog`, `webhook_subscriptions.last_processed_hash`, an advisory lock | download, skip if unchanged, diff, apply, store the hash | Graph notifications, the admin button and the maintenance loop start runs; each borrows pool connections | overlapping runs, crashes between apply and hash, a dead lock connection, a pool full of waiters | the catalog only moves forward; the hash is never ahead of it; it catches up |
| Flat catalog diff and repository: `catalog_sync/diff.py`, `db/catalog_repository.py` | `product_catalog` | match rows by code, adopt legacy rows, insert, restore, soft delete; insert if not duplicate | sync runs, ficha approvals, admin edits | matching by name, look-up and insert as two statements | every line of the sheet ends as one active row |
| Graph subscriptions: `catalog_sync/subscriptions.py`, `graph.py` | `webhook_subscriptions`, subscriptions held by Graph | create first, renew, recreate; lifecycle events | maintenance loops of both syncs share one job try-lock; lifecycle events do not take it | a crash between the call and the UPDATE, two recreations at once | the database knows the subscription that is alive |
| Normalized catalog sync: `catalog_normalized_sync/` | `normalized_sync_state`; the three normalized tables | three-level diff with delete guard, one transaction | same triggers, its own lock and hash row | torn reads, unreadable lines, cascades, guard | the tables are what the workbook asks for; no orphans |
| Normalized catalog repository: `db/catalog_normalized.py` | `catalog_product`, `_series`, `_series_admin` | create or restore, update, cascading delete, search | admin routes, ficha approval | a parent looked up in one statement and the child inserted in another | no active row under a deleted one |
| Sessions: `api/auth_routes.py`, `auth/`; web `lib/fetchWithAuth.ts`, `components/auth/AuthProvider.tsx`, `app/api/[...path]/route.ts`, `middleware.ts` | `refresh_tokens`; two cookies per browser; one refresh promise per page | login, refresh (rotation), logout, me; retry of a 401 | pages of one browser share the cookies; the proxy may lose answers | rotation in four statements, several pages at once, whole-second tokens | no browser is stuck with a dead cookie; every call returns |
| Fichas, backend: `db/ficha_repository.py`, `db/ficha_patrimonial.py`, `db/catalog_curation.py`, `api/admin_routes.py` | `ficha`, its lines, the two catalogs, `catalog_product_history` | upload, match, edit, approve, reject, confirm, delete | catalog and product repositories | approval in several transactions, retries, rows deleted meanwhile, what a card cannot show | a holding comes after the work on the catalog, and the history tells of it; what nobody touched stays, as far as a card shows it |
| Fichas, web: `app/admin/ficha-patrimonial/page.tsx`, `components/admin/ficha-patrimonial/` | page state, rows and decisions of the table, calls in flight | upload, choose, filter, delete, edit, research, approve, discard, confirm | all of them REST calls nobody waits for | a table without a key, closures that captured another client, answers after the table is gone | holdings come from approved lines of their client; no button waits for nothing |
| Chat: web `app/assistant.tsx`, `components/assistant-ui/thread.tsx`; `api/chat_routes.py`, `agent/` | LangGraph checkpoints; the page's messages, answered cards, drafts | send, retry, load, accept and reject one or all | the agent's tools write products | what a card shows is recomputed from texts at every load; dropped messages, retried and failed turns | cards tell the truth, nothing is added twice or unasked, every turn ends |
| Product search and rates: `agent/` | a cache by the hour | catalog, then fuzzy, then web | catalogs, external services | thresholds, fallbacks | first source that has it wins |
| Connection pool, migrations, schema: `db/pool.py`, `db/schema.sql` | pool of ten connections, tables | acquire, release | everything | runs that hold one connection and need another | no permanent starvation |
| Web portfolio panel: `components/portfolio/PortfolioPanel.tsx`, `EditProductModal`, `ProductCard`, `SnapshotModal`, `lib/usePortfolio.ts`, `lib/usePortfolioVersioning.ts` | products shown, modal, cards, flag of the save button | edit, delete, save a version, refetch, tabs | the agent's turn writes the same portfolio and dispatches a refetch event | unnumbered refetches, cards that hide before the answer, a flag read on events only | the panel shows the portfolio; the save is offered when there is something to save |
| Web history: `VersioningDrawer.tsx`, `SnapshotList.tsx`, `ComparisonView.tsx`, `ChangeLog.tsx` | picks, detail, comparison, log pages | open, close, pick, compare, page | snapshots and change log | answers after the drawer was closed or the picks changed, offsets into a growing log, pages that replace each other | the comparison explains its header; a spinner has its call; the end of the log is told |
| Web flat catalog: `app/admin/catalog/page.tsx`, `components/admin/catalog/` | query, table, banner, selection, two forms | search, filter, select, export, create, edit, delete, restore | the sync and other admins write the same rows | aborted and overlapping loads, two lists of one catalog, lists that arrive after typing, fields the Excel owns, rates that are texts | at rest the page is the catalog; edits keep what others wrote in fields the form left alone; what is saved is complete |
| Web normalized catalog: `app/admin/catalogo-normalizado/page.tsx`, its forms | list, detail, observations, modal, dialog | search, select, create, edit, delete at three levels | repository of the normalized catalog | handlers that await several calls and compare with what was selected | at rest the page is the catalog |
| Graph client, encryption, Excel import and export, prompts, deployment | little or none | I/O and formatting | | | not modelled |

Every part is listed in `PROJECT.json` with its status, and every hazard with the
line where it bites and the property that covers it.

## Plan

The order put first what would be worst to get wrong and hardest to test.

1. **PortfolioAudit** with the abstract **AuditedPortfolio**: done, and proved,
   refinement included.
2. **SyncRuns** with the abstract **SerialSync**, for both syncs: done; safety and
   refinement proved.
3. **AuthSessions**, web and API sides together: done; safety proved.
4. **NormalizedCatalog**: the diff, its transaction and the edits that overlap it:
   done, and proved.
5. **FichaReview** and **FichaCuration**, composed in **FichaPage**: the workbench
   and its server side: done, and every property proved.
6. **ChatThread**, **PortfolioPanel** and **VersionHistory** (composed in
   **PortfolioPage**), **CatalogPage**, **CatalogForms** and **NormalizedPage**
   (composed in **CatalogScreens**): the web state machines against a server that
   answers out of order: done; all safety proved.
7. Left: **Subscriptions** (both maintenance loops on the shared job try-lock,
   Graph's side as an external store; abstract specification: one subscription,
   alive or known to be gone); **CatalogRows** (the flat diff checked against a
   reference, composed with insert-if-not-duplicate); the orphan tool calls of a
   dead turn.

One run asks one question of one screen or one service, or of two screens that
share nothing (each behaviour then exercises one of them while the other stands
still, so one run covers both without multiplying their states). Bounds: two of
each actor, and as many operations as the longest known bad interleaving needs,
plus one where it can be afforded.

## PortfolioAudit

`PortfolioAudit.tla` models `ProductRepository` and `VersioningRepository` as
concurrent PostgreSQL transactions. A *request* is one call: `pc` says which
statement comes next, `stamp` is `now()` (its BEGIN), `before` the row a mutation
read FOR UPDATE, `view` and `shared` the MVCC view and row locks of a snapshot.

| Code | Actions |
|---|---|
| `create`, `update`, `delete` (`db/repository.py`) | `BeginCreate`/`CommitCreate`, `LockRow`, `MutateMissing`, `UpdateNothing`, `CommitUpdate`, `CommitDelete` |
| ownership check of the routes, none in the tools | `Authorize` then `BeginMutation`; `BeginAgentMutation` |
| `create_snapshot` (`db/versioning.py`) | `BeginSnapshot`, `TakeView`, `ShareRow` / `ShareConflict`, `RefuseSnapshot`, `SaveSnapshot` |
| lost connection, exception | `Abort` |

What PostgreSQL contributes is modelled by what it does: FOR UPDATE waits for
both lock kinds, FOR SHARE conflicts only with writers, a REPEATABLE READ
transaction fails on a row changed since its view, uncommitted writes are
invisible. `AuditedPortfolio.tla` is the promise: rows change one at a time, an
append-only history records each change, and versions are one moment each.
`Genesis` are the products that predate the log: the migration that created it
leaves existing products without an entry
(`src/openspec/changes/portfolio-versioning/design.md`).

Runs: `portfolio_audit` (three requests, two users, two products, all
interleavings: type, LogExplainsProducts, SnapshotIsOneMoment,
ApiChangesOwnProduct, SavedRowsAreLive and ImplementsAuditedPortfolio; request
symmetry). Three requests are enough for a writer, a second writer that waits
and a snapshot across both; two products are needed for a snapshot to be torn.
`portfolio_liveness`: two rows, three requests under weak fairness of each
request, no cycle of waits. `portfolio_field_loss`, the one listed violation, is
under [what the runs found](#what-the-runs-found). Fairness: an asyncio task that can
go on does, and PostgreSQL wakes the waiter of a freed lock.

The create_snapshot docstring says that a concurrent product mutation cannot
commit meanwhile; an INSERT can. The properties say exactly that much:
`SavedRowsAreLive` speaks of the products in the snapshot.

## SyncRuns

`SyncRuns.tla` models runs of a SharePoint sync as tasks of several processes:
notifications and admin runs (`Request`), maintenance cycles (`StartCycle`,
`Upkeep`), the lock on a dedicated connection (`Connect`, `Acquire`,
`LockTimeout`), and `_run_locked` (`Download`, `Skip` or `Proceed`, `ReadRows`,
`Apply`, `StoreHash`). A workbook is a version with a digest; the catalog is the
version it mirrors, or `Mixed` when a change set was applied to rows it was not
computed for. `Fail`, `Crash` and `LoseLock` are the failures; every query needs
a free connection of its process's pool. The normalized sync is the same protocol
with a hash row that always exists (`row` TRUE from the start).
`SerialSync.tla` is the promise: one sync that only moves forward.

Runs: `sync_runs` (two processes, two loops, two more requests, three versions,
one fault, lock loss included: TypeOK, StoredWasApplied); `sync_refinement`
(LockLoss FALSE: ImplementsSerialSync; under fairness CatchesUp). A pool of three connections in the process with two
requests is the smallest in which waiting runs exhaust it, which is what makes
CatchesUp worth checking; two versions after the first are needed for a stale
run to overtake. Fairness: strong for a run's steps, because asyncpg's pool and
PostgreSQL's lock queue are first come, first served; weak for the next cycle of
a loop, which is a timer. None for edits, notifications or faults. CatchesUp uses
three distinct contents: with a workbook that returns to an old content it fails
for the reason `SyncSkip.cfg` shows.

With `LockLoss` TRUE (a failover, a terminated backend) a run goes on without its
lock, and an older download can overwrite a newer one although
`catalog_normalized_sync/service.py:140-142` says it never does; what survives is
StoredWasApplied.

## NormalizedCatalog

`NormalizedCatalog.tla` models the three normalized tables as one forest of keys
(`Parent`), each row absent, active or flagged deleted; a key's other columns are
left out, and so are the updates that only write them.

| Code | Definitions |
|---|---|
| `diff_workbook` | `ProductCodes`, `ImplicitSeries`, `SeriesKeys`, `Accepted`, `Inserts`, `Restores`, `Missing`, `Blocked`, `GoneSeries`, `GoneAdmins`, `Deletes` |
| `list_for_sync` | `ReadProducts`, `ReadSeries`, `ReadAdmins`: three queries, three moments |
| `apply_changeset` | `Apply` (the statements; their rows are locked from here), `CommitRun`, `FailRun` |
| `create_product`, `delete_admin` | `CreateProduct`, `DeleteAdmin`: one statement |
| `create_series`, `create_admin` | `CheckParent`, `CreateChild`: two statements, no transaction |
| `delete_product`, `delete_series` | `DeleteTarget`, `FlagSeries`, `FlagAdmins`, `CommitDelete` |

A line of the workbook is absent, readable, or bad (skipped with its key). Which
run may go on, and when it is skipped, is SyncRuns' business: here one run at a
time, on any workbook. `up`, `down` and `flagged` are rows an open transaction
has written; others wait for them.

Properties: `MatchesWorkbook` (whatever overlaps, the plan computed from rows
without orphans turns them into `Wanted`, a definition independent of the diff,
plus everything active when the deletes are held back) and `NoOrphans`. The second
names what may overlap: creations among themselves, deletions among themselves,
and a run with the edits of single rows (a product created, an administrator
deleted) never leave an active row under a deleted one. A deletion of a product
or series that overlaps the creation of a child, and a run that overlaps either,
can: `tangled` records it, and the code has nothing against it. Once there, an
orphan whose line stays in the workbook is not removed by later runs (its parent
is no longer active, so nothing cascades).

Run: `normalized_catalog`, from all 75 catalogs without orphans over two
products, two series and an administrator, all 243 workbooks, a delete ratio of
one half, and two operations. Two products and two series are the least of which
half may be missing; two overlapping operations are enough for every pair, and
every consistent catalog is an initial state, so longer histories add no state.
`CHECK_DEADLOCK FALSE`: the operations are bounded.

## AuthSessions

`AuthSessions.tla` has the API's login, refresh and logout statement by statement
(`Login`, `Check`, `Delete`, `Issue`, `Revoke`), the answers that set cookies
(`Welcome`, `Refreshed`, `Refused`, `Farewell`), the proxy that loses one, of a
refresh (`LoseAnswer`), of a login (`LoseLogin`) or of a logout, whose page leaves all
the same (`LoseLogout`), and `fetchWithAuth` (`Fetch`, `Answer`, `Unauthorized`, the one
`promise` of a page that all its calls wait for). A token is its user and the
second of its issue, as in the code, where it has no jti.

Run: `auth_sessions`, one browser with two calls, either each on a page of its own
or both on one page sharing its promise (`apart` of MCAuthSessions picks one and
keeps it); clock up to 2, refresh tokens that live 2 s and access tokens that live
1 s, two logins or logouts, one lost answer: `NoDeadCookie`, and
`EveryCallReturns`. A clock of 2 lets two pages rotate the same token into two
different ones; two calls are the fewest that can wait for one promise. Fairness:
weak for the API's answers and for a page's reaction to them; nobody need call,
log in or out. A loss is noticed before the API did anything or after it did all: a
handler that goes on while its page already has the 502 is left out. `NoDeadCookie`
leaves out what an answer that failed or was lost after the row was deleted
(`broken`) and a token issued again within its second (`twice`) do; both are
recorded in the state, and shown by `AuthSameSecond.cfg`, `LoseAnswer` and
`LoseLogout`. The other modules end a
page at a 401: this one has what happens then.

## ChatThread

`ChatThread.tla` models the thread the server keeps, what the page shows of it,
and the cards on which a proposed product is accepted or rejected. A card has no
state on the server: `ThreadSays` is `deriveResponseForProductFromThread`, which
works out from texts and tool results whether it was answered.

| Code | Actions |
|---|---|
| `streamMessage`, `onNew`, `onReload` (`assistant.tsx`) | `Ask`, `Say` (a message sent while a turn runs goes nowhere), `Retry`, `Final`, `Fail` |
| cards, `BulkAcceptBar` (`thread.tsx`) | `EditCard`, `Confirm`, `Reject`, `AcceptAll` |
| load of the page, another page and back | `Reload`, `Return`, `History` |
| `stream_message` (`chat_routes.py`) | `Receive`, `NothingToRetry` |
| the agent's tools (external) | `Propose`, `AddProduct`, `FailAdded` |

The agent is external: asked, it proposes; told yes, it adds what the message
names; what else it says changes nothing here. A message is its verb and the cards
it is about under the names it says them.

Run: `chat_thread`, two cards of one message (one of them proposed incomplete),
three messages or retries, one failure. `AddedAsAgreed`: nothing is added
unless accepted on its card, nor twice. `CardsTellTheTruth`: a card that was
answered says what was answered, on this load and on every later one, and
"Confirmado" means added. Both name their exceptions as history: turns that were
`retried` or `broken`, messages `dropped`, cards `reworded`, and answers `rewound` by
the retry of an earlier message. Three messages are the
question, one answer and one more answer or retry; two cards let one be accepted
beside one that is not. A rewound answer is missed only after five turns, beyond what
fits the run: with one card (`Card = {a}`, `NameOf` of it alone, no gaps) and
`MaxTurns` 5 or 6, or `MaxFaults` 2, the invariants hold too, and without the
exception they do not. `TurnEnds` holds under weak fairness of the server's steps
(`Server`): it answers what it is asked or the stream breaks; the user need do
nothing.

Bounds of the abstraction: a cut connection ends the turn, the page is left only
between turns, and names that contain each other, which `SameProduct` models and
`Clear` excepts, are not in the instance.

## FichaReview and FichaCuration

`FichaReview.tla` is the workbench page with its sidebar, upload zone and review
table. A call in flight is a record that carries what its handler's closure
captured (`client`, `sel`, `tab`); it is served and answered in one step, except the
list, which is read in one step and shown in another. `Show` keeps the rows of a
table that is already mounted, as React does without a key.

| Code | Actions |
|---|---|
| `handleFileSelected`, `handleSelectFicha`, `handleReset`, `handleDeleteFicha` (`page.tsx`) | `SelectFile`, `SelectFicha`, `PressReset`, `PressDelete` and `ParseAnswered`, `ParseFailed`, `FichaLoaded`, `DeleteAnswered` |
| `refreshList`, filter | `SetFilter`, `ListServed`, `Listed`, `ListFailed` |
| `approveRow`, `researchRow`, discard, class select (`ReviewTable.tsx`) | `ApproveRow`, `ResearchRow`, `DiscardRow`, `ChooseClass`, `Researched`, `ApproveAnswered` |
| `handleConfirm`, `handleConfirmed` | `PressConfirm`, `ConfirmAnswered`, `ConfirmFailed` |
| the routes of `admin_routes.py` | `Effect` |

`FichaCuration.tla` is what the approval of one card does: fractions shown as
percent texts (`FormatFractionValue`) and read back (`PercentToFraction`), the
match (`Enriched`), the edits of the two tables and of the class, and
`approve_ficha_line` statement by statement (`Read`, `Write`, `Record`; `Create`,
`CreateRow`, `RefuseRow`, `RecordCreate`; `Hold`), with a `Crash` between any two, the
workbook sync beside it (`Sync`) and rows deleted meanwhile (`Delete`). A row is the
product, a series or an administrator of one; one number stands for the numeric
columns of a series or an administrator; fractions are counted in units of which
`Grain` make the last decimal shown. Of the product's own columns the list of classes
is there: `Whole` is what a card shows of it, its first class at 100. `Requested` is
what `buildApproveRequest` makes of a card; what differs from the rows read is written,
the product first. A product that is not found (`Read`) is passed over, and so is a row
deleted before its statement (`Write`); rows without a name are not sent. `written` and
`lost` are history: what approves changed, and which of it died untold.

`FichaPage.tla` puts the two side by side: they share no state, so a behaviour of it
exercises one of them.

Run: `ficha` (MCFicha). Review: two fichas of two clients with a line each, one
saved before, five acts of the admin, one failed call or lost answer. Two clients
are what a mixed-up closure needs; five acts cover open, approve, leave, open
another, confirm; the failure may be of any call. Curation: two cards (symmetric) on one
product with a list of two classes, a series whose number has a digit no card shows, an
administrator, a series the product does not have; three acts and one fault (a crash, a
sync or a deletion); matches below and above the similarity that attaches the product's
code; `Grain` 3 is the smallest in which rounding goes both ways. Three acts are an edit, an approve and
the approve that repeats it or another card's; the fault is between any two statements.

`HoldingsAreApproved`: from approved lines, for their client, only imported fichas are
confirmed; a ficha opened over another one, `mixed`, is excepted from the last two.
`WaitingHasCalls`: every spinner has its call. `HoldingIsWhole`: a holding is made after
all the work on the catalog; a created product then has every row it was sent; what an
approve changed is in the history once it is through, unless it died in between
(`lost`: the approve that repeats it finds the change in place and tells nothing); the
history tells of nothing that was not written, unless the row was deleted; and no
product made from a card has a row without its parent. A product may stay half made,
after a refused row or a crash: it has no holding then. A product deleted since the
parse gets its holding and the edits are dropped, which the property leaves room for.
`UntouchedKept`: an approve changes what nobody edited only if it changed under the
card, by rounding, or, for the classes, to the first of them at 100. Without the last
it is false of the code (`ClassesFlattened.cfg`). Safety only: neither module needs
fairness for what it states. Left out: class names that no key of the page stands for, and
that `get_product_detail` reads in three queries what `Read` takes at one moment.

## PortfolioPanel and VersionHistory

`PortfolioPanel.tla` is the client's panel beside a chat whose agent edits the same
portfolio. A write is served and answered in one step; a read is served in one and
answered in another, and answers come in any order.

| Code | Actions and state |
|---|---|
| `usePortfolio.ts` | `shown`, `loading`, `error`; `Fetch` calls |
| `usePortfolioVersioning.ts` | `hasChanges`; `Check`, `Versions`, `Snapshot` calls |
| `EditProductModal`, `ProductCard`, `SnapshotModal` | `modal`, `card`, `snap` |
| tabs, sections, empty panel (`PortfolioPanel.tsx`) | `tab`, `View`, `CardsAfter`: what React mounts anew, and whose late answers are dropped (`Detached`) |
| the agent's turn and its refetch event | `turn` |

What a version keeps of a product (`Kept`) is all but isin and distribution
(`_row_to_product` of `db/versioning.py`), and both the has-changes check and the
refusal of an unchanged version (`SnapshotRefused`, a 409 under which the modal stays
open) compare what versions keep (`AsVersion`, `Unchanged`).

`VersionHistory.tla` is the drawer behind it: the list, the detail of a version, the
comparison of two (`Diff` is `compare_snapshots`), and the change log by offset
(`Page`) while entries are added. `PortfolioPage.tla` puts the two side by side.

Run: `portfolio_page`. Panel: two products, one of them to come, three contents of
which a version tells two apart, one turn of the agent, two writes,
one lost answer. Two writes beside a turn are the
least in which refetches overtake each other in every order. History: two versions
and room for a third, pages of one entry in a log of up to three, two calls in
flight, one failure: enough for a page to be asked for while the log grows.
`PanelIsTrue`: once nothing is on its way the cards are the portfolio, a hidden card
is being deleted or gone, one product is saved at a time. `SaveOfferedAfterTurns`:
the save button is disabled only when the last version holds what a new one would,
edits by hand since the flag was read apart; an isin or a distribution that changed
alone is in no version and enables nothing. `HistoryIsTrue`: the comparison explains the
two versions its header names (applied to the older it gives the newer), every spinner
has a call, and the page of the log that is shown offers more unless it ends with the
oldest entry. That more can be reached is false of the code: "Cargar más" replaces the
page by the one whose offset is the number of entries shown, so that past the second
page it brings the second page again (`LoadMoreStops.cfg`). Left out of the history: a 401, and a
second call equal to one on its way. Safety only.

## CatalogPage

`CatalogPage.tla` is the flat catalog's page: the table under a query (search,
filters and deleted rows are one value), the banner that counts observations over
the whole catalog, the selection, and the dialogs. `abortRef` keeps one load of the
table (`SetQuery`, `LandLoad`), `allEntriesRequestRef` numbers those of the banner
(`newest`); a handler that awaits is a *job* that goes on when its page has moved.
`Elsewhere` is any other writer of the table. The edit form holds names and their scores
(`NameOf`): it fills in a missing score that the list of names fixes (`Prefilled`, when
it opens and again when a list arrives, `ScoresArrive`), a chosen name brings its score
or takes it away (`Brought`), texts lose the blanks around them (`Sent`), and a name that
changed takes its score along (`Edits`). A PATCH may be stored and its answer lost
(`EditFails`).

Run: `catalog_page`, two entries (one owned by the Excel), a name and its score with three
values (one the list fixes, one missing or unknown, one with blanks around it), two
queries, two events among writes, other writers and failures; what is typed in the form
is one of two values; the administrator acts, and a list of the form arrives, with one
call in flight at most (`MaxCalls`). `PageIsTrue`: at rest table and banner are what the
server has (`staleTable`, `staleBanner` name what breaks that). `SelectionIsVisible`: no
export holds a row out of sight. `ButtonsComeBack`: what waits has a handler that
releases it. `EditsKeepOthers`: an edit leaves as the server has them all fields but
those the administrator changed in the form (`touched`) and those the form changed by
itself (`refilled`: a score it filled in, a text with blanks). Without the second
exception it is false of the code: a score that another writer gave meanwhile is
overwritten by the one the form filled in (`OverwrittenScore.cfg`). Two events are a
write and what interferes with it; loads, answers and clicks are not bounded by it. A
401 ends the page. Safety only.

## CatalogForms and NormalizedPage

`CatalogForms.tla` is the edit form and the create form of the flat catalog: what may
be typed, what holds the button back (`CanSave`), the delta the edit form sends
(`Changed`, `ScoresSent`), names posted before the product (`PostNames`), the
server's own validators (`Accepted`), and the row that results; the answer of a creation
may be lost after it (`CreateEntry`), that of a PATCH is CatalogPage's. The two lists of
names arrive one after the other (`ListsArrive`), and each prefills both scores again;
fields of the Excel are locked once a request answered (`ManagedArrives`). Scores and
percentages are in tenths, since the inputs keep decimals and `Clamp` only brings a score
between 1 and 10; a rate is the text its number input holds, `Readable` if `ParseRate`
gives it back; texts and names are sent without the blanks around them (`Trim`). `FormsAssumption` asks of the rows at first only
what the tables enforce: a legacy row may hold a name outside the lists, or twice in
one allocation. The form cannot add such a repetition (`Repeats`), and a product that
came with one is the exemption of `AcceptedByServer`.

`NormalizedPage.tla` is the page of the normalized catalog. A row is its path; a
handler that awaits several calls is a *task* with its remaining steps, and it acts
on what its closure or the page holds when an answer comes. No product selected is
`NoDetail`, so that a detail always has a code and rows.

`CatalogScreens.tla` composes the two, which share nothing: a behaviour is of one of
them.

Run: `catalog_screens`. Forms: one row with a code, a class from before the list, no
administrator but a score, and a manager without one; one administrator and one manager
in the lists, both with fixed scores; a score of 7.5 and one of 12, the rates "5" and
".5", a text with a blank before it. Either the entry is edited with three inputs, or
products are created with eight (`Budgets`: seven make a product complete); the fields
of a new product are filled in one order (`Order`), since none has an effect on another;
one write. Page: two products, one with a series; a product, a series and an
administrator to come; two searches; one task under way when the admin clicks, one
write, one lost call. `FormIsSound`: what the form lets through the server accepts, but
for a score with decimals (refused by the server's int), a name from before the lists and
a repetition the product came with; and a name chosen from a list carries its fixed
score, but for one chosen before the other list came (`reset`; `ScoreReset.cfg` shows
it). `ExcelKept`: a product with a
code keeps what the Excel owns. `SavedIsShown`: what was saved comes back when the
form reopens, but for a rate that is not in digits (`Unread`; `UnreadRate.cfg`), a score
that was cleared and fields locked meanwhile; and it has no observation the form could
have prevented. `PageSettles`:
with nothing under way, list, detail and observations are the server's (`clouded`
names the panes whose last word was a failure or an answer to an earlier question, and
the detail after a write of `Unread`, sent while no product was selected and so not
followed by a load of the detail; the run's one write does not reach that, the proof
covers it), and what waits has a task. Bounds of the abstraction: nothing is typed while a save is
in flight and there is one at a time; nobody else changes the normalized catalog meanwhile; a renamed product
does not leave a search. Safety only.

## Proofs

All proofs are for every value of the constants under the named assumptions
(`ConstantsAssumption`, `SyncAssumption`, `CatalogAssumption` of NormalizedCatalog and
of CatalogPage, `AuthAssumption`, `CurationAssumption`, `FichaAssumption`,
`ChatAssumption`, `PanelAssumption`, `HistoryAssumption`, `ScreensInstance` over
`FormsAssumption` and `PageAssumption`), which say what kind of value
a constant is, that a bound is a number, and that a marker such as `None` or `Absent` is
none of the values it is told apart from. Each proof is the inductive-invariant argument:
it holds initially, every action keeps it, it implies the property.

* **PortfolioAuditProofs**: `TypeCorrect`, `LogExplains`, `SnapshotMoment`,
  `SavedLive`, `OwnChanges`, `Refines`. The inductive invariant `IInv` adds to the
  properties that ids are handed out once (`FreshIds`), that whoever is past FOR
  UPDATE holds the current row (`LockDiscipline`), that a snapshot's view differs
  from the present only in `moved` rows (`ViewDiscipline`) and that it is one moment
  (`ViewIsOneMoment`). LogExplainsProducts alone is not inductive: a waiting writer's
  `before` must be the committed row when it logs it. `OwnChanges` needs two more
  parts: stamps are given once, so a log entry tells its request (`Stamped`), and what
  a request was authorized for is its user's or gone for good (`OwnTarget`), because
  an id is never handed out again and an owner never changes. That is why the
  ownership check may stand outside the transaction. `Refines` maps each commit to
  one change of AuditedPortfolio (`ChangeStep`; the history it appends is what the
  log and `before` say) and each saved snapshot to a save of one moment (`SaveStep`,
  where `ViewIsOneMoment` picks the moment and the row locks keep its rows current);
  every other step stutters.
* **SyncRunsProofs**: `TypeCorrect`; `StoredApplied`, with lost locks too: all it
  needs is that a run past `Apply` has its content recorded (`AppliedIsRecorded`);
  `RunsAreSerial`, the refinement of SerialSync, under LockLoss = FALSE. `SyncInv`: no
  lock is lost, at most one run is past the lock, the catalog is not ahead of the
  workbook, and what that run downloaded and read is current. Without mutual
  exclusion `Apply` could make `Mixed`.
* **NormalizedCatalogProofs**: `TypeCorrect` (row locks keep transactions apart);
  `MatchesCorrect`, from lemmas about the diff alone (`KnownStay`: no accepted
  parent is deleted; `AcceptedEnter`, `AcceptedHang`, `DeletesCascade`);
  `OrphansNeedOverlap`. `OrphanInv` says, until something tangles: creations,
  cascades and the run keep apart; a creation's parent is still active
  (`Founded`); a cascade has flagged all that hangs from its rows in the tables it
  has been through (`Cascade`); the run's rows agree with the present but for
  products that came and administrators that went, and what it is about to write
  is closed under parents (`Follows`). `PlanClosed` is the heart: a plan made from
  almost current rows leaves no orphan. The delete guard plays no part: the proof
  holds whether it blocks or not.
* **AuthSessionsProofs**: `TypeCorrect`; `CookiesLive` for any number of browsers
  and pages, while the run has one browser with two. Its invariant `Ledger` holds
  until a token is issued twice: a token on its way to a browser has its row and
  nothing else holds it (`IssuedOK`, `WelcomeOK`), and a cookie is in one browser
  and sent by its pages only (`OwnOK`). So whoever deletes a browser's token is a
  page of that browser, whose answer replaces or clears the cookie, unless it fails or is
  lost, as one of a logout may be too (`DeadOK`, `broken`).
  The proof needs no expiry: it shows the claim for expired cookies too.
* **FichaProofs**, about FichaPage. The review: `HoldingsApproved`, `WaitsHaveCalls`, for
  any fichas, clients and calls in flight. None of the properties is inductive: a
  holding is created when a call is served, long after the button. `IInv` therefore
  says of every call in flight that it carries what the admin approved, under the
  client and the ficha of its lines, and that a mark of confirmation comes after the
  import (`Sound`, kept as approvals and holdings grow: `SoundKept`); and of the page
  that the table hangs under the review it was mounted for until a ficha is opened
  over it (`PageInv`). The curation: `HoldingsWhole`. `CurationInv`: a request that runs
  knows what it sends (`Sending`), one that updates has read the product and has its
  changes in the history before it holds (`Updating`), a row that is gone does not come
  back and what hung from it is gone too (`Gone`, `Rooted`), every change stands in the history,
  among the lost, or in a request still writing that has it among its changes
  (`Telling`), one that creates has created all it was sent but what is left, parents
  first (`Creating`), and a holding is the last thing written (`Holding`).
  `UntouchedNumbersKept` is an action property: what an approve writes over a number
  nobody edited rounds to what the card showed (`ShownAndReadBack`: a fraction that is
  shown and read back is off by half of the last decimal at most, whatever `Grain` is),
  and over classes nobody edited their `Whole`, for a table that is still the one the
  card was made of (`FirstShown`, `LeftToWrite`). `TypeCorrect` rests on the rounding staying
  in the range of the column (`FormatType`). `Sides` gives both modules' behaviours
  from one of the page.
* **ChatThreadProofs**: `TypeCorrect`, `AddedAgreed`, `CardsAreTrue`, for any cards, names,
  turns and failures; retries of earlier messages, which the run is too small for, are
  covered. `IInv` says of the messages that each names its cards as they are, reworded
  ones apart, and that a yes was agreed to (`MessagesInv`); of the turn that runs, that
  what it still owes is in the message it answers (`CallInv`); and of each card
  (`CardInv`) that a page which shows it knows of the answer the thread has, so that it
  is not answered again, and that what was accepted was added, broke off or is under
  way, but for what history excuses.
* **CatalogProofs**, about CatalogPage: `TypeCorrect`, `PageTrue`, `SelectionVisible`, `ButtonsReleased`,
  `OthersKept`, for any catalog, queries and number of handlers. "At rest the table is
  true" does not say why the steps that lead to rest end there. `TableInv` does: a table
  that nothing spoils and no error hides is what the server has, or a load under way
  will bring that (`Mends`), or a handler pauses before it reads both lists again.
  `BannerInv` says the same of the newest request of the banner, behind an error of its
  own too, which the next answer forgets. `LoadsInv` and `AllsInv` keep one load and one
  newest request; `RowsInv`, that rows read stay in the catalog, is what an edit and a
  selection rest on. `OthersKept` is of one step, and rests on what a PATCH in flight
  carries: no field but those typed and those filled in when it was sent. About CatalogForms, through CatalogScreens: `FormSound`,
  `ExcelOwned`, `SavedShown`, for any fields, names, scores and lists, any rows the Excel
  may have brought, lists in either order of arrival, scores with decimals, and forms that
  are used for ever. `FormsInv`: beside the types, no
  allocation repeats a name that the product did not repeat before (`FormRowsInv`); a
  name that was chosen came from the list that arrived, and the score is that of the
  list unless the other list came after it (`ChosenInv`); and `SaveInv`, of a save under way, that its form had passed every
  check and that what it sends is exactly what differs from the row, so that the delta,
  written, gives back what the form showed, rates that are not read back apart (`Body`,
  `Delta`). Sums of percentages enter
  the proofs as the value that the button and the validator both look at. About
  NormalizedPage, also through CatalogScreens: `PageComesToRest`, for any rows, names,
  searches and number of handlers, writes and faults, and `TypesOfScreens` of both.
  `NormalInv`: a pane that is not apart is what the server has, or a handler that has
  written will still read it (`PanesInv`, over `Told`: the panes a handler renews once
  its write is behind it; `IsWrite`: the reads each write is sent with, from `Sent`,
  `SavedTail` and `RefetchTail`); what waits has its handler, also when the form it was
  sent from is gone (`WaitInv`); one deletion is under way, of a product that was
  selected when it was asked for (`DeletionInv`). A write under one product leaves the
  detail of another alone (`DetailAlone`), and one below the product its list
  (`ListAlone`).
* **PortfolioPageProofs**, about PortfolioPage. The panel: `PanelTrue`, `SaveOffered`, for
  any products, tabs, writes and calls in flight, where reads are answered in any
  order. `InPlace`: the reads that were served stand in one row, numbered without
  gaps. `Fresh` is the heart, once for the list and once for the flag of the button:
  a read is still to be served, or the last of those that were, but for the late
  ones, tells what is right now, or what is known is right and nothing under way
  will spoil it. A write that is served makes it true again because its handler
  asks for the list in the same step (`CallStep`); an answer keeps it because it makes
  late whatever was served before it (`LandedFresh`, over `Overtaken` and `Detached`). What is
  right of the flag is `Unchanged`, which compares what versions keep. The history: `HistoryTrue`, for any sequence of versions and any page size.
  `ComparisonInv`: one comparison is under way at most, and while the overlay is open
  the picks are its versions, since they can only change below it; so the picks name
  the difference shown. `PatchedIsNewer`: `Diff` applied to one version gives the other,
  for every two portfolios. `PageRows`: the entries a page holds, hence that has-more
  is TRUE unless the oldest one is shown. `TypeCorrect` is of both.

Only model-checked: all liveness (EveryRequestAnswered, CatchesUp, EveryCallReturns,
TurnEnds: out of the prover's reach). CatalogForms adds percentages up with a recursive
function; what it computes would need induction over data and is not used: that the form
and the server add up the same way is.

## What the runs found

The listed violation run, `portfolio_field_loss`: a snapshot stores isin and
distribution as "", while `db/versioning.py:469` says "the exact same field set as a
live `Product`".

Other disagreements have a configuration that shows them, beside the listed runs
(`tlc -config X.cfg M`); each ends in a counterexample.

| Configuration, module, property | What the code does | What is said |
|---|---|---|
| `PortfolioDuplicates.cfg`, MCPortfolioAudit, NoDuplicateVersions | two concurrent saves of an unchanged portfolio both succeed | "409 when the portfolio is identical", backend `DOCUMENTATION.md:418` |
| `SyncSkip.cfg`, MCSyncRuns, SkipIsRight | after a run that died between apply and hash, a workbook that returns to the hashed content is skipped | "unchanged content is a no-op", `catalog_sync/service.py:10` |
| `AuthSameSecond.cfg`, MCAuthSessions, RefreshIssues | two refreshes in one second: the second deletes and issues nothing | "delete the old row, then issue a new access/refresh pair", `api/auth_routes.py:127` |
| `NormalizedBadValue.cfg`, MCNormalizedCatalog, NeverDeletedForABadValue | an administrator with a bad value whose series has no line is deleted with its series | "never deleted for that", `catalog_normalized_sync/diff.py:17` |
| `ReopenedDrawer.cfg`, MCPortfolioPage, ReopensClean | a detail that arrives after the drawer was closed is shown when it reopens | "reopening never shows a stale selection, detail view, or comparison result", `VersioningDrawer.tsx:71-72` |
| `LoadMoreStops.cfg`, MCPortfolioPage, MoreGoesBack | "Cargar más" replaces the entries and counts its offset from those shown: past the second page the log is out of reach | "Paginated, reverse-chronological change history", `ChangeLog.tsx:35` |
| `ClassesFlattened.cfg`, MCFicha, ClassesKept | approving a card whose class nobody touched turns a list of classes into its first one at 100 | "Applies an admin-reviewed edit", `db/catalog_curation.py:3`; nobody edited the class |
| `OverwrittenScore.cfg`, MCCatalogPage, OnlyTypedIsWritten | a score the edit form filled in by itself is sent and overwrites one another writer gave meanwhile | `handleSave` compares every field with the row the form was opened on, `app/admin/catalog/page.tsx:1040-1114` |
| `ScoreReset.cfg`, MCCatalogScreens, EveryChosenScore | a name chosen before the second list arrives keeps the score of the name before it, in a field that is then locked | "there's nothing actually uncertain about it, so prefill from that entity", `app/admin/catalog/page.tsx:928-929` |
| `UnreadRate.cfg`, MCCatalogScreens, EveryRateIsShown | a rate typed ".5" is stored as ".5%" and shows blank when the form reopens | "Parses the return_rate format", `catalogFormShared.tsx:68-72`; only legacy texts are to fall back to blank |
| `PanelDisabledSave.cfg`, MCPortfolioPage, DisabledWhenIdentical | after an edit by hand the save button stays disabled until the next refetch event | disabled "when the current portfolio is identical to the last snapshot", web `DOCUMENTATION.md:623` |

Exceptions the properties name, which is where the code does something a reader may
not expect: a ficha opened over another one keeps the first one's rows under the
second one's client (`mixed`); a retried turn that had already added a product adds it
again (`retried`); a retry of an earlier message takes the later answers off the page
while the server keeps them, so that a card already accepted can be offered and added
again (`rewound`); a message sent while a turn runs is dropped though its card shows
the answer (`dropped`); an overtaken refetch leaves an older portfolio on screen
(`excused`); a refetch of the normalized detail may answer for the product selected
before, and a series whose form is sent while no product is selected is not read again
(`clouded`); a load of the catalog served before an edit and answered after it shows the
row without the edit (`staleTable`); an approve writes back a number that
changed under its card; one that dies after a change leaves it out of the history for
good (`lost`); a list of classes becomes its first class; a score is put back by a
list that arrives (`reset`); a rate that is not in digits shows blank (`Unread`); a
logout or a refresh whose answer is lost leaves a cookie the API has forgotten
(`broken`); a deletion of normalized rows that overlaps the creation of a
child leaves an orphan (`tangled`).

Seen while reading, without a run: a rate such as "8% anual", which `catalogFormShared.tsx` says is left untouched,
blocks the save until it is typed again; a number that is cleared in the forms of the
normalized catalog is sent as null, dropped by `exclude_none`
(`db/catalog_normalized.py:373`) and answered with success; a late `onClose` closes
whatever form is open by then; approving a line and confirming its ficha create its
holding twice; the log of changes is sorted by BEGIN time (`db/versioning.py:416`), so
of two mutations of a product the one that waited comes first;
`insert_if_not_duplicate` (`db/catalog_repository.py:284`) looks up and inserts in two
statements; two new codes of the sheet with one name may both adopt the same legacy
row (`catalog_sync/diff.py:202`).

## Limits

Bounds are in the `.cfg` files and named in the modules. Lines of layout, wording and
styling are abstracted everywhere; the web modules model what a screen holds and
offers, not how it looks.

Not modelled, and why:

* **Flat catalog diff**: a sequential function over names and similarity; SyncRuns
  abstracts its result to a version. Its legacy adoption is in the plan.
* **Product search cascade, exchange rates**: thresholds and external answers; no
  shared state but a cache by the hour.
* **Graph client, Excel import and export, field encryption**: I/O and formatting.
* **Schema, seeds and migrations**: declarative; the constraints that matter are in the
  modules of their tables.
* **Prompts and models, deployment**: texts, request shapes, configuration.

Parts of modelled components that are left out are named in the notes of
`PROJECT.json`: among them the Graph subscriptions beyond what a run sees of them, the
model and the guardrail of the agent, the administration of users and threads, and what
a page does with its user after a 401.
