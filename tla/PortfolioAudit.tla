--------------------------- MODULE PortfolioAudit ---------------------------
(***************************************************************************)
(* Products, their change log and portfolio snapshots, as concurrent       *)
(* PostgreSQL transactions.                                                *)
(*                                                                         *)
(* Every request is one call of ProductRepository (db/repository.py) or    *)
(* VersioningRepository (db/versioning.py).  A mutation runs in a READ     *)
(* COMMITTED transaction: SELECT ... FOR UPDATE, the statement, the log    *)
(* row, COMMIT.  A snapshot runs in a REPEATABLE READ transaction: SELECT  *)
(* ... FOR SHARE takes the MVCC view and then locks the rows one by one.   *)
(* Uncommitted writes are invisible, so a transaction's writes appear in   *)
(* its Commit action; what other transactions can observe before that is   *)
(* its row locks, which follow from pc, op and shared.                     *)
(***************************************************************************)
EXTENDS Naturals, Sequences

CONSTANTS
  User,      \* investors
  Product,   \* product ids, handed out once each (uuid4)
  Core,      \* values of the fields both row mappers carry (name, amount, ...)
  Isin,      \* values of the fields only the live mapper carries (isin, distribution)
  Blank,     \* the default of an Isin field ("")
  Keep,      \* a field the PATCH body leaves out (None, dropped by exclude_none)
  NoRow,     \* no such row; also the NULL of before_state / after_state
  NoOp,      \* the request slot has not been used
  Source,    \* who sends mutations: "api" (the panel), "agent" (the chat tools)
  Edits,     \* the PATCH bodies clients send
  Request,   \* request slots; each one is used at most once
  Genesis    \* the products that predate the change-log migration

Data  == [core : Core, isin : Isin]
Row   == [owner : User, data : Data]
Patch == [core : Core \cup {Keep}, isin : Isin \cup {Keep}]

ASSUME ConstantsAssumption ==
  /\ Blank \in Isin
  /\ Keep \notin Core \cup Isin
  /\ NoRow \notin Row
  /\ Source \subseteq {"api", "agent"}
  /\ Edits \subseteq Patch
  /\ Genesis \in [Product -> Row \cup {NoRow}]

VARIABLES
  products,  \* table products: id -> committed row
  issued,    \* product ids handed out so far
  log,       \* table portfolio_changes, in commit order
  snaps,     \* tables portfolio_snapshots + snapshot_products, in commit order
  clock,     \* number of transactions begun: the source of now()
  pc,        \* where each request is
  op,        \* what each request asks for
  stamp,     \* now() of the request's transaction: its BEGIN time
  before,    \* the row a mutation read under FOR UPDATE
  view,      \* the MVCC view of a snapshot transaction, restricted to its user
  seen,      \* how many committed snapshots that view contains
  moved,     \* rows another transaction changed since that view was taken
  shared     \* rows the snapshot transaction holds FOR SHARE

tables  == <<products, issued, log, snaps>>
reading == <<view, seen, moved, shared>>
vars    == <<tables, clock, pc, op, stamp, before, reading>>

CreateOp   == [kind : {"create"}, user : User, pid : Product, data : Data]
UpdateOp   == [kind : {"update"}, user : User, pid : Product, source : Source, patch : Patch]
DeleteOp   == [kind : {"delete"}, user : User, pid : Product, source : Source]
SnapshotOp == [kind : {"snapshot"}, user : User]
Mutation   == DeleteOp \cup {o \in UpdateOp : o.patch \in Edits}
Op         == CreateOp \cup UpdateOp \cup DeleteOp \cup SnapshotOp

PC == {"idle", "authorized", "begun", "locked", "reading",
       "done", "missing", "refused", "failed"}

Change == [pid : Product, before : Row \cup {NoRow},
           after : Row \cup {NoRow}, at : Nat]

Snapshot == [owner : User, content : [Product -> Row \cup {NoRow}],
             at : Nat, by : Request]

-----------------------------------------------------------------------------
(* Helpers *)

\* Mutant: model_dump() without exclude_none writes the NULLs of absent fields.
OverWithNulls(new, old) == new

\* updates = data.model_dump(exclude_none=True), applied by UPDATE ... SET.
Over(new, old) == IF new = Keep THEN old ELSE new
Apply(patch, row) ==
  [owner |-> row.owner,
   data  |-> [core |-> Over(patch.core, row.data.core),
              isin |-> Over(patch.isin, row.data.isin)]]

\* not updates: the PATCH body sets no field.
Empty(patch) == patch.core = Keep /\ patch.isin = Keep

\* VersioningRepository._row_to_product: passes neither isin nor distribution
\* on, so the materialized product has their defaults.
Materialize(row) ==
  IF row = NoRow THEN NoRow
  ELSE [owner |-> row.owner, data |-> [core |-> row.data.core, isin |-> Blank]]

\* WHERE user_id = u, as a filter on what a product id maps to.
OwnedBy(u, row) == IF row # NoRow /\ row.owner = u THEN row ELSE NoRow

\* The rows SELECT * FROM products WHERE user_id = u returns.
PortfolioOf(u) == [p \in Product |-> OwnedBy(u, products[p])]

\* What snapshot_products would hold for these rows.
Contents(rows) == [p \in Product |-> Materialize(rows[p])]

\* The users' snapshots among the first n committed ones, and the newest of
\* them: ORDER BY created_at DESC LIMIT 1.
SnapshotsOf(u, n) == {i \in 1..n : snaps[i].owner = u}
Latest(u, n) ==
  CHOOSE i \in SnapshotsOf(u, n) :
    \A j \in SnapshotsOf(u, n) : snaps[j].at <= snaps[i].at

\* Row locks.  A FOR UPDATE lock is held from the locking read to the end of
\* the transaction, a FOR SHARE lock from the moment the row is reached.
Writes(r)   == op[r].kind \in {"update", "delete"}
LockedBy(p) == {r \in Request : pc[r] = "locked" /\ op[r].pid = p}
\* Mutants: a plain SELECT; a transaction nobody rolls back after an exception.
SharedByNobody(p) == {}
SharedByLeaked(p) == {r \in Request : pc[r] \in {"reading", "refused"} /\ p \in shared[r]}
SharedBy(p) == {r \in Request : pc[r] = "reading" /\ p \in shared[r]}

Running == {"begun", "locked", "reading"}

\* Product ids a caller can have learnt: those some committed row has had.
Known == {p \in Product : Genesis[p] # NoRow \/ \E i \in 1..Len(log) : log[i].pid = p}

-----------------------------------------------------------------------------
Init ==
  /\ products = Genesis
  /\ issued   = {p \in Product : Genesis[p] # NoRow}
  /\ log      = <<>>
  /\ snaps    = <<>>
  /\ clock    = 0
  /\ pc       = [r \in Request |-> "idle"]
  /\ op       = [r \in Request |-> NoOp]
  /\ stamp    = [r \in Request |-> 0]
  /\ before   = [r \in Request |-> NoRow]
  /\ view     = [r \in Request |-> [p \in Product |-> NoRow]]
  /\ seen     = [r \in Request |-> 0]
  /\ moved    = [r \in Request |-> {}]
  /\ shared   = [r \in Request |-> {}]

\* BEGIN: from here on now() answers this instant.
Begin(r) ==
  /\ clock' = clock + 1
  /\ stamp' = [stamp EXCEPT ![r] = clock + 1]

Finish(r, outcome) == pc' = [pc EXCEPT ![r] = outcome]

\* A committed change of row p shows up as a conflict in every MVCC view that
\* is still open.
Touch(p) ==
  moved' = [r \in Request |-> IF pc[r] = "reading" THEN moved[r] \cup {p} ELSE moved[r]]

-----------------------------------------------------------------------------
(* Mutations *)

\* Mutant: the product is fetched but its owner is not compared.
AuthorizeAnyone(r, o) ==
  /\ pc[r] = "idle"
  /\ o.source = "api" /\ o.pid \in Known
  /\ op' = [op EXCEPT ![r] = o]
  /\ pc' = [pc EXCEPT ![r] = IF products[o.pid] = NoRow THEN "missing" ELSE "authorized"]
  /\ UNCHANGED <<tables, clock, stamp, before, reading>>

\* routes._get_owned_product: a read of its own, before the transaction.
Authorize(r, o) ==
  /\ pc[r] = "idle"
  /\ o.source = "api" /\ o.pid \in Known
  /\ op' = [op EXCEPT ![r] = o]
  /\ pc' = [pc EXCEPT ![r] = IF products[o.pid] = NoRow THEN "missing"
                             ELSE IF products[o.pid].owner # o.user THEN "refused"
                             ELSE "authorized"]
  /\ UNCHANGED <<tables, clock, stamp, before, reading>>

BeginMutation(r) ==
  /\ pc[r] = "authorized"
  /\ Begin(r)
  /\ pc' = [pc EXCEPT ![r] = "begun"]
  /\ UNCHANGED <<tables, op, before, reading>>

\* The agent tools update_product / delete_product call the repository with
\* the id the model gives them; the tool has no isin argument.
BeginAgentMutation(r, o) ==
  /\ pc[r] = "idle"
  /\ o.source = "agent" /\ o.pid \in Known
  /\ o.kind = "update" => o.patch.isin = Keep
  /\ op' = [op EXCEPT ![r] = o]
  /\ Begin(r)
  /\ pc' = [pc EXCEPT ![r] = "begun"]
  /\ UNCHANGED <<tables, before, reading>>

\* create takes no lock: a fresh id and BEGIN.
BeginCreate(r, u, p, d) ==
  /\ pc[r] = "idle"
  /\ p \notin issued
  /\ issued' = issued \cup {p}
  /\ op' = [op EXCEPT ![r] = [kind |-> "create", user |-> u, pid |-> p, data |-> d]]
  /\ Begin(r)
  /\ pc' = [pc EXCEPT ![r] = "begun"]
  /\ UNCHANGED <<products, log, snaps, before, reading>>

\* INSERT INTO products + INSERT INTO portfolio_changes + COMMIT.
CommitCreate(r) ==
  LET p   == op[r].pid
      row == [owner |-> op[r].user, data |-> op[r].data]
  IN /\ pc[r] = "begun"
     /\ op[r].kind = "create"
     /\ products' = [products EXCEPT ![p] = row]
     /\ log' = Append(log, [pid |-> p, before |-> NoRow, after |-> row, at |-> stamp[r]])
     /\ Finish(r, "done")
     /\ UNCHANGED <<issued, snaps, clock, op, stamp, before, reading>>

\* Mutant: the same read without FOR UPDATE.
ReadRow(r) ==
  LET p == op[r].pid
  IN /\ pc[r] = "begun"
     /\ Writes(r)
     /\ products[p] # NoRow
     /\ op[r].kind = "update" => ~ Empty(op[r].patch)
     /\ before' = [before EXCEPT ![r] = products[p]]
     /\ pc' = [pc EXCEPT ![r] = "locked"]
     /\ UNCHANGED <<tables, clock, op, stamp, reading>>

\* SELECT * FROM products WHERE id = $1 FOR UPDATE waits for every other lock
\* on the row, and reads the row as it is committed by then.
LockRow(r) ==
  LET p == op[r].pid
  IN /\ pc[r] = "begun"
     /\ Writes(r)
     /\ LockedBy(p) = {} /\ SharedBy(p) = {}
     /\ products[p] # NoRow
     /\ op[r].kind = "update" => ~ Empty(op[r].patch)
     /\ before' = [before EXCEPT ![r] = products[p]]
     /\ pc' = [pc EXCEPT ![r] = "locked"]
     /\ UNCHANGED <<tables, clock, op, stamp, reading>>

\* before_row is None: return None / False, nothing is logged.
MutateMissing(r) ==
  /\ pc[r] = "begun"
  /\ Writes(r)
  /\ products[op[r].pid] = NoRow
  /\ Finish(r, "missing")
  /\ UNCHANGED <<tables, clock, op, stamp, before, reading>>

\* An empty PATCH locks the row, returns it and logs nothing.
UpdateNothing(r) ==
  LET p == op[r].pid
  IN /\ pc[r] = "begun"
     /\ op[r].kind = "update"
     /\ Empty(op[r].patch)
     /\ LockedBy(p) = {} /\ SharedBy(p) = {}
     /\ products[p] # NoRow
     /\ Finish(r, "done")
     /\ UNCHANGED <<tables, clock, op, stamp, before, reading>>

\* UPDATE ... RETURNING * + the log row + COMMIT.
CommitUpdate(r) ==
  LET p     == op[r].pid
      after == Apply(op[r].patch, products[p])
  IN /\ pc[r] = "locked"
     /\ op[r].kind = "update"
     /\ products[p] # NoRow
     /\ products' = [products EXCEPT ![p] = after]
     /\ log' = Append(log, [pid |-> p, before |-> before[r], after |-> after, at |-> stamp[r]])
     /\ Touch(p)
     /\ Finish(r, "done")
     /\ UNCHANGED <<issued, snaps, clock, op, stamp, before, view, seen, shared>>

\* Mutant: the DELETE without its log row.
DeleteUnlogged(r) ==
  LET p == op[r].pid
  IN /\ pc[r] = "locked"
     /\ op[r].kind = "delete"
     /\ products[p] # NoRow
     /\ products' = [products EXCEPT ![p] = NoRow]
     /\ Touch(p)
     /\ Finish(r, "done")
     /\ UNCHANGED <<issued, log, snaps, clock, op, stamp, before, view, seen, shared>>

\* DELETE + the log row + COMMIT.
CommitDelete(r) ==
  LET p == op[r].pid
  IN /\ pc[r] = "locked"
     /\ op[r].kind = "delete"
     /\ products[p] # NoRow
     /\ products' = [products EXCEPT ![p] = NoRow]
     /\ log' = Append(log, [pid |-> p, before |-> before[r], after |-> NoRow, at |-> stamp[r]])
     /\ Touch(p)
     /\ Finish(r, "done")
     /\ UNCHANGED <<issued, snaps, clock, op, stamp, before, view, seen, shared>>

-----------------------------------------------------------------------------
(* Snapshots *)

BeginSnapshot(r, u) ==
  /\ pc[r] = "idle"
  /\ op' = [op EXCEPT ![r] = [kind |-> "snapshot", user |-> u]]
  /\ Begin(r)
  /\ pc' = [pc EXCEPT ![r] = "begun"]
  /\ UNCHANGED <<tables, before, reading>>

\* The first statement of a REPEATABLE READ transaction fixes its MVCC view,
\* of the products and of the snapshots alike.
TakeView(r) ==
  /\ pc[r] = "begun"
  /\ op[r].kind = "snapshot"
  /\ view'   = [view EXCEPT ![r] = PortfolioOf(op[r].user)]
  /\ seen'   = [seen EXCEPT ![r] = Len(snaps)]
  /\ moved'  = [moved EXCEPT ![r] = {}]
  /\ shared' = [shared EXCEPT ![r] = {}]
  /\ pc' = [pc EXCEPT ![r] = "reading"]
  /\ UNCHANGED <<tables, clock, op, stamp, before>>

\* Mutant: READ COMMITTED, where FOR SHARE re-reads the row once it has it.
ShareNewestRow(r, p) ==
  /\ pc[r] = "reading"
  /\ view[r][p] # NoRow
  /\ p \notin shared[r]
  /\ LockedBy(p) = {}
  /\ view'   = [view EXCEPT ![r][p] = OwnedBy(op[r].user, products[p])]
  /\ shared' = [shared EXCEPT ![r] = @ \cup {p}]
  /\ UNCHANGED <<tables, clock, pc, op, stamp, before, seen, moved>>

\* FOR SHARE reaches row p: it waits for a FOR UPDATE holder and then needs
\* the row to be the version of the view.
ShareRow(r, p) ==
  /\ pc[r] = "reading"
  /\ view[r][p] # NoRow
  /\ p \notin shared[r]
  /\ LockedBy(p) = {}
  /\ p \notin moved[r]
  /\ shared' = [shared EXCEPT ![r] = @ \cup {p}]
  /\ UNCHANGED <<tables, clock, pc, op, stamp, before, view, seen, moved>>

\* "could not serialize access due to concurrent update": rolled back, a 500.
ShareConflict(r, p) ==
  /\ pc[r] = "reading"
  /\ view[r][p] # NoRow
  /\ p \notin shared[r]
  /\ LockedBy(p) = {}
  /\ p \in moved[r]
  /\ Finish(r, "failed")
  /\ UNCHANGED <<tables, clock, op, stamp, before, reading>>

AllShared(r) == \A p \in Product : view[r][p] # NoRow => p \in shared[r]

\* current_products == prev_products, against the newest snapshot of the view.
Unchanged(r) ==
  LET u == op[r].user
  IN /\ SnapshotsOf(u, seen[r]) # {}
     /\ snaps[Latest(u, seen[r])].content = Contents(view[r])

\* SnapshotUnchangedError: a 409.
RefuseSnapshot(r) ==
  /\ pc[r] = "reading"
  /\ AllShared(r)
  /\ Unchanged(r)
  /\ Finish(r, "refused")
  /\ UNCHANGED <<tables, clock, op, stamp, before, reading>>

\* INSERT INTO portfolio_snapshots and snapshot_products + COMMIT.
SaveSnapshot(r) ==
  /\ pc[r] = "reading"
  /\ AllShared(r)
  /\ ~ Unchanged(r)
  /\ snaps' = Append(snaps, [owner |-> op[r].user, content |-> Contents(view[r]),
                             at |-> stamp[r], by |-> r])
  /\ Finish(r, "done")
  /\ UNCHANGED <<products, issued, log, clock, op, stamp, before, reading>>

-----------------------------------------------------------------------------
\* A lost connection or a crash of the process: PostgreSQL rolls back.
Abort(r) ==
  /\ pc[r] \in Running
  /\ Finish(r, "failed")
  /\ UNCHANGED <<tables, clock, op, stamp, before, reading>>

Receive(r) ==
  \/ \E u \in User, p \in Product, d \in Data : BeginCreate(r, u, p, d)
  \/ \E o \in Mutation : Authorize(r, o) \/ BeginAgentMutation(r, o)
  \/ \E u \in User : BeginSnapshot(r, u)

\* The steps the database and the server take once a request is in.
Serve(r) ==
  \/ BeginMutation(r)
  \/ CommitCreate(r)
  \/ LockRow(r) \/ MutateMissing(r) \/ UpdateNothing(r)
  \/ CommitUpdate(r) \/ CommitDelete(r)
  \/ TakeView(r)
  \/ \E p \in Product : ShareRow(r, p) \/ ShareConflict(r, p)
  \/ RefuseSnapshot(r) \/ SaveSnapshot(r)

Next == \E r \in Request : Receive(r) \/ Serve(r) \/ Abort(r)

Spec == Init /\ [][Next]_vars

\* Every request that is in is served: the event loop runs every task, and
\* PostgreSQL wakes a waiting lock once it is free.  Nobody is obliged to send
\* a request or to crash.
FairSpec == Spec /\ \A r \in Request : WF_vars(Serve(r))

-----------------------------------------------------------------------------
(* Properties *)

\* Every table and every transaction variable keeps its shape.
TypeOK ==
  /\ products \in [Product -> Row \cup {NoRow}]
  /\ issued \in SUBSET Product
  /\ log \in Seq(Change)
  /\ snaps \in Seq(Snapshot)
  /\ clock \in Nat
  /\ pc \in [Request -> PC]
  /\ op \in [Request -> Op \cup {NoOp}]
  /\ \A r \in Request : pc[r] # "idle" => op[r] \in Op
  /\ stamp \in [Request -> Nat]
  /\ before \in [Request -> Row \cup {NoRow}]
  /\ view \in [Request -> [Product -> Row \cup {NoRow}]]
  /\ seen \in [Request -> Nat]
  /\ moved \in [Request -> SUBSET Product]
  /\ shared \in [Request -> SUBSET Product]

\* Product p maps to row after the first k changes of a log: what the newest of
\* them about p left, or what p was before the log existed.
WasAt(changes, p, row, k) ==
  \/ \E i \in 1..k : /\ changes[i].pid = p
                     /\ changes[i].after = row
                     /\ \A j \in (i + 1)..k : changes[j].pid # p
  \/ /\ Genesis[p] = row
     /\ \A i \in 1..k : changes[i].pid # p

\* The change log explains the portfolio: every entry starts from the state the
\* entries before it left the product in, and all of them together lead to the
\* committed row, whatever mutations ran concurrently (AL-002, AL-004).
LogExplainsProducts ==
  /\ \A i \in 1..Len(log) : WasAt(log, log[i].pid, log[i].before, i - 1)
  /\ \A p \in Product : WasAt(log, p, products[p], Len(log))

\* A snapshot is the owner's portfolio as it was after some prefix of the
\* changes, never a mix of two moments (SNAP-011).
SnapshotIsOneMoment ==
  \A i \in 1..Len(snaps) :
    \E k \in 0..Len(log) :
      \A p \in Product :
        \E row \in Row \cup {NoRow} :
          /\ WasAt(log, p, row, k)
          /\ snaps[i].content[p] = Materialize(OwnedBy(snaps[i].owner, row))

\* When a snapshot is saved, every product in it is still live and unchanged:
\* no update or delete of a row commits between the snapshot's read of it and
\* its commit (ADR-5).  Only insertions may have happened meanwhile.
SavedRowsAreLive ==
  [][Len(snaps') > Len(snaps) =>
       \A p \in Product :
         LET saved == snaps'[Len(snaps')].content[p]
         IN saved # NoRow => saved = Materialize(products[p])]_vars

\* The REST ownership check runs before, and outside, the transaction it
\* guards; what it authorized still belongs to the caller when it commits.
ApiChangesOwnProduct ==
  \A r \in Request, i \in 1..Len(log) :
    /\ pc[r] = "done" /\ Writes(r)
    /\ op[r].source = "api"
    /\ log[i].at = stamp[r]
    => log[i].before.owner = op[r].user

\* Every request that came in is answered: no combination of row locks makes
\* the transactions wait for one another, and a snapshot overtaken by a writer
\* fails instead of waiting.
Answered(r) == pc[r] \in {"done", "missing", "refused", "failed"}
EveryRequestAnswered == \A r \in Request : pc[r] # "idle" ~> Answered(r)

-----------------------------------------------------------------------------
(* What the code and its documents say but concurrency takes away *)

\* "no point saving a duplicate": two snapshots of a user that are next to each
\* other in the list, newest first by created_at, never have the same content.
NextTo(i, j) ==
  /\ snaps[i].owner = snaps[j].owner
  /\ snaps[i].at < snaps[j].at
  /\ \A k \in SnapshotsOf(snaps[i].owner, Len(snaps)) :
       snaps[k].at <= snaps[i].at \/ snaps[k].at >= snaps[j].at
NoDuplicateVersions ==
  \A i, j \in 1..Len(snaps) : NextTo(i, j) => snaps[i].content # snaps[j].content

\* "the exact same field set as a live Product": a saved product carries every
\* field of the row it was taken from.
SnapshotCarriesLiveFields ==
  [][Len(snaps') > Len(snaps) =>
       \A p \in Product :
         LET saved == snaps'[Len(snaps')].content[p]
         IN saved # NoRow => saved = products[p]]_vars

-----------------------------------------------------------------------------
(* Refinement *)

OwnerOf(row) == row.owner

\* The transactions implement the atomic portfolio: a mutation takes effect at
\* its commit, a snapshot appears at its commit, everything else is invisible.
Abstract == INSTANCE AuditedPortfolio WITH
  rows     <- products,
  history  <- [i \in 1..Len(log) |->
                 [pid |-> log[i].pid, before |-> log[i].before, after |-> log[i].after]],
  versions <- [i \in 1..Len(snaps) |->
                 [owner |-> snaps[i].owner, content |-> snaps[i].content]],
  Owner    <- OwnerOf,
  Saved    <- Materialize

ImplementsAuditedPortfolio == Abstract!Spec

=============================================================================
