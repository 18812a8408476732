------------------------------ MODULE SyncRuns ------------------------------
(***************************************************************************)
(* Runs of a SharePoint catalog sync (catalog_sync/service.py, lock.py,    *)
(* scheduler.py, the webhook and the admin button), as concurrent tasks of *)
(* several worker processes over one PostgreSQL and one connection pool    *)
(* per process.  The normalized sync (catalog_normalized_sync/service.py)  *)
(* runs the same protocol under a lock of its own, with a row of its own   *)
(* for the hash that is always there: the behaviours where row is TRUE.    *)
(*                                                                         *)
(* The workbook is a sequence of versions; what a run writes is abstracted *)
(* to the version the catalog mirrors.  Every query of a run borrows a     *)
(* pool connection for the length of one action; the advisory lock keeps   *)
(* one for the whole run, the maintenance cycle another one.               *)
(***************************************************************************)
EXTENDS Integers, FiniteSets

CONSTANTS
  Worker,      \* server processes
  Run,         \* task slots
  Loop,        \* the slots that are maintenance loops
  Home,        \* the process of each slot
  Hash,        \* sha256 digests of workbooks
  NoHash,      \* last_processed_hash is NULL
  Content,     \* version -> its digest; versions 1..MaxVersion
  MaxVersion,  \* bound on the edits of the workbook
  Conns,       \* connections of a process's pool
  MaxRequests, \* bound on notifications and admin runs
  MaxFaults,   \* bound on exceptions, crashes and lost lock connections
  LockLoss     \* can the connection that holds the advisory lock die alone?

Version == 1..MaxVersion
Mixed   == 0   \* no version: a change set computed for other rows was applied

ASSUME SyncAssumption ==
  /\ Loop \subseteq Run
  /\ Home \in [Run -> Worker]
  /\ MaxVersion \in Nat \ {0}
  /\ Content \in [Version -> Hash]
  /\ NoHash \notin Hash
  /\ Conns \in Nat /\ MaxRequests \in Nat /\ MaxFaults \in Nat
  /\ LockLoss \in BOOLEAN

VARIABLES
  sheet,    \* version of the workbook in SharePoint
  catalog,  \* version the catalog mirrors
  applied,  \* versions some run has applied: history
  row,      \* is there a webhook_subscriptions row?
  stored,   \* its last_processed_hash
  pc,       \* where each run is
  force,    \* does the run ignore the stored hash?
  data,     \* version a run downloaded
  rows,     \* version of the catalog a run read in list_for_sync
  lost,     \* runs whose lock connection died under them
  requests, faults   \* spent so far

run  == <<force, data, rows>>
vars == <<sheet, catalog, applied, row, stored, pc, run, lost, requests, faults>>

Stages  == {"locked", "downloaded", "changed", "diffed", "applied"}
PC      == {"idle", "upkeep", "connecting", "waiting"} \cup Stages

-----------------------------------------------------------------------------
\* Mutant: the advisory lock is released once the download is done.
HoldsWhileDownloading(r) == pc[r] = "locked"

\* r holds pg_advisory_lock(SYNC_RUN_LOCK_KEY).
Holds(r)  == pc[r] \in Stages /\ r \notin lost
Locked    == \E r \in Run : Holds(r)

\* Connections of r's process that are taken: one per run from the moment it
\* waits for the lock, one more per maintenance cycle (its try-lock).
Taken(w) == Cardinality({r \in Run : Home[r] = w /\ pc[r] \in {"waiting"} \cup Stages})
            + Cardinality({r \in Loop : Home[r] = w /\ pc[r] # "idle"})
Free(r)  == Taken(Home[r]) < Conns

\* pg_try_advisory_lock(SUBSCRIPTION_JOB_LOCK_KEY) of a maintenance cycle.
JobLocked == \E r \in Loop : pc[r] # "idle"

Goto(r, where) == pc' = [pc EXCEPT ![r] = where]

\* The run leaves: its lock is released and its connections go back.
Leave(R) ==
  /\ pc'    = [r \in Run |-> IF r \in R THEN "idle" ELSE pc[r]]
  /\ force' = [r \in Run |-> IF r \in R THEN FALSE ELSE force[r]]
  /\ data'  = [r \in Run |-> IF r \in R THEN 0 ELSE data[r]]
  /\ rows'  = [r \in Run |-> IF r \in R THEN 0 ELSE rows[r]]
  /\ lost'  = lost \ R

Init ==
  /\ sheet = 1 /\ catalog = 1 /\ applied = {1}
  /\ row \in BOOLEAN /\ stored = NoHash
  /\ pc    = [r \in Run |-> "idle"]
  /\ force = [r \in Run |-> FALSE]
  /\ data  = [r \in Run |-> 0]
  /\ rows  = [r \in Run |-> 0]
  /\ lost  = {}
  /\ requests = 0 /\ faults = 0

-----------------------------------------------------------------------------
\* Somebody saves the workbook.
EditSheet ==
  /\ sheet < MaxVersion
  /\ sheet' = sheet + 1
  /\ UNCHANGED <<catalog, applied, row, stored, pc, run, lost, requests, faults>>

\* A notification of Graph or an admin's "run now" starts a task.  Graph tells
\* about the whole drive: one may come for any change, for none, or get lost.
Request(r, forced) ==
  /\ r \notin Loop
  /\ pc[r] = "idle"
  /\ requests < MaxRequests
  /\ requests' = requests + 1
  /\ force' = [force EXCEPT ![r] = forced]
  /\ Goto(r, "connecting")
  /\ UNCHANGED <<sheet, catalog, applied, row, stored, data, rows, lost, faults>>

\* A maintenance cycle begins; a loop that misses the try-lock skips the cycle.
StartCycle(r) ==
  /\ r \in Loop
  /\ pc[r] = "idle"
  /\ ~ JobLocked
  /\ Free(r)
  /\ Goto(r, "upkeep")
  /\ UNCHANGED <<sheet, catalog, applied, row, stored, run, lost, requests, faults>>

\* ensure_subscription creates the first subscription row; that it fails does
\* not stop the safety sync.
Upkeep(r) ==
  /\ pc[r] = "upkeep"
  /\ Free(r)
  /\ row' \in {row, TRUE}
  /\ Goto(r, "connecting")
  /\ UNCHANGED <<sheet, catalog, applied, stored, run, lost, requests, faults>>

\* advisory_lock: a dedicated connection ...
Connect(r) ==
  /\ pc[r] = "connecting"
  /\ Free(r)
  /\ Goto(r, "waiting")
  /\ UNCHANGED <<sheet, catalog, applied, row, stored, run, lost, requests, faults>>

\* ... and pg_advisory_lock on it,
Acquire(r) ==
  /\ pc[r] = "waiting"
  /\ ~ Locked
  /\ Goto(r, "locked")
  /\ UNCHANGED <<sheet, catalog, applied, row, stored, run, lost, requests, faults>>

\* for at most statement_timeout: LockTimeoutError ends the run.
LockTimeout(r) ==
  /\ pc[r] = "waiting"
  /\ Locked
  /\ Leave({r})
  /\ UNCHANGED <<sheet, catalog, applied, row, stored, requests, faults>>

Download(r) ==
  /\ pc[r] = "locked"
  /\ data' = [data EXCEPT ![r] = sheet]
  /\ Goto(r, "downloaded")
  /\ UNCHANGED <<sheet, catalog, applied, row, stored, force, rows, lost, requests, faults>>

\* last_hash == content_hash: skipped.
Skip(r) ==
  /\ pc[r] = "downloaded"
  /\ ~ force[r]
  /\ Free(r)
  /\ stored = Content[data[r]]
  /\ Leave({r})
  /\ UNCHANGED <<sheet, catalog, applied, row, stored, requests, faults>>

\* Mutant: the hash is stored as soon as it is known to be new.
StoreHashEarly(r) ==
  /\ pc[r] = "downloaded"
  /\ force[r] \/ (Free(r) /\ stored # Content[data[r]])
  /\ stored' = IF row THEN Content[data[r]] ELSE stored
  /\ Goto(r, "changed")
  /\ UNCHANGED <<sheet, catalog, applied, row, run, lost, requests, faults>>

Proceed(r) ==
  /\ pc[r] = "downloaded"
  /\ force[r] \/ (Free(r) /\ stored # Content[data[r]])
  /\ Goto(r, "changed")
  /\ UNCHANGED <<sheet, catalog, applied, row, stored, run, lost, requests, faults>>

\* list_for_sync and the diff, on the rows as they are now.
ReadRows(r) ==
  /\ pc[r] = "changed"
  /\ Free(r)
  /\ rows' = [rows EXCEPT ![r] = catalog]
  /\ Goto(r, "diffed")
  /\ UNCHANGED <<sheet, catalog, applied, row, stored, force, data, lost, requests, faults>>

\* What the changes that lead from version `from` to version `to` make of a
\* catalog: nothing if there are none, `to` if it was either of them.
Changed(from, to) ==
  IF from = to THEN catalog ELSE IF catalog \in {from, to} THEN to ELSE Mixed

\* apply_changeset: one transaction of statements computed from the rows read.
Apply(r) ==
  /\ pc[r] = "diffed"
  /\ Free(r)
  /\ catalog' = Changed(rows[r], data[r])
  /\ applied' = applied \cup {data[r]}
  /\ Goto(r, "applied")
  /\ UNCHANGED <<sheet, row, stored, run, lost, requests, faults>>

\* Mutant: the version is stored instead of its digest.
StoreVersion(r) ==
  /\ pc[r] = "applied"
  /\ Free(r)
  /\ stored' = IF row THEN data[r] ELSE stored
  /\ Leave({r})
  /\ UNCHANGED <<sheet, catalog, applied, row, requests, faults>>

\* UPDATE webhook_subscriptions SET last_processed_hash: no row, no effect.
StoreHash(r) ==
  /\ pc[r] = "applied"
  /\ Free(r)
  /\ stored' = IF row THEN Content[data[r]] ELSE stored
  /\ Leave({r})
  /\ UNCHANGED <<sheet, catalog, applied, row, requests, faults>>

-----------------------------------------------------------------------------
\* GraphError, a database error, a rolled back transaction: the exception
\* leaves the run, and nothing it has not committed remains.
Fail(r) ==
  /\ pc[r] \in Stages
  /\ faults < MaxFaults
  /\ faults' = faults + 1
  /\ Leave({r})
  /\ UNCHANGED <<sheet, catalog, applied, row, stored, requests>>

\* A process dies; PostgreSQL closes its sessions and with them its locks.
Crash(w) ==
  /\ faults < MaxFaults
  /\ \E r \in Run : Home[r] = w /\ pc[r] # "idle"
  /\ faults' = faults + 1
  /\ Leave({r \in Run : Home[r] = w})
  /\ UNCHANGED <<sheet, catalog, applied, row, stored, requests>>

\* The connection of the lock dies (a failover, a terminated backend); the run
\* only notices when it unlocks, and its queries use other connections.
LoseLock(r) ==
  /\ LockLoss
  /\ Holds(r)
  /\ faults < MaxFaults
  /\ faults' = faults + 1
  /\ lost' = lost \cup {r}
  /\ UNCHANGED <<sheet, catalog, applied, row, stored, pc, run, requests>>

Serve(r) ==
  \/ Upkeep(r) \/ Connect(r) \/ Acquire(r) \/ LockTimeout(r)
  \/ Download(r) \/ Skip(r) \/ Proceed(r)
  \/ ReadRows(r) \/ Apply(r) \/ StoreHash(r)

Next ==
  \/ EditSheet
  \/ \E r \in Run, forced \in BOOLEAN : Request(r, forced)
  \/ \E r \in Run : StartCycle(r) \/ Serve(r) \/ Fail(r) \/ LoseLock(r)
  \/ \E w \in Worker : Crash(w)

Spec == Init /\ [][Next]_vars

\* A run goes on when it can.  Strong fairness, because a pool hands its
\* connections and PostgreSQL its locks to those who wait in order of arrival.
\* Loops run for ever; nobody need edit the workbook, notify or fail.
FairSpec == /\ Spec
            /\ \A r \in Run : SF_vars(Serve(r))
            /\ \A r \in Loop : WF_vars(StartCycle(r))

-----------------------------------------------------------------------------
(* Properties *)

\* The state keeps its shape; a hash is a digest, a downloaded version exists.
TypeOK ==
  /\ sheet \in Version /\ catalog \in Version \cup {Mixed}
  /\ applied \subseteq Version
  /\ row \in BOOLEAN /\ stored \in Hash \cup {NoHash}
  /\ pc \in [Run -> PC] /\ force \in [Run -> BOOLEAN]
  /\ data \in [Run -> Version \cup {0}] /\ rows \in [Run -> Version \cup {Mixed}]
  /\ lost \subseteq Run
  /\ requests \in 0..MaxRequests /\ faults \in 0..MaxFaults
  /\ \A r \in Run : pc[r] \in Stages \ {"locked"} => data[r] \in Version

\* The stored hash is never ahead of the catalog: whatever fails, dies or loses
\* its lock, it is the digest of a workbook that was applied ("stored only
\* after a successful apply").
StoredWasApplied == stored # NoHash => \E v \in applied : stored = Content[v]

\* The workbook is in the catalog sooner or later after its last edit, though
\* notifications get lost, runs time out, fail and crash, and pools run dry.
CatchesUp == \A v \in Version : (sheet = v) ~> (sheet # v \/ catalog = v)

\* "Equal means skip", "unchanged content is a no-op": a run that finds its
\* download equal to the stored hash finds it in the catalog too.
SkipIsRight ==
  \A r \in Run :
    pc[r] = "downloaded" /\ ~ force[r] /\ stored = Content[data[r]] /\ catalog \in Version
      => Content[catalog] = Content[data[r]]

-----------------------------------------------------------------------------
(* Refinement: without a lost lock connection the runs, however many there  *)
(* are, act as one that applies a version and then remembers its digest.    *)

Serial == INSTANCE SerialSync
ImplementsSerialSync == Serial!Spec
=============================================================================
