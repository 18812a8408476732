--------------------------- MODULE SyncRunsProofs ---------------------------
(* Proofs about SyncRuns: the runs are typed, and as long as no run loses the *)
(* connection of its lock they implement the serial synchronization.          *)
EXTENDS SyncRuns, TLAPS

USE DEF Version, Stages, PC, run

\* The steps, flat: what a run, a process, the workbook or a fault does.
Step ==
  \/ EditSheet
  \/ \E r \in Run, forced \in BOOLEAN : Request(r, forced)
  \/ \E r \in Run : StartCycle(r)
  \/ \E r \in Run : Upkeep(r)
  \/ \E r \in Run : Connect(r)
  \/ \E r \in Run : Acquire(r)
  \/ \E r \in Run : LockTimeout(r)
  \/ \E r \in Run : Download(r)
  \/ \E r \in Run : Skip(r)
  \/ \E r \in Run : Proceed(r)
  \/ \E r \in Run : ReadRows(r)
  \/ \E r \in Run : Apply(r)
  \/ \E r \in Run : StoreHash(r)
  \/ \E r \in Run : Fail(r)
  \/ \E r \in Run : LoseLock(r)
  \/ \E w \in Worker : Crash(w)

\* A step of the specification is one of these.
LEMMA StepCases == Next => Step
  BY DEF Next, Serve, Step

\* The initial state is typed.
LEMMA InitTypeOK == Init => TypeOK
<1> SUFFICES ASSUME Init PROVE TypeOK
  OBVIOUS
<1>1. 1 \in Version /\ 0 \in 0..MaxRequests /\ 0 \in 0..MaxFaults
  BY SyncAssumption
<1>2. sheet \in Version /\ catalog \in Version /\ applied \subseteq Version
  BY <1>1 DEF Init
<1>3. pc \in [Run -> PC] /\ \A r \in Run : pc[r] = "idle"
  BY DEF Init
<1>4. force \in [Run -> BOOLEAN]
  BY DEF Init
<1>5. data \in [Run -> Version \cup {0}] /\ rows \in [Run -> Version \cup {Mixed}]
  BY DEF Init, Mixed
<1> QED BY <1>1, <1>2, <1>3, <1>4, <1>5 DEF Init, TypeOK

\* Leaving resets what a run had, and nothing else.
LEMMA LeaveType ==
  ASSUME TypeOK, NEW R \in SUBSET Run, Leave(R)
  PROVE  /\ pc' \in [Run -> PC] /\ force' \in [Run -> BOOLEAN]
         /\ data' \in [Run -> Version \cup {0}] /\ rows' \in [Run -> Version \cup {Mixed}]
         /\ lost' \subseteq Run
         /\ \A r \in Run : pc'[r] \in Stages \ {"locked"} => pc[r] = pc'[r] /\ data'[r] = data[r]
<1>1. pc' \in [Run -> PC]
  BY DEF Leave, TypeOK
<1>5. force' \in [Run -> BOOLEAN]
  BY DEF Leave, TypeOK
<1>6. data' \in [Run -> Version \cup {0}]
  BY DEF Leave, TypeOK
<1>7. rows' \in [Run -> Version \cup {Mixed}]
  BY DEF Leave, TypeOK, Mixed
<1>2. \A r \in Run : pc'[r] = IF r \in R THEN "idle" ELSE pc[r]
  BY DEF Leave
<1>3. \A r \in Run : data'[r] = IF r \in R THEN 0 ELSE data[r]
  BY DEF Leave
<1>4. lost' \subseteq Run
  BY DEF Leave, TypeOK
<1> QED BY <1>1, <1>2, <1>3, <1>4, <1>5, <1>6, <1>7

\* Every step keeps the state typed.
LEMMA NextTypeOK == TypeOK /\ [Next]_vars => TypeOK'
<1> SUFFICES ASSUME TypeOK, [Next]_vars PROVE TypeOK'
  OBVIOUS
<1> USE SyncAssumption
<1>1. CASE UNCHANGED vars
  BY <1>1 DEF vars, TypeOK
<1>2. CASE EditSheet
  BY <1>2 DEF EditSheet, TypeOK
<1>3. ASSUME NEW r \in Run, NEW forced \in BOOLEAN, Request(r, forced) PROVE TypeOK'
  BY <1>3 DEF Request, Goto, TypeOK
<1>4. ASSUME NEW r \in Run,
             StartCycle(r) \/ Upkeep(r) \/ Connect(r) \/ Acquire(r)
      PROVE  TypeOK'
  BY <1>4 DEF StartCycle, Upkeep, Connect, Acquire, Goto, TypeOK
<1>5. ASSUME NEW r \in Run, LockTimeout(r) \/ Skip(r) PROVE TypeOK'
  <2>1. Leave({r}) /\ UNCHANGED <<sheet, catalog, applied, row, stored, requests, faults>>
    BY <1>5 DEF LockTimeout, Skip
  <2> QED BY <2>1, LeaveType DEF TypeOK
<1>6. ASSUME NEW r \in Run, Download(r) PROVE TypeOK'
  BY <1>6 DEF Download, Goto, TypeOK
<1>7. ASSUME NEW r \in Run, Proceed(r) PROVE TypeOK'
  BY <1>7 DEF Proceed, Goto, TypeOK
<1>8. ASSUME NEW r \in Run, ReadRows(r) PROVE TypeOK'
  BY <1>8 DEF ReadRows, Goto, TypeOK
<1>9. ASSUME NEW r \in Run, Apply(r) PROVE TypeOK'
  <2>1. data[r] \in Version /\ rows[r] \in Version \cup {Mixed}
    BY <1>9 DEF Apply, TypeOK
  <2>2. catalog' \in Version \cup {Mixed} /\ applied' \subseteq Version
    BY <1>9, <2>1 DEF Apply, Changed, TypeOK
  <2> QED BY <1>9, <2>2 DEF Apply, Goto, TypeOK
<1>10. ASSUME NEW r \in Run, StoreHash(r) PROVE TypeOK'
  <2>1. /\ Leave({r}) /\ UNCHANGED <<sheet, catalog, applied, row, requests, faults>>
        /\ data[r] \in Version /\ stored' \in Hash \cup {NoHash}
    BY <1>10 DEF StoreHash, TypeOK
  <2> QED BY <2>1, LeaveType DEF TypeOK
<1>11. ASSUME NEW R \in SUBSET Run, faults < MaxFaults, faults' = faults + 1, Leave(R),
              UNCHANGED <<sheet, catalog, applied, row, stored, requests>>
       PROVE  TypeOK'
  BY <1>11, LeaveType DEF TypeOK
<1>12. ASSUME NEW r \in Run, Fail(r) PROVE TypeOK'
  BY <1>12, <1>11 DEF Fail
<1>13. ASSUME NEW r \in Run, LoseLock(r) PROVE TypeOK'
  BY <1>13 DEF LoseLock, TypeOK
<1>14. ASSUME NEW w \in Worker, Crash(w) PROVE TypeOK'
  BY <1>14, <1>11 DEF Crash
<1> QED BY <1>1, <1>2, <1>3, <1>4, <1>5, <1>6, <1>7, <1>8, <1>9, <1>10, <1>12, <1>13,
           <1>14, StepCases DEF Step

\* The type invariant, for every number of processes, runs and versions.
THEOREM TypeCorrect == Spec => []TypeOK
<1> QED BY InitTypeOK, NextTypeOK, PTL DEF Spec

-----------------------------------------------------------------------------
(* Serial synchronization *)

\* One run at a time is between the lock and its end.
OneRun == \A r, s \in Run : pc[r] \in Stages /\ pc[s] \in Stages => r = s

\* What the run that holds the lock knows is still so.
RunIsCurrent ==
  \A r \in Run :
    /\ pc[r] \in Stages \ {"locked"} => catalog <= data[r] /\ data[r] <= sheet
    /\ pc[r] = "diffed" => rows[r] = catalog
    /\ pc[r] = "applied" => catalog = data[r]

SyncInv ==
  /\ TypeOK
  /\ lost = {}
  /\ catalog \in Version /\ catalog <= sheet
  /\ OneRun
  /\ RunIsCurrent

\* Nothing has been synchronized at first.
LEMMA InitSyncInv == Init => SyncInv
<1> SUFFICES ASSUME Init PROVE SyncInv
  OBVIOUS
<1>1. \A r \in Run : pc[r] = "idle"
  BY DEF Init
<1>2. catalog = 1 /\ sheet = 1 /\ lost = {}
  BY DEF Init
<1> QED BY <1>1, <1>2, InitTypeOK, SyncAssumption DEF SyncInv, OneRun, RunIsCurrent

\* Runs that leave take nothing away from those that stay.
LEMMA LeaveKeeps ==
  ASSUME SyncInv, TypeOK', NEW R \in SUBSET Run, Leave(R), UNCHANGED <<sheet, catalog>>
  PROVE  SyncInv'
<1>1. \A r \in Run : pc'[r] \in Stages => pc[r] = pc'[r] /\ data'[r] = data[r] /\ rows'[r] = rows[r]
  BY DEF Leave
<1>2. lost' = {}
  BY DEF Leave, SyncInv
<1>3. OneRun'
  BY <1>1 DEF SyncInv, OneRun
<1>4. RunIsCurrent'
  BY <1>1 DEF SyncInv, RunIsCurrent
<1> QED BY <1>2, <1>3, <1>4 DEF SyncInv

\* The invariant survives every step when no lock connection is lost.
LEMMA NextSyncInv ==
  ASSUME LockLoss = FALSE, SyncInv, [Next]_vars PROVE SyncInv'
<1>0. TypeOK /\ TypeOK'
  BY NextTypeOK DEF SyncInv
<1> USE <1>0
<1>1. CASE UNCHANGED vars
  BY <1>1 DEF vars, SyncInv, OneRun, RunIsCurrent
<1>2. CASE EditSheet
  <2>1. sheet' = sheet + 1 /\ sheet \in Int /\ catalog \in Int
        /\ UNCHANGED <<catalog, pc, data, rows, lost>>
    BY <1>2, SyncAssumption DEF EditSheet, SyncInv, TypeOK
  <2>2. \A r \in Run : pc[r] \in Stages \ {"locked"} => data[r] \in Int
    BY SyncAssumption DEF TypeOK
  <2>3. RunIsCurrent'
    BY <2>1, <2>2 DEF SyncInv, RunIsCurrent
  <2> QED BY <2>1, <2>3 DEF SyncInv, OneRun
<1>3. ASSUME NEW r \in Run, NEW where \in PC \ Stages, Goto(r, where),
             UNCHANGED <<sheet, catalog, data, rows, lost>>
      PROVE  SyncInv'
  <2>1. \A s \in Run : pc'[s] \in Stages => pc[s] = pc'[s]
    BY <1>3 DEF Goto, TypeOK
  <2>2. OneRun' /\ RunIsCurrent'
    BY <1>3, <2>1 DEF SyncInv, OneRun, RunIsCurrent
  <2> QED BY <1>3, <2>2 DEF SyncInv
<1>4. ASSUME NEW r \in Run, NEW forced \in BOOLEAN, Request(r, forced) PROVE SyncInv'
  BY <1>3, <1>4 DEF Request
<1>5. ASSUME NEW r \in Run, StartCycle(r) \/ Upkeep(r) \/ Connect(r) PROVE SyncInv'
  BY <1>3, <1>5 DEF StartCycle, Upkeep, Connect
<1>6. ASSUME NEW r \in Run, Acquire(r) PROVE SyncInv'
  <2>1. \A s \in Run : pc[s] \notin Stages
    BY <1>6 DEF Acquire, Locked, Holds, SyncInv
  <2>2. \A s \in Run : pc'[s] \in Stages => s = r /\ pc'[s] = "locked"
    BY <1>6, <2>1 DEF Acquire, Goto, TypeOK
  <2>3. OneRun' /\ RunIsCurrent'
    BY <2>2 DEF OneRun, RunIsCurrent
  <2> QED BY <1>6, <2>3 DEF Acquire, SyncInv
<1>7. ASSUME NEW r \in Run, LockTimeout(r) \/ Skip(r) \/ StoreHash(r) \/ Fail(r) PROVE SyncInv'
  BY <1>7, LeaveKeeps DEF LockTimeout, Skip, StoreHash, Fail
<1>8. ASSUME NEW w \in Worker, Crash(w) PROVE SyncInv'
  BY <1>8, LeaveKeeps DEF Crash
<1>9. ASSUME NEW r \in Run, Download(r) \/ Proceed(r) \/ ReadRows(r) \/ Apply(r) PROVE SyncInv'
  <2>1. pc[r] \in Stages /\ pc'[r] \in Stages /\ lost' = {} /\ sheet' = sheet
    BY <1>9 DEF Download, Proceed, ReadRows, Apply, Goto, TypeOK, SyncInv
  <2>2. \A s \in Run \ {r} : pc[s] \notin Stages /\ pc'[s] = pc[s]
    BY <1>9, <2>1 DEF Download, Proceed, ReadRows, Apply, Goto, TypeOK, SyncInv, OneRun
  <2>3. OneRun'
    BY <2>1, <2>2 DEF OneRun
  <2>4. catalog \in Int /\ sheet \in Int /\ catalog \in Version /\ catalog <= sheet
    BY SyncAssumption DEF SyncInv, TypeOK
  <2>5. ASSUME Download(r) PROVE SyncInv'
    <3>1. catalog' = catalog /\ data'[r] = sheet /\ pc'[r] = "downloaded"
      BY <2>5 DEF Download, Goto, TypeOK
    <3>2. RunIsCurrent'
      BY <2>1, <2>2, <2>4, <3>1 DEF RunIsCurrent
    <3> QED BY <2>1, <2>3, <2>4, <3>1, <3>2 DEF SyncInv
  <2>6. ASSUME Proceed(r) PROVE SyncInv'
    <3>1. catalog' = catalog /\ data' = data /\ pc'[r] = "changed" /\ pc[r] = "downloaded"
      BY <2>6 DEF Proceed, Goto, TypeOK, run
    <3>2. RunIsCurrent'
      BY <2>1, <2>2, <3>1 DEF SyncInv, RunIsCurrent
    <3> QED BY <2>1, <2>3, <2>4, <3>1, <3>2 DEF SyncInv
  <2>7. ASSUME ReadRows(r) PROVE SyncInv'
    <3>1. catalog' = catalog /\ data' = data /\ rows'[r] = catalog
          /\ pc'[r] = "diffed" /\ pc[r] = "changed"
      BY <2>7 DEF ReadRows, Goto, TypeOK
    <3>2. RunIsCurrent'
      BY <2>1, <2>2, <3>1 DEF SyncInv, RunIsCurrent
    <3> QED BY <2>1, <2>3, <2>4, <3>1, <3>2 DEF SyncInv
  <2>8. ASSUME Apply(r) PROVE SyncInv'
    <3>1. rows[r] = catalog /\ catalog <= data[r] /\ data[r] <= sheet /\ data[r] \in Version
      BY <2>8 DEF Apply, SyncInv, RunIsCurrent, TypeOK
    <3>2. catalog' = data[r]
      BY <2>8, <3>1 DEF Apply, Changed
    <3>3. data' = data /\ pc'[r] = "applied"
      BY <2>8 DEF Apply, Goto, TypeOK, run
    <3>4. data[r] \in Int
      BY <3>1, SyncAssumption
    <3>5. RunIsCurrent'
      BY <2>1, <2>2, <3>1, <3>2, <3>3, <3>4 DEF RunIsCurrent
    <3> QED BY <2>1, <2>3, <3>1, <3>2, <3>3, <3>5 DEF SyncInv
  <2> QED BY <1>9, <2>5, <2>6, <2>7, <2>8
<1>10. ASSUME NEW r \in Run, LoseLock(r) PROVE SyncInv'
  BY <1>10 DEF LoseLock
<1> QED BY <1>1, <1>2, <1>4, <1>5, <1>6, <1>7, <1>8, <1>9, <1>10, StepCases DEF Step

\* A step of the runs is a step of the serial synchronization, or invisible to it.
LEMMA SerialStep ==
  ASSUME LockLoss = FALSE, SyncInv, SyncInv', [Next]_vars PROVE [Serial!Next]_(Serial!vars)
<1> USE DEF Serial!Next, Serial!vars
<1>1. CASE UNCHANGED vars
  BY <1>1 DEF vars
<1>2. CASE EditSheet
  BY <1>2 DEF EditSheet, Serial!Edit
<1>3. ASSUME NEW r \in Run, Apply(r) PROVE Serial!Follow
  <2>1. /\ rows[r] = catalog /\ catalog <= data[r] /\ data[r] <= sheet /\ data[r] \in Version
        /\ catalog \in Version /\ sheet \in Version
    BY <1>3 DEF Apply, SyncInv, RunIsCurrent, TypeOK
  <2>2. catalog' = data[r]
    BY <1>3, <2>1 DEF Apply, Changed
  <2>3. data[r] \in Int /\ catalog \in Int /\ sheet \in Int
    BY <2>1, SyncAssumption
  <2>4. data[r] \in catalog..sheet
    BY <2>1, <2>3
  <2> QED BY <1>3, <2>2, <2>4 DEF Apply, Serial!Follow
<1>4. ASSUME NEW r \in Run, StoreHash(r) PROVE [Serial!Next]_(Serial!vars)
  <2>1. catalog = data[r]
    BY <1>4 DEF StoreHash, SyncInv, RunIsCurrent
  <2> QED BY <1>4, <2>1 DEF StoreHash, Serial!Remember
<1>5. ASSUME NEW r \in Run,
             \/ StartCycle(r) \/ Upkeep(r) \/ Connect(r) \/ Acquire(r) \/ LockTimeout(r)
             \/ Download(r) \/ Skip(r) \/ Proceed(r) \/ ReadRows(r) \/ Fail(r) \/ LoseLock(r)
             \/ \E forced \in BOOLEAN : Request(r, forced)
             \/ \E w \in Worker : Crash(w)
      PROVE  UNCHANGED <<sheet, catalog, stored>>
  BY <1>5 DEF StartCycle, Upkeep, Connect, Acquire, LockTimeout, Download, Skip, Proceed,
              ReadRows, Fail, LoseLock, Request, Crash
<1>6. ASSUME NEW w \in Worker, Crash(w) PROVE UNCHANGED <<sheet, catalog, stored>>
  BY <1>6 DEF Crash
<1> QED BY <1>1, <1>2, <1>3, <1>4, <1>5, <1>6, StepCases DEF Step

\* Whatever runs overlap, wait, time out, fail and crash: as long as nobody loses
\* the connection of the lock, the runs are one serial synchronization, so the
\* catalog never goes back and the stored hash is of what the catalog holds when
\* it is stored (catalog_sync/service.py, "latest notification wins").
THEOREM RunsAreSerial == LockLoss = FALSE => (Spec => ImplementsSerialSync)
<1> SUFFICES ASSUME LockLoss = FALSE PROVE Spec => Serial!Spec
  BY DEF ImplementsSerialSync
<1>1. Init => Serial!Init
  BY DEF Init, Serial!Init
<1>2. SyncInv /\ SyncInv' /\ [Next]_vars => [Serial!Next]_(Serial!vars)
  BY SerialStep
<1>3. SyncInv /\ [Next]_vars => SyncInv'
  BY NextSyncInv
<1> QED BY <1>1, <1>2, <1>3, InitSyncInv, PTL DEF Spec, Serial!Spec
-----------------------------------------------------------------------------
(* The stored hash *)

\* A run that is about to store a hash has applied its workbook.
AppliedIsRecorded == \A r \in Run : pc[r] = "applied" => data[r] \in applied

HashInv == TypeOK /\ AppliedIsRecorded /\ StoredWasApplied

\* The hash survives every step, whatever fails and whoever loses the lock.
LEMMA NextHashInv == HashInv /\ [Next]_vars => HashInv'
<1> SUFFICES ASSUME HashInv, [Next]_vars PROVE HashInv'
  OBVIOUS
<1>0. TypeOK /\ TypeOK'
  BY NextTypeOK DEF HashInv
<1> USE <1>0 DEF HashInv, AppliedIsRecorded, StoredWasApplied
<1>1. CASE UNCHANGED vars
  BY <1>1 DEF vars
<1>2. ASSUME NEW R \in SUBSET Run, Leave(R), UNCHANGED <<applied, stored>> PROVE HashInv'
  <2>1. \A r \in Run : pc'[r] = "applied" => pc[r] = "applied" /\ data'[r] = data[r]
    BY <1>2, LeaveType
  <2> QED BY <1>2, <2>1
<1>3. ASSUME NEW r \in Run, NEW where \in PC \ {"applied"}, Goto(r, where),
             UNCHANGED <<applied, stored>>, \A s \in Run \ {r} : data'[s] = data[s]
      PROVE  HashInv'
  BY <1>3 DEF Goto, TypeOK
<1>4. CASE EditSheet
  BY <1>4 DEF EditSheet
<1>5. ASSUME NEW r \in Run, NEW forced \in BOOLEAN, Request(r, forced) PROVE HashInv'
  BY <1>3, <1>5 DEF Request
<1>6. ASSUME NEW r \in Run,
             \/ StartCycle(r) \/ Upkeep(r) \/ Connect(r) \/ Acquire(r)
             \/ Download(r) \/ Proceed(r) \/ ReadRows(r)
      PROVE  HashInv'
  <2>1. UNCHANGED <<applied, stored>> /\ \A s \in Run \ {r} : data'[s] = data[s]
    BY <1>6 DEF StartCycle, Upkeep, Connect, Acquire, Download, Proceed, ReadRows, TypeOK
  <2>2. \E where \in PC \ {"applied"} : Goto(r, where)
    BY <1>6 DEF StartCycle, Upkeep, Connect, Acquire, Download, Proceed, ReadRows
  <2> QED BY <1>3, <2>1, <2>2
<1>7. ASSUME NEW r \in Run, LockTimeout(r) \/ Skip(r) \/ Fail(r) PROVE HashInv'
  BY <1>2, <1>7 DEF LockTimeout, Skip, Fail
<1>8. ASSUME NEW w \in Worker, Crash(w) PROVE HashInv'
  BY <1>2, <1>8 DEF Crash
<1>9. ASSUME NEW r \in Run, Apply(r) PROVE HashInv'
  BY <1>9 DEF Apply, Goto, TypeOK
<1>10. ASSUME NEW r \in Run, StoreHash(r) PROVE HashInv'
  <2>1. \A s \in Run : pc'[s] = "applied" => pc[s] = "applied" /\ data'[s] = data[s]
    BY <1>10, LeaveType DEF StoreHash
  <2>2. applied' = applied /\ data[r] \in applied
    BY <1>10 DEF StoreHash
  <2>3. stored' = stored \/ stored' = Content[data[r]]
    BY <1>10 DEF StoreHash
  <2> QED BY <2>1, <2>2, <2>3
<1>11. ASSUME NEW r \in Run, LoseLock(r) PROVE HashInv'
  BY <1>11 DEF LoseLock
<1> QED BY <1>1, <1>4, <1>5, <1>6, <1>7, <1>8, <1>9, <1>10, <1>11, StepCases DEF Step

\* The stored hash is the digest of a workbook that some run applied, however
\* many runs overlap, fail, crash or go on without their lock
\* (catalog_sync/service.py, the hash is stored after the apply).
THEOREM StoredApplied == Spec => []StoredWasApplied
<1>1. Init => HashInv
  <2> SUFFICES ASSUME Init PROVE HashInv
    OBVIOUS
  <2>1. stored = NoHash /\ \A r \in Run : pc[r] = "idle"
    BY DEF Init
  <2> QED BY <2>1, InitTypeOK DEF HashInv, AppliedIsRecorded, StoredWasApplied
<1>2. HashInv => StoredWasApplied
  BY DEF HashInv
<1> QED BY <1>1, <1>2, NextHashInv, PTL DEF Spec
=============================================================================
