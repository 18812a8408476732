------------------------ MODULE PortfolioAuditProofs ------------------------
(* Machine-checked proofs about PortfolioAudit, for every set of users,      *)
(* products and requests and every portfolio that predates the change log.   *)
EXTENDS PortfolioAudit, TLAPS

-----------------------------------------------------------------------------
(* Types *)

USE DEF PC, tables, reading

\* The four shapes of request are told apart by their kind.
LEMMA OpShape ==
  ASSUME NEW o \in Op
  PROVE  /\ o.kind = "create" => o \in CreateOp
         /\ o.kind = "update" => o \in UpdateOp
         /\ o.kind = "delete" => o \in DeleteOp
         /\ o.kind = "snapshot" => o \in SnapshotOp
  BY DEF Op, CreateOp, UpdateOp, DeleteOp, SnapshotOp

\* A patched row is a row of the same owner.
LEMMA ApplyRow ==
  ASSUME NEW e \in Patch, NEW row \in Row
  PROVE  Apply(e, row) \in Row /\ Apply(e, row).owner = row.owner
  BY ConstantsAssumption DEF Apply, Over, Patch, Row, Data

\* What a snapshot stores for a row is again a row, or nothing.
LEMMA MaterializeRow ==
  ASSUME NEW row \in Row \cup {NoRow}
  PROVE  /\ Materialize(row) \in Row \cup {NoRow}
         /\ Materialize(row) = NoRow <=> row = NoRow
  BY ConstantsAssumption DEF Materialize, Row, Data

\* Reading a user's portfolio and materializing it gives rows again.
LEMMA PortfolioType ==
  ASSUME TypeOK, NEW u \in User
  PROVE  PortfolioOf(u) \in [Product -> Row \cup {NoRow}]
  BY DEF PortfolioOf, OwnedBy, TypeOK

\* What a snapshot would store for a portfolio is a portfolio of rows.
LEMMA ContentsType ==
  ASSUME NEW rows \in [Product -> Row \cup {NoRow}]
  PROVE  Contents(rows) \in [Product -> Row \cup {NoRow}]
  BY MaterializeRow DEF Contents

\* The steps, flat: the requests Receive lets in are updates and deletes.
Step(r) ==
  \/ \E u \in User, p \in Product, d \in Data : BeginCreate(r, u, p, d)
  \/ \E o \in UpdateOp \cup DeleteOp : Authorize(r, o) \/ BeginAgentMutation(r, o)
  \/ \E u \in User : BeginSnapshot(r, u)
  \/ BeginMutation(r) \/ CommitCreate(r) \/ LockRow(r)
  \/ MutateMissing(r) \/ UpdateNothing(r)
  \/ CommitUpdate(r) \/ CommitDelete(r) \/ TakeView(r)
  \/ \E p \in Product : ShareRow(r, p) \/ ShareConflict(r, p)
  \/ RefuseSnapshot(r) \/ SaveSnapshot(r) \/ Abort(r)

\* A step of the specification is a step of one request, or nothing changes.
LEMMA StepCases ==
  ASSUME [Next]_vars PROVE UNCHANGED vars \/ \E r \in Request : Step(r)
<1>1. Mutation \subseteq UpdateOp \cup DeleteOp
  BY DEF Mutation
<1>4. ASSUME NEW r \in Request, Receive(r) PROVE Step(r)
  BY <1>1, <1>4 DEF Receive, Step
<1>5. ASSUME NEW r \in Request, Serve(r) \/ Abort(r) PROVE Step(r)
  BY <1>5 DEF Serve, Step
<1> QED BY <1>4, <1>5 DEF Next

\* Only commits write the product table and the log.
LEMMA Writers ==
  ASSUME NEW r \in Request, Step(r)
  PROVE  \/ \E u \in User, p \in Product, d \in Data : BeginCreate(r, u, p, d)
         \/ CommitCreate(r) \/ CommitUpdate(r) \/ CommitDelete(r)
         \/ UNCHANGED <<products, log, issued>>
  BY DEF Step, Authorize, BeginAgentMutation, BeginSnapshot, BeginMutation,
         LockRow, MutateMissing, UpdateNothing, TakeView, ShareRow, ShareConflict,
         RefuseSnapshot, SaveSnapshot, Abort

\* The database a deployment starts from is typed.
LEMMA InitTypeOK == Init => TypeOK
  BY ConstantsAssumption DEF Init, TypeOK, PC

\* Every step of every request keeps the tables and the transactions typed.
LEMMA NextTypeOK == TypeOK /\ [Next]_vars => TypeOK'
<1> SUFFICES ASSUME TypeOK, [Next]_vars PROVE TypeOK'
  OBVIOUS
<1>1. CASE UNCHANGED vars
  BY <1>1 DEF vars, TypeOK
<1>2. ASSUME NEW r \in Request, NEW u \in User, NEW p \in Product, NEW d \in Data,
             BeginCreate(r, u, p, d)
      PROVE  TypeOK'
  <2>1. [kind |-> "create", user |-> u, pid |-> p, data |-> d] \in Op
    BY DEF Op, CreateOp
  <2> QED BY <1>2, <2>1 DEF BeginCreate, Begin, TypeOK
<1>3. ASSUME NEW r \in Request, NEW o \in UpdateOp \cup DeleteOp,
             Authorize(r, o) \/ BeginAgentMutation(r, o)
      PROVE  TypeOK'
  <2>1. o \in Op
    BY DEF Op
  <2>2. CASE Authorize(r, o)
    <3>1. PICK outcome \in {"missing", "refused", "authorized"} :
            pc' = [pc EXCEPT ![r] = outcome]
      BY <2>2 DEF Authorize
    <3> QED BY <2>1, <2>2, <3>1 DEF Authorize, TypeOK
  <2>3. CASE BeginAgentMutation(r, o)
    BY <2>1, <2>3 DEF BeginAgentMutation, Begin, TypeOK
  <2> QED BY <1>3, <2>2, <2>3
<1>4. ASSUME NEW r \in Request, NEW u \in User, BeginSnapshot(r, u)
      PROVE  TypeOK'
  <2>1. [kind |-> "snapshot", user |-> u] \in Op
    BY DEF Op, SnapshotOp
  <2> QED BY <1>4, <2>1 DEF BeginSnapshot, Begin, TypeOK
<1>5. ASSUME NEW r \in Request, BeginMutation(r) PROVE TypeOK'
  BY <1>5 DEF BeginMutation, Begin, TypeOK
<1>6. ASSUME NEW r \in Request, CommitCreate(r) PROVE TypeOK'
  <2>1. op[r] \in CreateOp
    BY <1>6, OpShape DEF CommitCreate, TypeOK
  <2>2. [owner |-> op[r].user, data |-> op[r].data] \in Row
    BY <2>1 DEF CreateOp, Row
  <2>3. op[r].pid \in Product
    BY <2>1 DEF CreateOp
  <2> QED BY <1>6, <2>2, <2>3 DEF CommitCreate, Finish, TypeOK, Change
<1>7. ASSUME NEW r \in Request, LockRow(r) PROVE TypeOK'
  <2>1. op[r] \in UpdateOp \cup DeleteOp
    BY <1>7, OpShape DEF LockRow, Writes, TypeOK
  <2>2. op[r].pid \in Product
    BY <2>1 DEF UpdateOp, DeleteOp
  <2> QED BY <1>7, <2>2 DEF LockRow, TypeOK
<1>8. ASSUME NEW r \in Request, MutateMissing(r) \/ UpdateNothing(r) PROVE TypeOK'
  BY <1>8 DEF MutateMissing, UpdateNothing, Finish, TypeOK
<1>9. ASSUME NEW r \in Request, CommitUpdate(r) PROVE TypeOK'
  <2>1. op[r] \in UpdateOp
    BY <1>9, OpShape DEF CommitUpdate, TypeOK
  <2>2. op[r].pid \in Product /\ op[r].patch \in Patch
    BY <2>1 DEF UpdateOp
  <2>3. products[op[r].pid] \in Row
    BY <1>9, <2>2 DEF CommitUpdate, TypeOK
  <2>4. Apply(op[r].patch, products[op[r].pid]) \in Row
    BY <2>2, <2>3, ApplyRow
  <2> QED BY <1>9, <2>2, <2>4 DEF CommitUpdate, Finish, Touch, TypeOK, Change
<1>10. ASSUME NEW r \in Request, CommitDelete(r) PROVE TypeOK'
  <2>1. op[r] \in DeleteOp
    BY <1>10, OpShape DEF CommitDelete, TypeOK
  <2>2. op[r].pid \in Product
    BY <2>1 DEF DeleteOp
  <2> QED BY <1>10, <2>2 DEF CommitDelete, Finish, Touch, TypeOK, Change
<1>11. ASSUME NEW r \in Request, TakeView(r) PROVE TypeOK'
  <2>1. op[r] \in SnapshotOp
    BY <1>11, OpShape DEF TakeView, TypeOK
  <2>2. PortfolioOf(op[r].user) \in [Product -> Row \cup {NoRow}]
    BY <2>1, PortfolioType DEF SnapshotOp
  <2> QED BY <1>11, <2>2 DEF TakeView, TypeOK
<1>12. ASSUME NEW r \in Request, NEW p \in Product, ShareRow(r, p) \/ ShareConflict(r, p)
       PROVE  TypeOK'
  <2>1. CASE ShareRow(r, p)
    <3>1. shared[r] \cup {p} \in SUBSET Product
      BY DEF TypeOK
    <3> QED BY <2>1, <3>1 DEF ShareRow, TypeOK
  <2>2. CASE ShareConflict(r, p)
    <3>1. op[r] \in Op
      BY <2>2 DEF ShareConflict, TypeOK
    <3> QED BY <2>2, <3>1 DEF ShareConflict, Finish, TypeOK
  <2> QED BY <1>12, <2>1, <2>2
<1>13. ASSUME NEW r \in Request, RefuseSnapshot(r) \/ Abort(r) PROVE TypeOK'
  <2>1. op[r] \in Op
    BY <1>13 DEF RefuseSnapshot, Abort, Running, TypeOK
  <2> QED BY <1>13, <2>1 DEF RefuseSnapshot, Abort, Finish, TypeOK
<1>14. ASSUME NEW r \in Request, SaveSnapshot(r) PROVE TypeOK'
  <2>1. op[r] \in Op
    BY <1>14 DEF SaveSnapshot, TypeOK
  <2>2. op[r].user \in User
    BY <2>1 DEF Op, CreateOp, UpdateOp, DeleteOp, SnapshotOp
  <2>3. Contents(view[r]) \in [Product -> Row \cup {NoRow}]
    BY ContentsType DEF TypeOK
  <2> QED BY <1>14, <2>2, <2>3 DEF SaveSnapshot, Finish, TypeOK, Snapshot
<1> QED BY <1>1, <1>2, <1>3, <1>4, <1>5, <1>6, <1>7, <1>8, <1>9, <1>10, <1>11, <1>12, <1>13, <1>14,
         StepCases DEF Step

\* The type invariant, for every instance.
THEOREM TypeCorrect == Spec => []TypeOK
<1>1. Init => TypeOK
  BY InitTypeOK
<1>2. TypeOK /\ [Next]_vars => TypeOK'
  BY NextTypeOK
<1> QED BY <1>1, <1>2, PTL DEF Spec

-----------------------------------------------------------------------------
(* The inductive invariant *)

Creating(r) == pc[r] = "begun" /\ op[r].kind = "create"

Unused(p) == /\ products[p] = NoRow
             /\ Genesis[p] = NoRow
             /\ \A i \in 1..Len(log) : log[i].pid # p

\* Ids not handed out, and ids handed out to a create that has not committed,
\* occur nowhere, and no two creates share one.
FreshIds ==
  /\ \A p \in Product : p \notin issued => Unused(p)
  /\ \A r \in Request : Creating(r) => op[r].pid \in issued /\ Unused(op[r].pid)
  /\ \A r, s \in Request : Creating(r) /\ Creating(s) /\ op[r].pid = op[s].pid => r = s

\* A FOR UPDATE holder is alone on its row and knows its committed state.
LockDiscipline ==
  /\ \A r \in Request : pc[r] \in {"authorized", "locked"} => Writes(r)
  /\ \A r \in Request : pc[r] = "locked" =>
       /\ products[op[r].pid] # NoRow
       /\ before[r] = products[op[r].pid]
  /\ \A r, s \in Request :
       pc[r] = "locked" /\ pc[s] = "locked" /\ op[r].pid = op[s].pid => r = s
  /\ \A r, s \in Request :
       pc[r] = "locked" /\ pc[s] = "reading" => op[r].pid \notin shared[s]

\* A row of an open view is live and unchanged until somebody changes it, and
\* nobody changes it once it is held FOR SHARE.
ViewDiscipline ==
  \A r \in Request : pc[r] = "reading" =>
    /\ op[r].kind = "snapshot"
    /\ \A p \in Product : view[r][p] # NoRow /\ p \notin moved[r] => products[p] = view[r][p]
    /\ shared[r] \cap moved[r] = {}

\* rows is what u owned after the first k of these changes.
PortfolioAt(changes, u, rows, k) ==
  \A p \in Product :
    \E row \in Row \cup {NoRow} : WasAt(changes, p, row, k) /\ rows[p] = OwnedBy(u, row)

\* An open view is the portfolio at some moment.
ViewIsOneMoment ==
  \A r \in Request : pc[r] = "reading" =>
    \E k \in 0..Len(log) : PortfolioAt(log, op[r].user, view[r], k)

IInv == /\ TypeOK
        /\ FreshIds
        /\ LockDiscipline
        /\ ViewDiscipline
        /\ ViewIsOneMoment
        /\ LogExplainsProducts
        /\ SnapshotIsOneMoment

\* Log g is log h and the change e: what held of a product after k changes still
\* does, and e determines the product it is about.
OneMore(h, e, g) ==
  /\ Len(h) \in Nat /\ Len(g) = Len(h) + 1
  /\ \A i \in 1..Len(h) : g[i] = h[i]
  /\ g[Len(h) + 1] = e
  /\ \A k \in 0..Len(h) : \A p, row : WasAt(h, p, row, k) => WasAt(g, p, row, k)
  /\ WasAt(g, e.pid, e.after, Len(h) + 1)
  /\ \A p, row : p # e.pid /\ WasAt(h, p, row, Len(h)) => WasAt(g, p, row, Len(h) + 1)

\* Appending a change keeps every earlier moment, and the new one differs from
\* the last only in the product the change is about.
LEMMA AppendWas ==
  ASSUME NEW h \in Seq(Change), NEW e \in Change PROVE OneMore(h, e, Append(h, e))
<1> DEFINE n == Len(h)
           g == Append(h, e)
<1>1. /\ n \in Nat
      /\ Len(g) = n + 1
      /\ \A i \in 1..n : g[i] = h[i]
      /\ g[n + 1] = e
  OBVIOUS
<1> HIDE DEF n, g
<1>2. ASSUME NEW k \in 0..n, NEW p, NEW row, WasAt(h, p, row, k)
      PROVE  WasAt(g, p, row, k)
  <2>1. \A i \in 1..k : i \in 1..n
    BY <1>1
  <2>2. \A i \in 1..k : \A j \in (i + 1)..k : j \in 1..n
    BY <1>1
  <2> QED BY <1>1, <1>2, <2>1, <2>2 DEF WasAt
<1>3. WasAt(g, e.pid, e.after, n + 1)
  <2>1. n + 1 \in 1..(n + 1) /\ \A j \in (n + 1 + 1)..(n + 1) : FALSE
    BY <1>1
  <2> QED BY <1>1, <2>1 DEF WasAt
<1>4. ASSUME NEW p, NEW row, p # e.pid, WasAt(h, p, row, n)
      PROVE  WasAt(g, p, row, n + 1)
  <2>1. \A i \in 1..(n + 1) : i \in 1..n \/ i = n + 1
    BY <1>1
  <2>2. ASSUME NEW i \in 1..n, h[i].pid = p, h[i].after = row,
               \A j \in (i + 1)..n : h[j].pid # p
        PROVE  WasAt(g, p, row, n + 1)
    <3>1. ASSUME NEW j \in (i + 1)..(n + 1) PROVE g[j].pid # p
      <4>1. CASE j \in (i + 1)..n
        BY <1>1, <2>2, <4>1
      <4>2. CASE j = n + 1
        BY <1>1, <1>4, <4>2
      <4> QED BY <1>1, <4>1, <4>2
    <3>2. i \in 1..(n + 1) /\ g[i].pid = p /\ g[i].after = row
      BY <1>1, <2>2
    <3> QED BY <3>1, <3>2 DEF WasAt
  <2>3. CASE Genesis[p] = row /\ \A i \in 1..n : h[i].pid # p
    BY <1>1, <1>4, <2>1, <2>3 DEF WasAt
  <2> QED BY <1>4, <2>2, <2>3 DEF WasAt
<1>5. OneMore(h, e, g)
  BY <1>1, <1>2, <1>3, <1>4 DEF OneMore, n
<1> QED BY <1>5 DEF g

\* Every step leaves the portfolio and the log alone or is one logged change
\* that starts from the committed row.
LEMMA OneLoggedChange ==
  ASSUME TypeOK, FreshIds, LockDiscipline, [Next]_vars
  PROVE  \/ products' = products /\ log' = log
         \/ \E e \in Change :
              /\ e.before = products[e.pid]
              /\ products' = [products EXCEPT ![e.pid] = e.after]
              /\ log' = Append(log, e)
              /\ snaps' = snaps
<1>1. CASE UNCHANGED vars
  BY <1>1 DEF vars
<1>2. ASSUME NEW r \in Request, CommitCreate(r)
      PROVE  \E e \in Change : /\ e.before = products[e.pid]
                               /\ products' = [products EXCEPT ![e.pid] = e.after]
                               /\ log' = Append(log, e) /\ snaps' = snaps
  <2> DEFINE row == [owner |-> op[r].user, data |-> op[r].data]
             e == [pid |-> op[r].pid, before |-> NoRow, after |-> row, at |-> stamp[r]]
  <2>1. op[r] \in CreateOp
    BY <1>2, OpShape DEF CommitCreate, TypeOK
  <2>2. e \in Change
    BY <2>1 DEF CreateOp, Row, Change, TypeOK
  <2>3. products[op[r].pid] = NoRow
    BY <1>2 DEF CommitCreate, FreshIds, Creating, Unused
  <2> QED BY <1>2, <2>2, <2>3 DEF CommitCreate
<1>3. ASSUME NEW r \in Request, CommitUpdate(r)
      PROVE  \E e \in Change : /\ e.before = products[e.pid]
                               /\ products' = [products EXCEPT ![e.pid] = e.after]
                               /\ log' = Append(log, e) /\ snaps' = snaps
  <2> DEFINE after == Apply(op[r].patch, products[op[r].pid])
             e == [pid |-> op[r].pid, before |-> before[r], after |-> after, at |-> stamp[r]]
  <2>1. op[r] \in UpdateOp
    BY <1>3, OpShape DEF CommitUpdate, TypeOK
  <2>2. products[op[r].pid] \in Row
    BY <1>3, <2>1 DEF CommitUpdate, UpdateOp, TypeOK
  <2>3. after \in Row
    BY <2>1, <2>2, ApplyRow DEF UpdateOp
  <2>4. e \in Change
    BY <2>1, <2>3 DEF UpdateOp, Change, TypeOK
  <2>5. before[r] = products[op[r].pid]
    BY <1>3 DEF CommitUpdate, LockDiscipline
  <2> QED BY <1>3, <2>4, <2>5 DEF CommitUpdate
<1>4. ASSUME NEW r \in Request, CommitDelete(r)
      PROVE  \E e \in Change : /\ e.before = products[e.pid]
                               /\ products' = [products EXCEPT ![e.pid] = e.after]
                               /\ log' = Append(log, e) /\ snaps' = snaps
  <2> DEFINE e == [pid |-> op[r].pid, before |-> before[r], after |-> NoRow, at |-> stamp[r]]
  <2>1. op[r] \in DeleteOp
    BY <1>4, OpShape DEF CommitDelete, TypeOK
  <2>2. e \in Change
    BY <2>1 DEF DeleteOp, Change, TypeOK
  <2>3. before[r] = products[op[r].pid]
    BY <1>4 DEF CommitDelete, LockDiscipline
  <2> QED BY <1>4, <2>2, <2>3 DEF CommitDelete
<1>5. ASSUME NEW r \in Request, Step(r),
             ~ CommitCreate(r), ~ CommitUpdate(r), ~ CommitDelete(r)
      PROVE  products' = products /\ log' = log
  BY <1>5, Writers DEF BeginCreate
<1> QED BY <1>1, <1>2, <1>3, <1>4, <1>5, StepCases

\* The log goes on explaining the products.
LEMMA LogStep ==
  ASSUME TypeOK, FreshIds, LockDiscipline, LogExplainsProducts, [Next]_vars
  PROVE  LogExplainsProducts'
<1>1. CASE products' = products /\ log' = log
  BY <1>1 DEF LogExplainsProducts
<1>2. ASSUME NEW e \in Change,
             e.before = products[e.pid],
             products' = [products EXCEPT ![e.pid] = e.after],
             log' = Append(log, e)
      PROVE  LogExplainsProducts'
  <2> DEFINE n == Len(log)
  <2>1. OneMore(log, e, log')
    BY <1>2, AppendWas DEF TypeOK
  <2>2. /\ n \in Nat /\ Len(log') = n + 1
        /\ \A i \in 1..n : log'[i] = log[i]
        /\ log'[n + 1] = e
        /\ \A k \in 0..n : \A p, row : WasAt(log, p, row, k) => WasAt(log', p, row, k)
        /\ WasAt(log', e.pid, e.after, n + 1)
        /\ \A p, row : p # e.pid /\ WasAt(log, p, row, n) => WasAt(log', p, row, n + 1)
    BY <2>1 DEF OneMore
  <2>3. /\ \A i \in 1..n : WasAt(log, log[i].pid, log[i].before, i - 1)
        /\ \A p \in Product : WasAt(log, p, products[p], n)
    BY DEF LogExplainsProducts
  <2> HIDE DEF n
  <2>4. ASSUME NEW i \in 1..(n + 1)
        PROVE  WasAt(log', log'[i].pid, log'[i].before, i - 1)
    <3>1. CASE i \in 1..n
      <4>1. i - 1 \in 0..n
        BY <2>2, <3>1
      <4> QED BY <2>2, <2>3, <3>1, <4>1
    <3>2. CASE i = n + 1
      <4>1. i - 1 = n /\ n \in 0..n
        BY <2>2, <3>2
      <4>2. WasAt(log, e.pid, e.before, n)
        BY <1>2, <2>3 DEF Change
      <4> QED BY <2>2, <3>2, <4>1, <4>2
    <3> QED BY <2>2, <3>1, <3>2
  <2>5. ASSUME NEW p \in Product
        PROVE  WasAt(log', p, products'[p], n + 1)
    <3>1. CASE p = e.pid
      BY <1>2, <2>2, <3>1 DEF TypeOK
    <3>2. CASE p # e.pid
      BY <1>2, <2>2, <2>3, <3>2 DEF TypeOK
    <3> QED BY <3>1, <3>2
  <2> QED BY <2>2, <2>4, <2>5 DEF LogExplainsProducts
<1> QED BY <1>1, <1>2, OneLoggedChange

\* Which steps can bring a request into a phase.
LEMMA Phases ==
  ASSUME TypeOK, LockDiscipline, NEW r \in Request, Step(r), NEW s \in Request
  PROVE  /\ s # r => pc'[s] = pc[s] /\ op'[s] = op[s] /\ before'[s] = before[s]
                      /\ view'[s] = view[s] /\ shared'[s] = shared[s]
         /\ pc[r] # "idle" => op'[r] = op[r]
         /\ pc'[r] = "locked" => LockRow(r)
         /\ pc'[r] = "authorized" => pc[r] = "idle" /\ op'[r] \in UpdateOp \cup DeleteOp
         /\ pc'[r] = "reading" => TakeView(r) \/ \E p \in Product : ShareRow(r, p)
         /\ pc'[r] = "begun" => \/ \E u \in User, p \in Product, d \in Data : BeginCreate(r, u, p, d)
                                \/ op'[r].kind # "create"
<1> USE DEF TypeOK, LockDiscipline, Begin, Finish, Touch
<1>1. CASE \E u \in User, p \in Product, d \in Data : BeginCreate(r, u, p, d)
  BY <1>1 DEF BeginCreate
<1>2. CASE \E o \in UpdateOp \cup DeleteOp : Authorize(r, o) \/ BeginAgentMutation(r, o)
  BY <1>2 DEF Authorize, BeginAgentMutation, UpdateOp, DeleteOp
<1>3. CASE \E u \in User : BeginSnapshot(r, u)
  BY <1>3 DEF BeginSnapshot
<1>4. CASE BeginMutation(r)
  BY <1>4 DEF BeginMutation, Writes
<1>5. CASE CommitCreate(r) \/ MutateMissing(r) \/ UpdateNothing(r)
  BY <1>5 DEF CommitCreate, MutateMissing, UpdateNothing
<1>6. CASE LockRow(r)
  BY <1>6 DEF LockRow
<1>7. CASE CommitUpdate(r) \/ CommitDelete(r)
  BY <1>7 DEF CommitUpdate, CommitDelete
<1>8. CASE TakeView(r)
  BY <1>8 DEF TakeView
<1>9. CASE \E p \in Product : ShareRow(r, p) \/ ShareConflict(r, p)
  BY <1>9 DEF ShareRow, ShareConflict
<1>10. CASE RefuseSnapshot(r) \/ SaveSnapshot(r) \/ Abort(r)
  BY <1>10 DEF RefuseSnapshot, SaveSnapshot, Abort
<1> QED BY <1>1, <1>2, <1>3, <1>4, <1>5, <1>6, <1>7, <1>8, <1>9, <1>10 DEF Step

\* Ids stay fresh until their create commits.
LEMMA FreshStep ==
  ASSUME TypeOK, FreshIds, LockDiscipline, [Next]_vars
  PROVE  FreshIds'
<1>1. CASE UNCHANGED vars
  BY <1>1 DEF vars, FreshIds, Creating, Unused
<1>2. ASSUME NEW r \in Request, NEW u \in User, NEW p \in Product, NEW d \in Data,
             BeginCreate(r, u, p, d), Step(r)
      PROVE  FreshIds'
  <2>1. \A s \in Request : s # r => (Creating(s)' <=> Creating(s)) /\ op'[s] = op[s]
    BY <1>2 DEF BeginCreate, Creating, TypeOK
  <2>2. op'[r].pid = p /\ issued' = issued \cup {p} /\ products' = products /\ log' = log
    BY <1>2 DEF BeginCreate, TypeOK
  <2>3. Unused(p) /\ p \notin issued
    BY <1>2 DEF BeginCreate, FreshIds
  <2>4. \A q : Unused(q) => Unused(q)'
    BY <2>2 DEF Unused
  <2> QED BY <2>1, <2>2, <2>3, <2>4 DEF FreshIds
<1>3. ASSUME NEW r \in Request, Step(r), UNCHANGED <<products, log, issued>>,
             ~ \E u \in User, p \in Product, d \in Data : BeginCreate(r, u, p, d)
      PROVE  FreshIds'
  <2>1. \A s \in Request : Creating(s)' => Creating(s) /\ op'[s] = op[s]
    <3>1. ~ Creating(r)' \/ (Creating(r) /\ op'[r] = op[r])
      BY <1>3, Phases DEF Creating
    <3> QED BY <1>3, <3>1, Phases DEF Creating
  <2>2. \A q : Unused(q) => Unused(q)'
    BY <1>3 DEF Unused
  <2> QED BY <1>3, <2>1, <2>2 DEF FreshIds
<1>4. ASSUME NEW r \in Request, Step(r), CommitCreate(r) \/ CommitUpdate(r) \/ CommitDelete(r)
      PROVE  FreshIds'
  <2> DEFINE p == op[r].pid
  <2>1. p \in Product /\ p \in issued /\ issued' = issued
    <3>1. op[r] \in CreateOp \cup UpdateOp \cup DeleteOp
      BY <1>4, OpShape DEF CommitCreate, CommitUpdate, CommitDelete, TypeOK
    <3>2. p \in Product
      BY <3>1 DEF CreateOp, UpdateOp, DeleteOp
    <3>3. CASE CommitCreate(r)
      BY <3>2, <3>3 DEF CommitCreate, FreshIds, Creating
    <3>4. CASE CommitUpdate(r) \/ CommitDelete(r)
      BY <3>2, <3>4 DEF CommitUpdate, CommitDelete, FreshIds, Unused
    <3> QED BY <1>4, <3>2, <3>3, <3>4
  <2>2. ASSUME NEW s \in Request, Creating(s)'
        PROVE  Creating(s) /\ op'[s] = op[s] /\ op[s].pid # p
    <3>1. s # r
      BY <1>4, <2>2 DEF CommitCreate, CommitUpdate, CommitDelete, Finish, Creating, TypeOK
    <3>2. Creating(s) /\ op'[s] = op[s]
      BY <1>4, <2>2, <3>1, Phases DEF Creating
    <3>3. CASE CommitCreate(r)
      BY <3>1, <3>2, <3>3 DEF CommitCreate, FreshIds, Creating
    <3>4. CASE CommitUpdate(r) \/ CommitDelete(r)
      BY <3>2, <3>4 DEF CommitUpdate, CommitDelete, FreshIds, Unused
    <3> QED BY <1>4, <3>2, <3>3, <3>4
  <2>3. ASSUME NEW q \in Product, q # p, Unused(q) PROVE Unused(q)'
    <3>1. products'[q] = products[q]
      BY <1>4, <2>3 DEF CommitCreate, CommitUpdate, CommitDelete, TypeOK
    <3>2. PICK e : log' = Append(log, e) /\ e.pid = p
      BY <1>4 DEF CommitCreate, CommitUpdate, CommitDelete
    <3>3. \A i \in 1..Len(log') : log'[i].pid = p \/ (i \in 1..Len(log) /\ log'[i] = log[i])
      BY <3>2 DEF TypeOK
    <3> QED BY <2>3, <3>1, <3>3 DEF Unused
  <2>4. \A s \in Request : Creating(s)' => op[s].pid \in Product
    <3> SUFFICES ASSUME NEW s \in Request, Creating(s)' PROVE op[s].pid \in Product
      OBVIOUS
    <3>1. op[s].pid \in issued
      BY <2>2 DEF FreshIds
    <3> QED BY <3>1 DEF TypeOK
  <2> QED BY <2>1, <2>2, <2>3, <2>4 DEF FreshIds
<1>5. ASSUME NEW r \in Request, Step(r) PROVE FreshIds'
  <2> QED BY <1>2, <1>3, <1>4, <1>5, Writers
<1> QED BY <1>1, <1>5, StepCases

\* Row locks exclude one another, and what was read under one stays current.
LEMMA LockStep ==
  ASSUME TypeOK, FreshIds, LockDiscipline, [Next]_vars
  PROVE  LockDiscipline'
<1>1. CASE UNCHANGED vars
  BY <1>1 DEF vars, LockDiscipline, Writes
<1>2. ASSUME NEW r \in Request, Step(r) PROVE LockDiscipline'
  <2>1. ASSUME NEW s \in Request, pc'[s] \in {"authorized", "locked"} PROVE Writes(s)'
    <3>1. CASE s # r
      BY <1>2, <2>1, <3>1, Phases DEF LockDiscipline, Writes
    <3>2. CASE s = r /\ pc'[r] = "authorized"
      BY <1>2, <3>2, Phases DEF Writes, UpdateOp, DeleteOp
    <3>3. CASE s = r /\ pc'[r] = "locked"
      BY <1>2, <3>3, Phases DEF Writes, LockRow
    <3> QED BY <2>1, <3>1, <3>2, <3>3
  <2>2. ASSUME NEW s \in Request, pc'[s] = "locked"
        PROVE  products'[op'[s].pid] # NoRow /\ before'[s] = products'[op'[s].pid]
    <3>1. CASE s = r
      BY <1>2, <2>2, <3>1, Phases DEF LockRow, TypeOK
    <3>2. CASE s # r
      <4>1. pc[s] = "locked" /\ op'[s] = op[s] /\ before'[s] = before[s]
        BY <1>2, <2>2, <3>2, Phases
      <4>2. products[op[s].pid] # NoRow /\ before[s] = products[op[s].pid]
        BY <4>1 DEF LockDiscipline
      <4>3. CASE products' = products
        BY <4>1, <4>2, <4>3
      <4>4. CASE CommitCreate(r)
        BY <4>1, <4>2, <4>4 DEF CommitCreate, FreshIds, Creating, Unused, TypeOK
      <4>5. CASE CommitUpdate(r) \/ CommitDelete(r)
        <5>1. op[r].pid # op[s].pid
          BY <3>2, <4>1, <4>5 DEF CommitUpdate, CommitDelete, LockDiscipline
        <5>2. op[s] \in UpdateOp \cup DeleteOp
          BY <4>1, OpShape DEF LockDiscipline, Writes, TypeOK
        <5>3. op[s].pid \in Product
          BY <5>2 DEF UpdateOp, DeleteOp
        <5>4. products'[op[s].pid] = products[op[s].pid]
          BY <4>5, <5>1, <5>3 DEF CommitUpdate, CommitDelete, TypeOK
        <5> QED BY <4>1, <4>2, <5>4
      <4>6. products' # products => CommitCreate(r) \/ CommitUpdate(r) \/ CommitDelete(r)
        BY <1>2, Writers DEF BeginCreate
      <4> QED BY <4>3, <4>4, <4>5, <4>6
    <3> QED BY <3>1, <3>2
  <2>3. ASSUME NEW s \in Request, NEW t \in Request,
               pc'[s] = "locked", pc'[t] = "locked", op'[s].pid = op'[t].pid
        PROVE  s = t
    <3>1. CASE s # r /\ t # r
      BY <1>2, <2>3, <3>1, Phases DEF LockDiscipline
    <3>2. ASSUME NEW v \in Request, v # r, pc'[v] = "locked", pc'[r] = "locked",
                 op'[v].pid = op'[r].pid
          PROVE  FALSE
      <4>1. LockRow(r) /\ pc[v] = "locked" /\ op'[v] = op[v]
        BY <1>2, <3>2, Phases
      <4>2. op'[r] = op[r] /\ LockedBy(op[r].pid) = {}
        BY <4>1 DEF LockRow
      <4> QED BY <3>2, <4>1, <4>2 DEF LockedBy
    <3> QED BY <2>3, <3>1, <3>2
  <2>4. ASSUME NEW s \in Request, NEW t \in Request, pc'[s] = "locked", pc'[t] = "reading"
        PROVE  op'[s].pid \notin shared'[t]
    <3>1. CASE s # r /\ t # r
      BY <1>2, <2>4, <3>1, Phases DEF LockDiscipline
    <3>2. CASE s = r
      <4>1. LockRow(r) /\ t # r
        BY <1>2, <2>4, <3>2, Phases
      <4>2. pc[t] = "reading" /\ shared'[t] = shared[t]
        BY <1>2, <2>4, <4>1, Phases
      <4>3. op'[r] = op[r] /\ SharedBy(op[r].pid) = {}
        BY <4>1 DEF LockRow
      <4> QED BY <3>2, <4>2, <4>3 DEF SharedBy
    <3>3. CASE s # r /\ t = r
      <4>1. pc[s] = "locked" /\ op'[s] = op[s]
        BY <1>2, <2>4, <3>3, Phases
      <4>2. CASE TakeView(r)
        BY <3>3, <4>2 DEF TakeView, TypeOK
      <4>3. ASSUME NEW p \in Product, ShareRow(r, p) PROVE op'[s].pid \notin shared'[t]
        <5>1. p # op[s].pid
          BY <4>1, <4>3 DEF ShareRow, LockedBy
        <5>2. op[s].pid \notin shared[r]
          BY <4>1, <4>3 DEF ShareRow, LockDiscipline
        <5> QED BY <3>3, <4>1, <4>3, <5>1, <5>2 DEF ShareRow, TypeOK
      <4> QED BY <1>2, <2>4, <3>3, <4>2, <4>3, Phases
    <3> QED BY <3>1, <3>2, <3>3
  <2> QED BY <2>1, <2>2, <2>3, <2>4 DEF LockDiscipline
<1> QED BY <1>1, <1>2, StepCases

\* An open view stays current on every row nobody has changed since, and the
\* rows it holds FOR SHARE are such rows.
LEMMA ViewStep ==
  ASSUME TypeOK, FreshIds, LockDiscipline, ViewDiscipline, [Next]_vars
  PROVE  ViewDiscipline'
<1>1. CASE UNCHANGED vars
  BY <1>1 DEF vars, ViewDiscipline
<1>2. ASSUME NEW r \in Request, Step(r), NEW s \in Request, pc'[s] = "reading"
      PROVE  /\ op'[s].kind = "snapshot"
             /\ \A p \in Product : view'[s][p] # NoRow /\ p \notin moved'[s]
                                    => products'[p] = view'[s][p]
             /\ shared'[s] \cap moved'[s] = {}
  <2>1. CASE TakeView(r) /\ s = r
    <3>1. /\ op' = op /\ products' = products
          /\ view'[s] = PortfolioOf(op[s].user) /\ shared'[s] = {}
      BY <2>1 DEF TakeView, TypeOK
    <3>2. op[s].kind = "snapshot"
      BY <2>1 DEF TakeView
    <3>3. \A p \in Product : PortfolioOf(op[s].user)[p] # NoRow
                             => products[p] = PortfolioOf(op[s].user)[p]
      BY DEF PortfolioOf, OwnedBy
    <3> QED BY <3>1, <3>2, <3>3
  <2>2. CASE \E p \in Product : ShareRow(r, p) /\ s = r
    <3>1. PICK p \in Product : ShareRow(r, p)
      BY <2>2
    <3>2. pc[s] = "reading" /\ p \notin moved[s]
      BY <2>2, <3>1 DEF ShareRow
    <3>3. op' = op /\ products' = products /\ view' = view /\ moved' = moved
      BY <3>1 DEF ShareRow
    <3>4. shared'[s] = shared[s] \cup {p}
      BY <2>2, <3>1 DEF ShareRow, TypeOK
    <3> QED BY <3>2, <3>3, <3>4 DEF ViewDiscipline
  <2>3. CASE s # r
    <3>1. /\ pc[s] = "reading" /\ op'[s] = op[s]
          /\ view'[s] = view[s] /\ shared'[s] = shared[s]
      BY <1>2, <2>3, Phases
    <3>2. /\ op[s].kind = "snapshot"
          /\ \A p \in Product : view[s][p] # NoRow /\ p \notin moved[s] => products[p] = view[s][p]
          /\ shared[s] \cap moved[s] = {}
      BY <3>1 DEF ViewDiscipline
    <3>3. CASE CommitCreate(r)
      <4>1. op[r].pid \in Product /\ products[op[r].pid] = NoRow
        BY <3>3 DEF CommitCreate, FreshIds, Creating, Unused, TypeOK
      <4>2. moved' = moved
        BY <3>3 DEF CommitCreate
      <4>3. \A p \in Product : p # op[r].pid => products'[p] = products[p]
        BY <3>3 DEF CommitCreate, TypeOK
      <4>4. ASSUME NEW p \in Product, view[s][p] # NoRow, p \notin moved[s]
            PROVE  products'[p] = view[s][p]
        <5>1. products[p] = view[s][p]
          BY <3>2, <4>4
        <5>2. p # op[r].pid
          BY <4>1, <4>4, <5>1
        <5> QED BY <4>3, <5>1, <5>2
      <4> QED BY <3>1, <3>2, <4>2, <4>4
    <3>4. CASE CommitUpdate(r) \/ CommitDelete(r)
      <4>1. moved'[s] = moved[s] \cup {op[r].pid}
        BY <3>1, <3>4 DEF CommitUpdate, CommitDelete, Touch, TypeOK
      <4>2. op[r].pid \notin shared[s]
        BY <3>1, <3>4 DEF CommitUpdate, CommitDelete, LockDiscipline
      <4>3. \A p \in Product : p # op[r].pid => products'[p] = products[p]
        BY <3>4 DEF CommitUpdate, CommitDelete, TypeOK
      <4> QED BY <3>1, <3>2, <4>1, <4>2, <4>3
    <3>5. CASE ~ (CommitCreate(r) \/ CommitUpdate(r) \/ CommitDelete(r))
      <4>1. products' = products
        BY <1>2, <3>5, Writers DEF BeginCreate
      <4>2. moved'[s] = moved[s]
        <5>1. TakeView(r) \/ moved' = moved
          BY <1>2, <3>5 DEF Step, BeginCreate, Authorize, BeginAgentMutation, BeginSnapshot,
             BeginMutation, LockRow, MutateMissing, UpdateNothing, ShareRow, ShareConflict,
             RefuseSnapshot, SaveSnapshot, Abort
        <5>2. TakeView(r) => moved'[s] = moved[s]
          BY <2>3 DEF TakeView, TypeOK
        <5> QED BY <5>1, <5>2
      <4> QED BY <3>1, <3>2, <4>1, <4>2
    <3> QED BY <3>3, <3>4, <3>5
  <2> QED BY <1>2, <2>1, <2>2, <2>3, Phases
<1> QED BY <1>1, <1>2, StepCases DEF ViewDiscipline

\* A portfolio of the past stays one as the log grows.
LEMMA MomentKept ==
  ASSUME TypeOK, FreshIds, LockDiscipline, [Next]_vars,
         NEW u, NEW rows, NEW k \in 0..Len(log), PortfolioAt(log, u, rows, k)
  PROVE  k \in 0..Len(log') /\ PortfolioAt(log', u, rows, k)
<1>1. CASE log' = log
  BY <1>1
<1>2. ASSUME NEW e \in Change, log' = Append(log, e)
      PROVE  k \in 0..Len(log') /\ PortfolioAt(log', u, rows, k)
  <2>1. OneMore(log, e, log')
    BY <1>2, AppendWas DEF TypeOK
  <2>2. /\ k \in 0..Len(log')
        /\ \A p, row : WasAt(log, p, row, k) => WasAt(log', p, row, k)
    BY <2>1 DEF OneMore
  <2> QED BY <2>2 DEF PortfolioAt
<1> QED BY <1>1, <1>2, OneLoggedChange

\* The view taken now is the portfolio after all changes so far.
LEMMA MomentTaken ==
  ASSUME TypeOK, LogExplainsProducts, NEW u
  PROVE  Len(log) \in 0..Len(log) /\ PortfolioAt(log, u, PortfolioOf(u), Len(log))
<1>1. Len(log) \in Nat
  BY DEF TypeOK
<1>2. \A p \in Product : products[p] \in Row \cup {NoRow} /\ WasAt(log, p, products[p], Len(log))
  BY DEF LogExplainsProducts, TypeOK
<1> QED BY <1>1, <1>2 DEF PortfolioAt, PortfolioOf

\* Open views go on being the portfolio at one moment.
LEMMA ViewMomentStep ==
  ASSUME TypeOK, FreshIds, LockDiscipline, LogExplainsProducts, ViewIsOneMoment, [Next]_vars
  PROVE  ViewIsOneMoment'
<1> DEFINE Moment(l, u, rows) == \E k \in 0..Len(l) : PortfolioAt(l, u, rows, k)
<1>1. \A u, rows : Moment(log, u, rows) => Moment(log', u, rows)
  BY MomentKept
<1>2. \A s \in Request : pc[s] = "reading" => Moment(log, op[s].user, view[s])
  BY DEF ViewIsOneMoment
<1>3. CASE UNCHANGED vars
  BY <1>3 DEF vars, ViewIsOneMoment
<1>4. ASSUME NEW r \in Request, Step(r), NEW s \in Request, pc'[s] = "reading"
      PROVE  Moment(log', op'[s].user, view'[s])
  <2>1. CASE s # r
    <3>1. pc[s] = "reading" /\ op'[s] = op[s] /\ view'[s] = view[s]
      BY <1>4, <2>1, Phases
    <3> QED BY <1>1, <1>2, <3>1
  <2>2. CASE s = r /\ \E p \in Product : ShareRow(r, p)
    <3>1. pc[s] = "reading" /\ op' = op /\ view' = view
      BY <2>2 DEF ShareRow
    <3> QED BY <1>1, <1>2, <3>1
  <2>3. CASE s = r /\ TakeView(r)
    <3>1. op' = op /\ log' = log /\ view'[s] = PortfolioOf(op[s].user)
      BY <2>3 DEF TakeView, TypeOK
    <3>2. Moment(log, op[s].user, PortfolioOf(op[s].user))
      BY MomentTaken
    <3> QED BY <3>1, <3>2
  <2> QED BY <1>4, <2>1, <2>2, <2>3, Phases
<1> QED BY <1>3, <1>4, StepCases DEF ViewIsOneMoment

\* content is what a snapshot of u taken at some moment would hold.
SavedMoment(changes, u, content) ==
  \E k \in 0..Len(changes) :
    \A p \in Product :
      \E row \in Row \cup {NoRow} :
        WasAt(changes, p, row, k) /\ content[p] = Materialize(OwnedBy(u, row))

\* A saved portfolio of some moment stays one as the log grows.
LEMMA SavedMomentKept ==
  ASSUME TypeOK, FreshIds, LockDiscipline, [Next]_vars,
         NEW u, NEW content, SavedMoment(log, u, content)
  PROVE  SavedMoment(log', u, content)
<1>1. CASE log' = log
  BY <1>1
<1>2. ASSUME NEW e \in Change, log' = Append(log, e)
      PROVE  SavedMoment(log', u, content)
  <2>1. OneMore(log, e, log')
    BY <1>2, AppendWas DEF TypeOK
  <2>2. PICK k \in 0..Len(log) :
          \A p \in Product :
            \E row \in Row \cup {NoRow} :
              WasAt(log, p, row, k) /\ content[p] = Materialize(OwnedBy(u, row))
    BY DEF SavedMoment
  <2>3. /\ k \in 0..Len(log')
        /\ \A p, row : WasAt(log, p, row, k) => WasAt(log', p, row, k)
    BY <2>1 DEF OneMore
  <2> QED BY <2>2, <2>3 DEF SavedMoment
<1> QED BY <1>1, <1>2, OneLoggedChange

\* Snapshots go on being portfolios of one moment, and a new one is.
LEMMA SnapshotMomentStep ==
  ASSUME TypeOK, FreshIds, LockDiscipline, ViewIsOneMoment, SnapshotIsOneMoment, [Next]_vars
  PROVE  SnapshotIsOneMoment'
<1>1. \A i \in 1..Len(snaps) : SavedMoment(log, snaps[i].owner, snaps[i].content)
  BY DEF SnapshotIsOneMoment, SavedMoment
<1>2. CASE snaps' = snaps
  <2>1. \A i \in 1..Len(snaps) : SavedMoment(log', snaps[i].owner, snaps[i].content)
    BY <1>1, SavedMomentKept
  <2> QED BY <1>2, <2>1 DEF SnapshotIsOneMoment, SavedMoment
<1>3. ASSUME NEW r \in Request, SaveSnapshot(r) PROVE SnapshotIsOneMoment'
  <2> DEFINE new == [owner |-> op[r].user, content |-> Contents(view[r]),
                     at |-> stamp[r], by |-> r]
  <2>1. log' = log /\ snaps' = Append(snaps, new)
    BY <1>3 DEF SaveSnapshot
  <2>2. SavedMoment(log, op[r].user, Contents(view[r]))
    <3>1. PICK k \in 0..Len(log) : PortfolioAt(log, op[r].user, view[r], k)
      BY <1>3 DEF SaveSnapshot, ViewIsOneMoment
    <3>2. \A p \in Product : Contents(view[r])[p] = Materialize(view[r][p])
      BY DEF Contents
    <3> QED BY <3>1, <3>2 DEF PortfolioAt, SavedMoment
  <2>3. ASSUME NEW i \in 1..Len(snaps')
        PROVE  SavedMoment(log', snaps'[i].owner, snaps'[i].content)
    <3>1. CASE i \in 1..Len(snaps)
      <4>1. snaps'[i] = snaps[i]
        BY <2>1, <3>1 DEF TypeOK
      <4> QED BY <1>1, <2>1, <3>1, <4>1
    <3>2. CASE i \notin 1..Len(snaps)
      <4>1. snaps'[i] = new
        BY <2>1, <2>3, <3>2 DEF TypeOK
      <4> QED BY <2>1, <2>2, <4>1
    <3> QED BY <3>1, <3>2
  <2> QED BY <2>3 DEF SnapshotIsOneMoment, SavedMoment
<1>4. ASSUME NEW r \in Request, Step(r), ~ SaveSnapshot(r) PROVE snaps' = snaps
  BY <1>4 DEF Step, BeginCreate, Authorize, BeginAgentMutation, BeginSnapshot, BeginMutation,
              CommitCreate, LockRow, MutateMissing, UpdateNothing, CommitUpdate, CommitDelete,
              TakeView, ShareRow, ShareConflict, RefuseSnapshot, Abort
<1> QED BY <1>2, <1>3, <1>4, StepCases DEF vars

-----------------------------------------------------------------------------
(* The theorems *)

\* The inductive invariant holds in an untouched database.
LEMMA InitIInv == Init => IInv
<1> SUFFICES ASSUME Init PROVE IInv
  OBVIOUS
<1>1. TypeOK
  BY InitTypeOK
<1>2. Len(log) = 0 /\ Len(snaps) = 0 /\ products = Genesis
  BY DEF Init
<1>3. \A r \in Request : pc[r] = "idle"
  BY DEF Init
<1>4. FreshIds
  BY <1>2, <1>3, ConstantsAssumption DEF FreshIds, Creating, Unused, Init
<1>5. LockDiscipline /\ ViewDiscipline /\ ViewIsOneMoment
  BY <1>3 DEF LockDiscipline, ViewDiscipline, ViewIsOneMoment
<1>6. LogExplainsProducts /\ SnapshotIsOneMoment
  BY <1>2 DEF LogExplainsProducts, SnapshotIsOneMoment, WasAt
<1> QED BY <1>1, <1>4, <1>5, <1>6 DEF IInv

\* The inductive invariant survives every step.
LEMMA StepIInv == IInv /\ [Next]_vars => IInv'
<1> SUFFICES ASSUME IInv, [Next]_vars PROVE IInv'
  OBVIOUS
<1>1. TypeOK'
  BY NextTypeOK DEF IInv
<1>2. FreshIds' /\ LockDiscipline'
  BY FreshStep, LockStep DEF IInv
<1>3. ViewDiscipline' /\ ViewIsOneMoment'
  BY ViewStep, ViewMomentStep DEF IInv
<1>4. LogExplainsProducts' /\ SnapshotIsOneMoment'
  BY LogStep, SnapshotMomentStep DEF IInv
<1> QED BY <1>1, <1>2, <1>3, <1>4 DEF IInv

\* The inductive invariant always holds.
LEMMA Invariance == Spec => []IInv
  BY InitIInv, StepIInv, PTL DEF Spec

\* Whatever mutations run concurrently and whichever of them crash, the change
\* log explains the committed products (db/repository.py, FOR UPDATE + _log_change).
THEOREM LogExplains == Spec => []LogExplainsProducts
<1>1. IInv => LogExplainsProducts
  BY DEF IInv
<1> QED BY <1>1, Invariance, PTL

\* Every snapshot is the owner's portfolio as of one moment (db/versioning.py,
\* REPEATABLE READ).
THEOREM SnapshotMoment == Spec => []SnapshotIsOneMoment
<1>1. IInv => SnapshotIsOneMoment
  BY DEF IInv
<1> QED BY <1>1, Invariance, PTL

\* A saved snapshot holds no product that a concurrent transaction has updated or
\* deleted by then (db/versioning.py, FOR SHARE).
THEOREM SavedLive == Spec => SavedRowsAreLive
<1> DEFINE Live == Len(snaps') > Len(snaps) =>
                     \A p \in Product :
                       LET saved == snaps'[Len(snaps')].content[p]
                       IN saved # NoRow => saved = Materialize(products[p])
<1>1. IInv /\ [Next]_vars => [Live]_vars
  <2> SUFFICES ASSUME IInv, [Next]_vars, Len(snaps') > Len(snaps), NEW p \in Product,
                      snaps'[Len(snaps')].content[p] # NoRow
               PROVE  snaps'[Len(snaps')].content[p] = Materialize(products[p])
    OBVIOUS
  <2>1. PICK r \in Request : SaveSnapshot(r)
    <3>1. snaps' # snaps
      BY DEF IInv, TypeOK
    <3> QED BY <3>1, StepCases DEF vars, Step, BeginCreate, Authorize, BeginAgentMutation,
              BeginSnapshot, BeginMutation, CommitCreate, LockRow, MutateMissing, UpdateNothing,
              CommitUpdate, CommitDelete, TakeView, ShareRow, ShareConflict, RefuseSnapshot, Abort
  <2>2. snaps'[Len(snaps')].content = Contents(view[r])
    BY <2>1 DEF SaveSnapshot, IInv, TypeOK
  <2>3. Contents(view[r])[p] = Materialize(view[r][p])
    BY DEF Contents
  <2>4. view[r][p] # NoRow
    BY <2>2, <2>3 DEF Materialize
  <2>5. p \in shared[r] /\ pc[r] = "reading"
    BY <2>1, <2>4 DEF SaveSnapshot, AllShared
  <2>6. view[r][p] = products[p]
    BY <2>4, <2>5 DEF IInv, ViewDiscipline
  <2> QED BY <2>2, <2>3, <2>6
<1> QED BY <1>1, Invariance, PTL DEF Spec, SavedRowsAreLive
-----------------------------------------------------------------------------
(* Who changes what *)

\* Stamps tell transactions apart, and a change carries the one of the
\* transaction that made it.
Stamped ==
  /\ \A r \in Request : stamp[r] <= clock
  /\ \A r, s \in Request : stamp[r] = stamp[s] /\ stamp[r] # 0 => r = s
  /\ \A i \in 1..Len(log) : log[i].at <= clock
  /\ \A r \in Request : pc[r] \in {"begun", "locked"} =>
       stamp[r] # 0 /\ \A i \in 1..Len(log) : log[i].at # stamp[r]

\* What a request was authorized for is no one else's: its id was in use, so it
\* is never handed out again, and a change keeps the owner.
OwnTarget ==
  \A r \in Request :
    (pc[r] \in {"authorized", "begun", "locked"} /\ Writes(r) /\ op[r].source = "api") =>
      /\ op[r].pid \in Known
      /\ products[op[r].pid] # NoRow => products[op[r].pid].owner = op[r].user

OwnInv == IInv /\ Stamped /\ OwnTarget /\ ApiChangesOwnProduct

\* The stamp of a request is given once, when its transaction begins.
LEMMA StampCases ==
  ASSUME TypeOK, NEW r \in Request, Step(r)
  PROVE  \/ UNCHANGED <<clock, stamp>> /\ (pc'[r] \in {"begun", "locked"} => pc[r] = "begun")
         \/ Begin(r) /\ pc'[r] = "begun" /\ UNCHANGED <<products, log>>
<1> USE DEF TypeOK, Finish
<1>1. CASE \E u \in User, p \in Product, d \in Data : BeginCreate(r, u, p, d)
  BY <1>1 DEF BeginCreate
<1>2. CASE \E o \in UpdateOp \cup DeleteOp : Authorize(r, o) \/ BeginAgentMutation(r, o)
  BY <1>2 DEF Authorize, BeginAgentMutation
<1>3. CASE \E u \in User : BeginSnapshot(r, u)
  BY <1>3 DEF BeginSnapshot
<1>4. CASE BeginMutation(r) \/ LockRow(r) \/ MutateMissing(r) \/ UpdateNothing(r)
  BY <1>4 DEF BeginMutation, LockRow, MutateMissing, UpdateNothing
<1>5. CASE CommitCreate(r) \/ CommitUpdate(r) \/ CommitDelete(r)
  BY <1>5 DEF CommitCreate, CommitUpdate, CommitDelete
<1>6. CASE TakeView(r) \/ \E p \in Product : ShareRow(r, p) \/ ShareConflict(r, p)
  BY <1>6 DEF TakeView, ShareRow, ShareConflict
<1>7. CASE RefuseSnapshot(r) \/ SaveSnapshot(r) \/ Abort(r)
  BY <1>7 DEF RefuseSnapshot, SaveSnapshot, Abort
<1> QED BY <1>1, <1>2, <1>3, <1>4, <1>5, <1>6, <1>7 DEF Step

\* A commit is stamped by its request; nothing else writes the log.
LEMMA LogCases ==
  ASSUME TypeOK, LockDiscipline, NEW r \in Request, Step(r), log' # log
  PROVE  /\ pc[r] \in {"begun", "locked"} /\ pc'[r] = "done" /\ op' = op
         /\ UNCHANGED <<clock, stamp>>
         /\ \E e \in Change : /\ log' = Append(log, e) /\ e.at = stamp[r] /\ e.pid = op[r].pid
                              /\ Writes(r) => e.before = before[r] /\ pc[r] = "locked"
                              /\ ~ Writes(r) => CommitCreate(r)
<1>1. CommitCreate(r) \/ CommitUpdate(r) \/ CommitDelete(r)
  BY Writers DEF BeginCreate
<1>2. CASE CommitCreate(r)
  <2> DEFINE row == [owner |-> op[r].user, data |-> op[r].data]
             e == [pid |-> op[r].pid, before |-> NoRow, after |-> row, at |-> stamp[r]]
  <2>1. op[r] \in CreateOp
    BY <1>2, OpShape DEF CommitCreate, TypeOK
  <2>2. e \in Change
    BY <2>1 DEF CreateOp, Row, Change, TypeOK
  <2> QED BY <1>2, <2>2 DEF CommitCreate, Finish, Writes, TypeOK
<1>3. CASE CommitUpdate(r)
  <2> DEFINE after == Apply(op[r].patch, products[op[r].pid])
             e == [pid |-> op[r].pid, before |-> before[r], after |-> after, at |-> stamp[r]]
  <2>1. op[r] \in UpdateOp
    BY <1>3, OpShape DEF CommitUpdate, TypeOK
  <2>2. after \in Row
    BY <1>3, <2>1, ApplyRow DEF CommitUpdate, UpdateOp, TypeOK
  <2>3. e \in Change
    BY <2>1, <2>2 DEF UpdateOp, Change, TypeOK
  <2> QED BY <1>3, <2>3 DEF CommitUpdate, Finish, Writes, TypeOK
<1>4. CASE CommitDelete(r)
  <2> DEFINE e == [pid |-> op[r].pid, before |-> before[r], after |-> NoRow, at |-> stamp[r]]
  <2>1. op[r] \in DeleteOp
    BY <1>4, OpShape DEF CommitDelete, TypeOK
  <2>2. e \in Change
    BY <2>1 DEF DeleteOp, Change, TypeOK
  <2> QED BY <1>4, <2>2 DEF CommitDelete, Finish, Writes, TypeOK
<1> QED BY <1>1, <1>2, <1>3, <1>4

\* Stamps go on telling transactions apart.
LEMMA StampedStep ==
  ASSUME TypeOK, LockDiscipline, Stamped, NEW r \in Request, Step(r)
  PROVE  Stamped'
<1>1. CASE Begin(r) /\ pc'[r] = "begun" /\ UNCHANGED <<products, log>>
  <2>1. clock' = clock + 1 /\ stamp'[r] = clock + 1 /\ \A s \in Request \ {r} : stamp'[s] = stamp[s]
    BY <1>1 DEF Begin, TypeOK
  <2>2. clock \in Nat /\ \A s \in Request : stamp[s] \in Nat
    BY DEF TypeOK
  <2>3. \A i \in 1..Len(log) : log[i].at \in Nat
    <3>1. \A i \in 1..Len(log) : log[i] \in Change
      BY DEF TypeOK
    <3> QED BY <3>1 DEF Change
  <2>4. \A s \in Request \ {r} : pc'[s] = pc[s]
    BY Phases
  <2> QED BY <1>1, <2>1, <2>2, <2>3, <2>4 DEF Stamped
<1>2. CASE UNCHANGED <<clock, stamp>> /\ log' = log
  <2>1. pc'[r] \in {"begun", "locked"} => pc[r] \in {"begun", "locked"} \/ ~ UNCHANGED <<clock, stamp>>
    BY StampCases DEF Begin, TypeOK
  <2>2. \A s \in Request : pc'[s] \in {"begun", "locked"} => pc[s] \in {"begun", "locked"}
    BY <1>2, <2>1, Phases
  <2> QED BY <1>2, <2>2 DEF Stamped
<1>3. CASE log' # log
  <2>1. PICK e \in Change : log' = Append(log, e) /\ e.at = stamp[r]
    BY <1>3, LogCases
  <2>2. /\ UNCHANGED <<clock, stamp>> /\ pc[r] \in {"begun", "locked"} /\ pc'[r] = "done"
        /\ \A s \in Request \ {r} : pc'[s] = pc[s]
    BY <1>3, LogCases, Phases
  <2>3. \A i \in 1..Len(log') : log'[i].at = stamp[r] \/ (i \in 1..Len(log) /\ log'[i] = log[i])
    BY <2>1 DEF TypeOK
  <2> QED BY <2>2, <2>3 DEF Stamped
<1> QED BY <1>1, <1>2, <1>3, StampCases

\* Who was authorized stays authorized.
LEMMA OwnTargetStep ==
  ASSUME TypeOK, FreshIds, LockDiscipline, OwnTarget, NEW r \in Request, Step(r), [Next]_vars
  PROVE  OwnTarget'
<1>1. \A p \in Known : p \in Known'
  <2>1. log' = log \/ \E e : log' = Append(log, e)
    BY Writers DEF BeginCreate, CommitCreate, CommitUpdate, CommitDelete
  <2>2. ASSUME NEW e, log' = Append(log, e)
        PROVE  \A i \in 1..Len(log) : i \in 1..Len(log') /\ log'[i] = log[i]
    BY <2>2 DEF TypeOK
  <2> QED BY <2>1, <2>2 DEF Known
<1>2. ASSUME NEW p \in Known
      PROVE  (products[p] # NoRow \/ products'[p] = NoRow) /\
             (products'[p] # NoRow => products'[p].owner = products[p].owner)
  <2>1. p \in Product
    BY DEF Known
  <2>2. CASE products' = products
    BY <2>2
  <2>3. CASE CommitCreate(r)
    <3>1. op[r].pid # p
      BY <2>3 DEF CommitCreate, FreshIds, Creating, Unused, Known
    <3> QED BY <2>1, <2>3, <3>1 DEF CommitCreate, TypeOK
  <2>4. CASE CommitUpdate(r)
    <3>1. op[r] \in UpdateOp
      BY <2>4, OpShape DEF CommitUpdate, TypeOK
    <3>2. op[r].pid \in Product /\ products[op[r].pid] \in Row /\ op[r].patch \in Patch
      BY <2>4, <3>1 DEF CommitUpdate, UpdateOp, TypeOK
    <3>3. Apply(op[r].patch, products[op[r].pid]).owner = products[op[r].pid].owner
      BY <3>2, ApplyRow
    <3> QED BY <2>1, <2>4, <3>2, <3>3 DEF CommitUpdate, TypeOK
  <2>5. CASE CommitDelete(r)
    BY <2>1, <2>5 DEF CommitDelete, TypeOK
  <2> QED BY <2>2, <2>3, <2>4, <2>5, Writers DEF BeginCreate
<1>3. ASSUME NEW s \in Request, pc'[s] \in {"authorized", "begun", "locked"},
             Writes(s)', op'[s].source = "api"
      PROVE  /\ op'[s].pid \in Known'
             /\ products'[op'[s].pid] # NoRow => products'[op'[s].pid].owner = op'[s].user
  <2>1. CASE pc[s] \in {"authorized", "begun", "locked"} /\ op'[s] = op[s]
    <3>1. /\ op[s].pid \in Known
          /\ products[op[s].pid] # NoRow => products[op[s].pid].owner = op[s].user
      BY <1>3, <2>1 DEF OwnTarget, Writes
    <3> QED BY <1>1, <1>2, <2>1, <3>1
  <2>2. CASE s = r /\ pc[r] = "idle"
    <3>1. PICK o \in UpdateOp \cup DeleteOp : Authorize(r, o)
      <4>1. ~ \E u \in User, p \in Product, d \in Data : BeginCreate(r, u, p, d)
        BY <1>3, <2>2 DEF BeginCreate, Writes, TypeOK
      <4>2. ~ \E u \in User : BeginSnapshot(r, u)
        BY <1>3, <2>2 DEF BeginSnapshot, Writes, TypeOK
      <4>3. ASSUME NEW o \in UpdateOp \cup DeleteOp, BeginAgentMutation(r, o) PROVE FALSE
        <5>1. op'[r] = o /\ o.source = "agent"
          BY <4>3 DEF BeginAgentMutation, TypeOK
        <5> QED BY <1>3, <2>2, <5>1
      <4> QED BY <2>2, <4>1, <4>2, <4>3 DEF Step, BeginMutation, CommitCreate, LockRow,
             MutateMissing, UpdateNothing, CommitUpdate, CommitDelete, TakeView, ShareRow,
             ShareConflict, RefuseSnapshot, SaveSnapshot, Abort, Running
    <3>2. /\ op'[r] = o /\ o.pid \in Known /\ products' = products
          /\ products[o.pid] # NoRow /\ products[o.pid].owner = o.user
      BY <1>3, <2>2, <3>1 DEF Authorize, TypeOK
    <3> QED BY <1>1, <2>2, <3>2
  <2>3. CASE s = r /\ pc[r] # "idle"
    <3>1. op'[r] = op[r]
      BY <2>3, Phases
    <3>2. pc[r] \in {"authorized", "begun", "locked"}
      BY <1>3, <2>3 DEF Step, BeginCreate, Authorize, BeginAgentMutation, BeginSnapshot,
           BeginMutation, CommitCreate, LockRow, MutateMissing, UpdateNothing, CommitUpdate,
           CommitDelete, TakeView, ShareRow, ShareConflict, RefuseSnapshot, SaveSnapshot, Abort,
           Finish, TypeOK
    <3> QED BY <2>1, <2>3, <3>1, <3>2
  <2>4. CASE s # r
    BY <1>3, <2>1, <2>4, Phases
  <2> QED BY <2>2, <2>3, <2>4
<1> QED BY <1>3 DEF OwnTarget

\* A change made through the API was its owner's.
LEMMA OwnChangeStep ==
  ASSUME TypeOK, LockDiscipline, ViewDiscipline, Stamped, OwnTarget, ApiChangesOwnProduct,
         NEW r \in Request, Step(r)
  PROVE  ApiChangesOwnProduct'
<1> SUFFICES ASSUME NEW s \in Request, NEW i \in 1..Len(log'),
                    pc'[s] = "done", Writes(s)', op'[s].source = "api",
                    log'[i].at = stamp'[s]
             PROVE  log'[i].before.owner = op'[s].user
  BY DEF ApiChangesOwnProduct
<1>1. CASE log' # log
  <2>1. PICK e \in Change :
               /\ log' = Append(log, e) /\ e.at = stamp[r] /\ e.pid = op[r].pid
               /\ Writes(r) => e.before = before[r] /\ pc[r] = "locked"
    BY <1>1, LogCases
  <2>2. /\ pc[r] \in {"begun", "locked"} /\ op' = op /\ UNCHANGED <<clock, stamp>>
        /\ stamp[r] # 0
    BY <1>1, LogCases DEF Stamped
  <2>3. (i \in 1..Len(log) /\ log'[i] = log[i]) \/ log'[i] = e
    BY <2>1 DEF TypeOK
  <2>4. CASE s # r
    <3>1. stamp[s] # stamp[r] /\ pc[s] = "done"
      BY <2>2, <2>4, Phases DEF Stamped
    <3> QED BY <2>1, <2>2, <2>3, <3>1 DEF ApiChangesOwnProduct, Writes
  <2>5. CASE s = r
    <3>1. log'[i] = e
      BY <2>2, <2>3, <2>5 DEF Stamped
    <3>2. Writes(r) /\ op[r].source = "api" /\ pc[r] = "locked" /\ e.before = before[r]
      BY <2>1, <2>2, <2>5 DEF Writes
    <3>3. before[r].owner = op[r].user
      BY <3>2 DEF LockDiscipline, OwnTarget
    <3> QED BY <2>2, <2>5, <3>1, <3>2, <3>3
  <2> QED BY <2>4, <2>5
<1>2. CASE log' = log /\ pc[s] = "done" /\ UNCHANGED <<clock, stamp>>
  BY <1>2, Phases DEF ApiChangesOwnProduct, Writes
<1>3. CASE log' = log /\ pc[s] = "done" /\ Begin(r) /\ pc'[r] = "begun"
  <2>1. s # r
    BY <1>3
  <2>2. stamp'[s] = stamp[s]
    BY <1>3, <2>1 DEF Begin, TypeOK
  <2> QED BY <1>3, <2>1, <2>2, Phases DEF ApiChangesOwnProduct, Writes
<1>4. CASE log' = log /\ pc[s] # "done"
  <2>1. s = r
    BY <1>4, Phases
  <2>2. UpdateNothing(r) \/ CommitCreate(r) \/ CommitUpdate(r) \/ CommitDelete(r) \/ SaveSnapshot(r)
    BY <1>4, <2>1 DEF Step, BeginCreate, Authorize, BeginAgentMutation, BeginSnapshot,
         BeginMutation, LockRow, MutateMissing, TakeView, ShareRow, ShareConflict,
         RefuseSnapshot, Abort, Finish, TypeOK
  <2>3. UpdateNothing(r)
    <3>1. ~ SaveSnapshot(r)
      <4>1. SaveSnapshot(r) => op'[r] = op[r] /\ pc[r] = "reading"
        BY DEF SaveSnapshot
      <4> QED BY <2>1, <4>1 DEF Writes, ViewDiscipline
    <3> QED BY <1>4, <2>2, <3>1 DEF CommitCreate, CommitUpdate, CommitDelete, TypeOK
  <2> QED BY <1>4, <2>1, <2>3 DEF UpdateNothing, Stamped
<1> QED BY <1>1, <1>2, <1>3, <1>4, StampCases

\* Products are changed through the API by their owners only, though the check
\* is made before the transaction (api/routes.py, _get_owned_product).
THEOREM OwnChanges == Spec => []ApiChangesOwnProduct
<1>1. Init => OwnInv
  <2> SUFFICES ASSUME Init PROVE OwnInv
    OBVIOUS
  <2>1. /\ clock = 0 /\ Len(log) = 0 /\ \A r \in Request : pc[r] = "idle" /\ stamp[r] = 0
    BY DEF Init
  <2> QED BY <2>1, InitIInv DEF OwnInv, Stamped, OwnTarget, ApiChangesOwnProduct
<1>2. OwnInv /\ [Next]_vars => OwnInv'
  <2> SUFFICES ASSUME OwnInv, [Next]_vars PROVE OwnInv'
    OBVIOUS
  <2>1. IInv /\ IInv'
    BY StepIInv DEF OwnInv
  <2>2. CASE UNCHANGED vars
    BY <2>1, <2>2 DEF OwnInv, vars, Stamped, OwnTarget, ApiChangesOwnProduct, Writes, Known
  <2>3. ASSUME NEW r \in Request, Step(r) PROVE OwnInv'
    BY <2>1, <2>3, StampedStep, OwnTargetStep, OwnChangeStep DEF OwnInv, IInv
  <2> QED BY <2>2, <2>3, StepCases
<1>3. OwnInv => ApiChangesOwnProduct
  BY DEF OwnInv
<1> QED BY <1>1, <1>2, <1>3, PTL DEF Spec
-----------------------------------------------------------------------------
(* Refinement *)

\* What the abstract portfolio sees of the log and of the snapshots.
Recorded == [i \in 1..Len(log) |->
               [pid |-> log[i].pid, before |-> log[i].before, after |-> log[i].after]]
Saved == [i \in 1..Len(snaps) |-> [owner |-> snaps[i].owner, content |-> snaps[i].content]]

\* A change that is logged is recorded, in the same place.
LEMMA RecordedAppend ==
  ASSUME TypeOK, NEW e \in Change, log' = Append(log, e)
  PROVE  Recorded' = Append(Recorded, [pid |-> e.pid, before |-> e.before, after |-> e.after])
<1>1. /\ Len(log) \in Nat /\ Len(log') = Len(log) + 1 /\ log'[Len(log) + 1] = e
      /\ \A i \in 1..Len(log) : log'[i] = log[i]
  BY DEF TypeOK
<1>2. Recorded \in Seq([pid : Product, before : Row \cup {NoRow}, after : Row \cup {NoRow}])
  <2>1. \A i \in 1..Len(log) : log[i] \in Change
    BY DEF TypeOK
  <2> QED BY <1>1, <2>1 DEF Recorded, Change
<1>3. Len(Recorded) = Len(log) /\ DOMAIN Recorded = 1..Len(log)
  BY <1>1, <1>2 DEF Recorded
<1> QED BY <1>1, <1>2, <1>3 DEF Recorded, Change

\* A snapshot that is saved is a version, in the same place.
LEMMA SavedAppend ==
  ASSUME TypeOK, NEW e \in Snapshot, snaps' = Append(snaps, e)
  PROVE  /\ Saved' = Append(Saved, [owner |-> e.owner, content |-> e.content])
         /\ Len(Saved) \in Nat /\ Len(Saved') = Len(Saved) + 1
         /\ Saved'[Len(Saved')] = [owner |-> e.owner, content |-> e.content]
<1>1. /\ Len(snaps) \in Nat /\ Len(snaps') = Len(snaps) + 1 /\ snaps'[Len(snaps) + 1] = e
      /\ \A i \in 1..Len(snaps) : snaps'[i] = snaps[i]
  BY DEF TypeOK
<1>2. Saved \in Seq([owner : User, content : [Product -> Row \cup {NoRow}]])
  <2>1. \A i \in 1..Len(snaps) : snaps[i] \in Snapshot
    BY DEF TypeOK
  <2> QED BY <1>1, <2>1 DEF Saved, Snapshot
<1>3. Len(Saved) = Len(snaps) /\ DOMAIN Saved = 1..Len(snaps)
  BY <1>1, <1>2 DEF Saved
<1>4. Saved' = Append(Saved, [owner |-> e.owner, content |-> e.content])
  BY <1>1, <1>2, <1>3 DEF Saved, Snapshot
<1> QED BY <1>1, <1>2, <1>3, <1>4 DEF Snapshot

\* Both sides mean the same by what a product was.
LEMMA HeldIsWasAt ==
  ASSUME TypeOK, NEW k \in 0..Len(log), NEW p, NEW row, WasAt(log, p, row, k)
  PROVE  Abstract!Held(p, row, k)
<1>1. Len(log) \in Nat
  BY DEF TypeOK
<1>2. \A i \in 1..k : /\ Recorded[i].pid = log[i].pid
                      /\ Recorded[i].after = log[i].after
  BY <1>1 DEF Recorded
<1> QED BY <1>1, <1>2 DEF Recorded, WasAt, Abstract!Held

\* A mutation that commits is one change of the abstract portfolio.
LEMMA ChangeStep ==
  ASSUME IInv, NEW r \in Request, CommitCreate(r) \/ CommitUpdate(r) \/ CommitDelete(r)
  PROVE  \E p \in Product, after \in Row \cup {NoRow} : Abstract!Change(p, after)
<1> USE DEF Abstract!Change
<1>0. TypeOK /\ snaps' = snaps
  BY DEF IInv, CommitCreate, CommitUpdate, CommitDelete
<1>1. CASE CommitCreate(r)
  <2> DEFINE row == [owner |-> op[r].user, data |-> op[r].data]
             e == [pid |-> op[r].pid, before |-> NoRow, after |-> row, at |-> stamp[r]]
  <2>1. op[r] \in CreateOp
    BY <1>0, <1>1, OpShape DEF CommitCreate, TypeOK
  <2>2. op[r].pid \in Product /\ row \in Row /\ row # NoRow
    BY <2>1, ConstantsAssumption DEF CreateOp, Row
  <2>3. e \in Change
    BY <1>0, <2>2 DEF Change, TypeOK
  <2>4. Unused(op[r].pid)
    BY <1>1 DEF CommitCreate, IInv, FreshIds, Creating
  <2>5. Abstract!Fresh(op[r].pid)
    <3>1. Len(Recorded) = Len(log) /\ \A i \in 1..Len(log) : Recorded[i].pid = log[i].pid
      BY <1>0 DEF TypeOK, Recorded
    <3> QED BY <2>4, <3>1 DEF Unused, Abstract!Fresh, Recorded
  <2>6. Recorded' = Append(Recorded, [pid |-> e.pid, before |-> e.before, after |-> e.after])
    BY <1>0, <1>1, <2>3, RecordedAppend DEF CommitCreate
  <2> QED BY <1>0, <1>1, <2>2, <2>4, <2>5, <2>6 DEF CommitCreate, Unused, Recorded
<1>2. CASE CommitUpdate(r)
  <2> DEFINE after == Apply(op[r].patch, products[op[r].pid])
             e == [pid |-> op[r].pid, before |-> before[r], after |-> after, at |-> stamp[r]]
  <2>1. op[r] \in UpdateOp
    BY <1>0, <1>2, OpShape DEF CommitUpdate, TypeOK
  <2>2. op[r].pid \in Product /\ products[op[r].pid] \in Row /\ op[r].patch \in Patch
    BY <1>0, <1>2, <2>1 DEF CommitUpdate, UpdateOp, TypeOK
  <2>3. after \in Row /\ after.owner = products[op[r].pid].owner
    BY <2>2, ApplyRow
  <2>4. before[r] = products[op[r].pid]
    BY <1>2 DEF CommitUpdate, IInv, LockDiscipline
  <2>5. e \in Change
    BY <1>0, <2>2, <2>3 DEF Change, TypeOK
  <2>6. Recorded' = Append(Recorded, [pid |-> e.pid, before |-> e.before, after |-> e.after])
    BY <1>0, <1>2, <2>5, RecordedAppend DEF CommitUpdate
  <2> QED BY <1>0, <1>2, <2>2, <2>3, <2>4, <2>6 DEF CommitUpdate, Recorded, OwnerOf
<1>3. CASE CommitDelete(r)
  <2> DEFINE e == [pid |-> op[r].pid, before |-> before[r], after |-> NoRow, at |-> stamp[r]]
  <2>1. op[r] \in DeleteOp
    BY <1>0, <1>3, OpShape DEF CommitDelete, TypeOK
  <2>2. op[r].pid \in Product /\ products[op[r].pid] # NoRow
    BY <1>3, <2>1 DEF CommitDelete, DeleteOp
  <2>3. before[r] = products[op[r].pid]
    BY <1>3 DEF CommitDelete, IInv, LockDiscipline
  <2>4. e \in Change
    BY <1>0, <2>2 DEF Change, TypeOK
  <2>5. Recorded' = Append(Recorded, [pid |-> e.pid, before |-> e.before, after |-> e.after])
    BY <1>0, <1>3, <2>4, RecordedAppend DEF CommitDelete
  <2> QED BY <1>0, <1>3, <2>2, <2>3, <2>5 DEF CommitDelete, Recorded
<1> QED BY <1>1, <1>2, <1>3

\* A snapshot that commits is one save of the abstract portfolio.
LEMMA SaveStep ==
  ASSUME IInv, NEW r \in Request, SaveSnapshot(r)
  PROVE  Abstract!Next
<1> DEFINE u == op[r].user
           content == Contents(view[r])
           e == [owner |-> u, content |-> content, at |-> stamp[r], by |-> r]
<1>0. TypeOK
  BY DEF IInv
<1>1. /\ pc[r] = "reading" /\ snaps' = Append(snaps, e) /\ AllShared(r)
      /\ UNCHANGED <<products, log>>
  BY DEF SaveSnapshot
<1>2. op[r] \in SnapshotOp
  BY <1>0, <1>1, OpShape DEF IInv, ViewDiscipline, TypeOK
<1>3. u \in User
  BY <1>2 DEF SnapshotOp
<1>4. e \in Snapshot
  <2>1. content \in [Product -> Row \cup {NoRow}]
    BY <1>0, ContentsType DEF TypeOK
  <2> QED BY <1>0, <1>3, <2>1 DEF Snapshot, TypeOK
<1>5. /\ Saved' = Append(Saved, [owner |-> u, content |-> content])
      /\ Len(Saved) \in Nat /\ Len(Saved') = Len(Saved) + 1
      /\ Saved'[Len(Saved')] = [owner |-> u, content |-> content]
  BY <1>0, <1>1, <1>4, SavedAppend
<1>6. PICK k \in 0..Len(log) : PortfolioAt(log, u, view[r], k)
  BY <1>1 DEF IInv, ViewIsOneMoment
<1>7. \A p \in Product : content[p] = Materialize(view[r][p])
  BY DEF Contents
<1>8. \A row : Abstract!Keeps(u, row) = Materialize(OwnedBy(u, row))
  BY DEF Abstract!Keeps, OwnedBy, OwnerOf, Materialize
<1> HIDE DEF content
<1>9. \A p \in Product : \E row \in Row \cup {NoRow} :
        Abstract!Held(p, row, k) /\ content[p] = Abstract!Keeps(u, row)
  BY <1>0, <1>6, <1>7, <1>8, HeldIsWasAt DEF PortfolioAt
<1>10. ASSUME NEW p \in Product, content[p] # NoRow
       PROVE  content[p] = Abstract!Keeps(u, products[p])
  <2>1. view[r][p] # NoRow
    BY <1>7, <1>10 DEF Materialize
  <2>2. view[r][p] = products[p]
    BY <1>1, <2>1 DEF AllShared, IInv, ViewDiscipline
  <2>3. OwnedBy(u, view[r][p]) = view[r][p]
    BY <1>6 DEF PortfolioAt, OwnedBy
  <2> QED BY <1>7, <1>8, <2>2, <2>3
<1>11. Len(Recorded) = Len(log)
  BY <1>0 DEF TypeOK, Recorded
<1>12. \E j \in 0..Len(Recorded) : \A p \in Product : \E row \in Row \cup {NoRow} :
         Abstract!Held(p, row, j) /\ content[p] = Abstract!Keeps(u, row)
  BY <1>6, <1>9, <1>11
<1> DEFINE last == Saved'[Len(Saved')]
<1>13. last.owner = u /\ last.content = content
  BY <1>5
<1> HIDE DEF last, u
<1>14. last.owner \in User
  BY <1>3, <1>13
<1>15. \E j \in 0..Len(Recorded) : \A p \in Product : \E row \in Row \cup {NoRow} :
         Abstract!Held(p, row, j) /\ last.content[p] = Abstract!Keeps(last.owner, row)
  BY <1>12, <1>13
<1>16. \A p \in Product : last.content[p] # NoRow =>
         last.content[p] = Abstract!Keeps(last.owner, products[p])
  BY <1>10, <1>13
<1>17. /\ Saved' = Append(Saved, [owner |-> last.owner, content |-> last.content])
       /\ Len(Saved') = Len(Saved) + 1 /\ Recorded' = Recorded /\ products' = products
  BY <1>1, <1>5, <1>13 DEF Recorded
<1> QED BY <1>14, <1>15, <1>16, <1>17 DEF Abstract!Next, Abstract!Save, Saved, Recorded, last

\* The transactions of the repositories, however they interleave, wait, conflict
\* and crash, are one portfolio that changes a product at a time, with its
\* history and its versions (db/repository.py, db/versioning.py).
THEOREM Refines == Spec => ImplementsAuditedPortfolio
<1>1. Init => Abstract!Init
  BY DEF Init, Abstract!Init
<1>2. IInv /\ [Next]_vars => [Abstract!Next]_(Abstract!vars)
  <2> SUFFICES ASSUME IInv, [Next]_vars PROVE [Abstract!Next]_(Abstract!vars)
    OBVIOUS
  <2>1. CASE UNCHANGED <<products, log, snaps>>
    BY <2>1 DEF Abstract!vars
  <2>2. ASSUME NEW r \in Request, CommitCreate(r) \/ CommitUpdate(r) \/ CommitDelete(r)
        PROVE  Abstract!Next
    BY <2>2, ChangeStep DEF Abstract!Next
  <2>3. ASSUME NEW r \in Request, SaveSnapshot(r) PROVE Abstract!Next
    BY <2>3, SaveStep
  <2>4. ASSUME NEW r \in Request, Step(r)
        PROVE  \/ CommitCreate(r) \/ CommitUpdate(r) \/ CommitDelete(r) \/ SaveSnapshot(r)
               \/ UNCHANGED <<products, log, snaps>>
    BY <2>4 DEF Step, BeginCreate, Authorize, BeginAgentMutation, BeginSnapshot, BeginMutation,
         LockRow, MutateMissing, UpdateNothing, TakeView, ShareRow, ShareConflict,
         RefuseSnapshot, Abort
  <2> QED BY <2>1, <2>2, <2>3, <2>4, StepCases DEF vars
<1> QED BY <1>1, <1>2, Invariance, PTL DEF Spec, ImplementsAuditedPortfolio, Abstract!Spec
=============================================================================
