-------------------------- MODULE AuditedPortfolio --------------------------
(* What the product repository and the versioning repository promise         *)
(* together: a portfolio that changes one product at a time, an append-only  *)
(* history of those changes, and append-only versions, each one the          *)
(* portfolio of a user at one moment.  No transactions, locks or failures.   *)
EXTENDS Naturals, Sequences

CONSTANTS User, Product, Row, NoRow, Genesis,
          Owner(_),   \* the owner of a row
          Saved(_)    \* what a version keeps of a row

VARIABLES rows,      \* product id -> row or NoRow
          history,   \* changes, oldest first: [pid, before, after]
          versions   \* saved versions, in the order they appear: [owner, content]

vars == <<rows, history, versions>>

Init == rows = Genesis /\ history = <<>> /\ versions = <<>>

\* An id is never used again: a product that is gone stays gone.
Fresh(p) == Genesis[p] = NoRow /\ \A i \in 1..Len(history) : history[i].pid # p

\* One product is created, changed or removed, and the change is recorded with
\* the state it found and the state it left; ownership never moves.
Change(p, after) ==
  /\ rows[p] # NoRow \/ (after # NoRow /\ Fresh(p))
  /\ rows[p] # NoRow /\ after # NoRow => Owner(after) = Owner(rows[p])
  /\ rows' = [rows EXCEPT ![p] = after]
  /\ history' = Append(history, [pid |-> p, before |-> rows[p], after |-> after])
  /\ UNCHANGED versions

\* Product p was row after the first k changes.
Held(p, row, k) ==
  \/ \E i \in 1..k : /\ history[i].pid = p /\ history[i].after = row
                     /\ \A j \in (i + 1)..k : history[j].pid # p
  \/ Genesis[p] = row /\ \A i \in 1..k : history[i].pid # p

Keeps(u, row) == IF row # NoRow /\ Owner(row) = u THEN Saved(row) ELSE NoRow

\* A version of u's portfolio as of some moment whose products have not been
\* touched since: at most new products are missing from it.
Save(u, content) ==
  /\ \E k \in 0..Len(history) :
       \A p \in Product :
         \E row \in Row \cup {NoRow} : Held(p, row, k) /\ content[p] = Keeps(u, row)
  /\ \A p \in Product : content[p] # NoRow => content[p] = Keeps(u, rows[p])
  /\ versions' = Append(versions, [owner |-> u, content |-> content])
  /\ UNCHANGED <<rows, history>>

\* The last element of the next state's versions is the one being saved.
Next ==
  \/ \E p \in Product, after \in Row \cup {NoRow} : Change(p, after)
  \/ /\ Len(versions') = Len(versions) + 1
     /\ LET v == versions'[Len(versions')] IN v.owner \in User /\ Save(v.owner, v.content)

Spec == Init /\ [][Next]_vars
=============================================================================
