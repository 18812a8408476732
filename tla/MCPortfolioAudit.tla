-------------------------- MODULE MCPortfolioAudit --------------------------
(* A small database for PortfolioAudit: one product that predates the change *)
(* log, room for one or two more, and requests that interleave freely.       *)
EXTENDS PortfolioAudit, TLC

CONSTANTS u1, u2, p1, p2, c1, c2, x, r1, r2, r3

MCGenesis ==
  [p \in Product |->
     IF p = p1 THEN [owner |-> u1, data |-> [core |-> c1, isin |-> Blank]] ELSE NoRow]

\* Change a field both mappers carry, change one only the live mapper carries,
\* and an empty body.
MCEdits == {[core |-> c2, isin |-> Keep], [core |-> Keep, isin |-> x],
            [core |-> Keep, isin |-> Keep]}

\* For liveness: two rows to lock, one user, one edit.
MCGenesisTwo == [p \in Product |-> [owner |-> u1, data |-> [core |-> c1, isin |-> Blank]]]
MCOneEdit == {[core |-> c1, isin |-> Keep]}

RequestSymmetry == Permutations(Request)
=============================================================================
