-------------------------- MODULE MCPortfolioPage --------------------------
(* Panel: two products, one of them to come, and three contents, two of      *)
(* which a version does not tell apart.  History: two saved versions and     *)
(* room for a third; a product that stays, changes one field and goes, and   *)
(* one that comes; a page holds one entry of three.                          *)
EXTENDS PortfolioPage, TLC

CONSTANTS p1, p2, x, y, z, cx, cy

MCClassOf == x :> cx @@ y :> cy @@ z :> cx
MCKept    == x :> x @@ y :> y @@ z :> x
MCStored  == p1 :> x @@ p2 :> None

MCSaves ==
  << "p" :> [amount |-> "1", manager |-> "m"],
     "p" :> [amount |-> "2", manager |-> "m"] @@ "q" :> [amount |-> "1", manager |-> "m"],
     "q" :> [amount |-> "1", manager |-> "n"] >>
=============================================================================
