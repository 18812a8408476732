---------------------------- MODULE MCCatalogPage ----------------------------
(* A catalog of two entries, one of them of the Excel, and two queries.  f   *)
(* is the administrator and g its score: the name x fixes the score x, y is  *)
(* an unknown name or a missing score, z is the name x with blanks around it *)
(* or another score.                                                         *)
EXTENDS CatalogPage, TLC
CONSTANTS e1, e2, f, g, x, y, z, some, deleted
MCFinds  == some :> {x, z} @@ deleted :> {x, y, z}
Of(a, b) == f :> a @@ g :> b
MCNameOf   == g :> f
MCFixes    == g :> (x :> x)
MCTrimmed  == x :> x @@ y :> y @@ z :> x
MCComplete == {Of(y, x)}
MCIncoming == {[live |-> FALSE, data |-> Of(z, z)]}
MCStored == e1 :> [live |-> TRUE, data |-> Of(x, y)] @@ e2 :> None
=============================================================================
