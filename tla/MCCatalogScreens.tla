-------------------------- MODULE MCCatalogScreens --------------------------
(* Forms: an entry with a legacy class, no administrator and no manager's    *)
(* score; the administrators and the managers are one each, both fixed.      *)
(* Either the entry is edited or products are created.  Page: two products,  *)
(* one of them with a series; a third product, a series and an administrator *)
(* to come; the second product alone matches the search "t".                 *)
EXTENDS CatalogScreens, TLC

CONSTANTS o1, o2, old

Holding(classes) ==
  [f |-> [name |-> "x", commission |-> "x", asset_class |-> classes, administrator |-> "", manager |-> "house",
          alternative_names |-> <<>>, return_rate |-> Nil],
   score |-> [administrator |-> 60, manager |-> Nil], coded |-> TRUE]
MCRows == {Holding(<<[name |-> old, pct |-> 1000]>>)}
MCBudgets == {[edit |-> 3, create |-> 0], [edit |-> 0, create |-> 8]}
MCEntities == [administrator |-> [bank |-> [score |-> 90, fixed |-> TRUE]],
               manager |-> [house |-> [score |-> 40, fixed |-> TRUE]]]
MCOrder == <<"name", "commission", "alternative_names", "return_rate", "asset_class", "administrator", "manager">>
MCNumber == "5" :> 500 @@ ".5" :> 50
MCTrims  == " x" :> "x"

MCTerms == "" :> {"p", "q", "r"} @@ "t" :> {"q"}
MCTree  == <<"p">> :> "x" @@ <<"p", "s">> :> "x" @@ <<"q">> :> ""
=============================================================================
