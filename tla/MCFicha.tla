------------------------------ MODULE MCFicha ------------------------------
(* Review: two fichas of two clients.  Curation: two cards on one product, a *)
(* series with one administrator, and a series it does not have; the number  *)
(* of the series has a digit no card shows, and so has its class a share.    *)
EXTENDS FichaPage, TLC

CONSTANTS f1, f2, a1, b1, u1, u2, s1, s2, ad, p, fijo60, fijo, club, c1, c2

MCFichaOf  == a1 :> f1 @@ b1 :> f2
MCClientOf == f1 :> u1 @@ f2 :> u2

MCParent  == s1 :> p @@ s2 :> p @@ ad :> s1
MCWhole   == fijo60 :> fijo @@ fijo :> fijo @@ club :> club
MCCatalog == p :> fijo60 @@ s1 :> 2 @@ s2 :> Absent @@ ad :> 0

Cards == Permutations({c1, c2})
=============================================================================
