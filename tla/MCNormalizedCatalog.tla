------------------------ MODULE MCNormalizedCatalog ------------------------
(* Two products, two series of the first of them, and an administrator of one *)
(* of these: the smallest catalog in which half a level may be missing and a  *)
(* deletion takes two levels along.                                           *)
EXTENDS NormalizedCatalog, TLC

CONSTANTS p1, p2, s1, s2, a1, r1, r2

MCTree == s1 :> p1 @@ s2 :> p1 @@ a1 :> s1

MCSymmetry == Permutations(Request)
=============================================================================
