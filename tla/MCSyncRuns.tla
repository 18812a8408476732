----------------------------- MODULE MCSyncRuns -----------------------------
(* Two processes: w1 with a maintenance loop and two request slots, w2 with a *)
(* loop of its own.  The workbook can go back to an earlier content.          *)
EXTENDS SyncRuns, TLC

CONSTANTS w1, w2, c1, c2, n1, n2, a, b, c

MCHome     == c1 :> w1 @@ n1 :> w1 @@ n2 :> w1 @@ c2 :> w2
MCReverted == [v \in Version |-> IF v % 2 = 1 THEN a ELSE b]
MCDistinct == [v \in Version |-> IF v = 1 THEN a ELSE IF v = 2 THEN b ELSE c]
MCSymmetry == Permutations({n1, n2})
=============================================================================
