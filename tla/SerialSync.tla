----------------------------- MODULE SerialSync -----------------------------
(* What a catalog sync promises, whoever runs it: the workbook moves forward; *)
(* the catalog follows it, version by version and never backwards; the stored *)
(* digest is only ever taken from the version that is in the catalog.         *)
EXTENDS Integers

CONSTANTS Content, MaxVersion, NoHash
VARIABLES sheet, catalog, stored

vars == <<sheet, catalog, stored>>

Init == sheet = 1 /\ catalog = 1 /\ stored = NoHash

Edit     == sheet < MaxVersion /\ sheet' = sheet + 1 /\ UNCHANGED <<catalog, stored>>
Follow   == catalog' \in catalog..sheet /\ UNCHANGED <<sheet, stored>>
Remember == stored' = Content[catalog] /\ UNCHANGED <<sheet, catalog>>

Next == Edit \/ Follow \/ Remember
Spec == Init /\ [][Next]_vars
=============================================================================
