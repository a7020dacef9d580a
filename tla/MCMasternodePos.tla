--------------------------- MODULE MCMasternodePos ---------------------------
(***************************************************************************)
(* MasternodePos for three masternodes.                                    *)
(***************************************************************************)
EXTENDS MasternodePos

CONSTANTS n1, n2, n3

Order(first, second) == [vin \in Vin |-> IF vin = first THEN 1 ELSE IF vin = second THEN 2 ELSE 3]

\* n1 scans n2, but at height 2 it is n3 that does.
MCPosition == [h \in 1 .. MaxTip |-> IF h = 2 THEN Order(n3, n2) ELSE Order(n1, n2)]
=============================================================================
