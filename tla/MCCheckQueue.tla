---------------------------- MODULE MCCheckQueue ----------------------------
(***************************************************************************)
(* CheckQueue with two workers and four checks.  Checks are alike, so they *)
(* are added in their order; any one of them may fail.                     *)
(***************************************************************************)
EXTENDS CheckQueue

CONSTANTS w1, w2, master

MCNext == Next /\ added' = 1 .. Cardinality(added') /\ Cardinality(bad') <= 1
MCSpec == Init /\ [][MCNext]_vars /\ Fairness
=============================================================================
