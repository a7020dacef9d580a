--------------------------- MODULE MCPaymentRules ---------------------------
(***************************************************************************)
(* PaymentRules with the heights drawn together.  In the scenario "edges"  *)
(* nodeA mines one block, on a common block at every height up to the last *)
(* change of the rules, with every list, vote and fee.  In "fork" nodeA    *)
(* mines at most one block and nodeB the others, with votes for the first  *)
(* height and reorganisations, and with a restart before the band height   *)
(* or a change of a list after it.                                         *)
(***************************************************************************)
EXTENDS PaymentRules, TLC

CONSTANTS nodeA, nodeB, mnP, mnQ, minerA, minerB

VARIABLE scenario

MCNode == {nodeA, nodeB}
MCPayee == {mnP, mnQ}
MCScore == mnP :> 1 @@ mnQ :> 2
MCMiner == nodeA :> minerA @@ nodeB :> minerB
MCShare == 0 :> 0 @@ 1 :> 122 @@ 2 :> 117

MinedBy(m) == {c \in offered : Last(c).out[1].script = m}

MCInit ==
    /\ Init
    /\ ibd = [n \in Node |-> FALSE]
    /\ \/ scenario = "edges" /\ list[nodeB] = list[nodeA]
       \/ scenario = "fork" /\ base \in {4, 7} /\ list[nodeB] = {mnP, mnQ} /\ mnP \in list[nodeA]

\* In "edges" nodeB stays away.
Edges ==
    /\ have'[nodeB] = {<<>>} /\ winner'[nodeB] = winner[nodeB] /\ changes' = 0
    /\ Cardinality(offered') <= 1 /\ MinedBy(minerB)' = {}

\* "fork" ends where the votes come too late or the lists differ too much:
\* what is checked of it says nothing of later states.
Fork ==
    /\ settled' /\ SizesAlike'
    /\ changes' > changes => (base = 4 <=> list' = list)
    /\ \A c \in offered' : Last(c).fees = 10
    /\ Cardinality(MinedBy(minerA)') <= 1

MCNext ==
    /\ Next
    /\ scenario' = scenario
    /\ \A v \in votes' : v.height = base + 1
    /\ IF scenario = "edges" THEN Edges ELSE Fork

MCSpec == MCInit /\ [][MCNext]_<<vars, scenario>>
=============================================================================
