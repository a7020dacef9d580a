----------------------- MODULE MCMasternodePayments -----------------------
(***************************************************************************)
(* MasternodePayments on small instances.  A run is one of two scenarios:  *)
(* "cycles", long enough for everyone to be paid, with a masternode that   *)
(* comes or goes and a vote from elsewhere; and "votes", with a restart of *)
(* the master among the first blocks, a donation address, and a winner old *)
(* enough to be cleaned.                                                   *)
(***************************************************************************)
EXTENDS MasternodePayments

CONSTANTS m1, m2, m3, s1, s2, s3, donation

VARIABLE scenario

MCScore == [vin \in Vin |-> CASE vin = m1 -> 2 [] vin = m2 -> 1 [] OTHER -> 3]
MCBorn == [vin \in Vin |-> CASE vin = m1 -> -2 [] vin = m2 -> -1 [] OTHER -> 0]
MCPayees == [vin \in Vin |->
    CASE vin = m1 -> {s1, donation} [] vin = m2 -> {s2} [] OTHER -> {s3}]

\* Winners a master signed before this node's run: two for height 2.
MCOthers == {[nBlockHeight |-> 0, vin |-> m1, payee |-> s1],
             [nBlockHeight |-> 2, vin |-> m1, payee |-> s1],
             [nBlockHeight |-> 2, vin |-> m2, payee |-> s2]}

CyclesOnly ==
    /\ restarts' = 0
    /\ \A w \in mapSeenMasternodeVotes' : w.payee # donation /\ (w \in Others => w.vin = m2)

VotesOnly ==
    /\ toggles' = 0
    /\ tip' > 3 => restarts' = 0 /\ \A w \in mapSeenMasternodeVotes' : w.payee # donation

MCInit ==
    /\ Init
    /\ scenario \in {"cycles", "votes"}
    /\ scenario = "votes" => enabled \subseteq {m1, m2}

MCNext ==
    /\ Next
    /\ UNCHANGED scenario
    /\ IF scenario = "cycles" THEN CyclesOnly ELSE VotesOnly

MCSpec == MCInit /\ [][MCNext]_<<vars, scenario>>
=============================================================================
