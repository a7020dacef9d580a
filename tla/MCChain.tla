------------------------------- MODULE MCChain -------------------------------
(* Chain on a tree of two branches, the second of which is longer.  In the   *)
(* scenario "reorganise" all its blocks arrive and nothing is written; in    *)
(* "crash" the branches are shorter, headers come with their blocks, and the *)
(* process writes and ends.                                                  *)
EXTENDS Chain

CONSTANTS g, a1, a2, b1, b2, b3, net, rpc

Full == [b \in {g, a1, a2, b1, b2, b3} |->
    CASE b = g -> {g} [] b = a1 -> {g, a1} [] b = a2 -> {g, a1, a2}
      [] b = b1 -> {g, b1} [] b = b2 -> {g, b1, b2} [] b = b3 -> {g, b1, b2, b3}]
MCPath == [b \in Block |-> Full[b]]
MCWork == [b \in Block |-> Cardinality(Full[b])]

VARIABLE scenario

MCInit == Init /\ scenario \in {"reorganise", "crash"}
MCNext ==
    /\ Next /\ UNCHANGED scenario
    /\ IF scenario = "crash"
       THEN /\ index'.known \subseteq {g, a1, b1, b2} \cap (index'.data \cup index'.invalid)
            /\ commands' + writes' <= 2
       ELSE writes' = 0 /\ crashes' = 0
MCSpec == MCInit /\ [][MCNext]_<<vars, scenario>> /\ Fairness
=============================================================================
