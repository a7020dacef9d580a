------------------------------ MODULE MCSpork ------------------------------
(* Three nodes in a line; the signer is at one end.  In the scenario "line"  *)
(* one spork is issued.  In "twice" there are two, over two seconds, or one  *)
(* and one signed with another key; the node at the far end is quick, and    *)
(* the padding is always the same.  Values are issued in their order, and    *)
(* their padding is called 0.                                                *)
EXTENDS Spork

CONSTANTS a, b, c

LineLink == {<<a, b>>, <<b, a>>, <<b, c>>, <<c, b>>}
OneForeign == {[id |-> 10000, value |-> 9, time |-> 1]}
NoSkew == [n \in {a, b, c} |-> 0]

VARIABLE scenario

MCInit ==
    /\ Init /\ scenario \in {"line", "twice"}
    /\ scenario = "twice" => ibd = [n \in Node |-> FALSE]
MCNext ==
    /\ IF scenario = "twice" /\ ENABLED Work(c) THEN Work(c) ELSE Next
    /\ UNCHANGED scenario
    /\ \A s \in signed' : s.value # 1 => \E t \in signed' : t.value = 1
    /\ \A n \in Node : updating'[n] # NoSpork => updating'[n].pad = 0
    /\ IF scenario = "twice"
       THEN /\ \A n \in Node : \A h \in mapSporks'[n] : h.pad = 0
            /\ banned' \subseteq {b} /\ (banned' # {} => Cardinality(signed') <= 1)
       ELSE now' = 0 /\ banned' = {} /\ Cardinality(signed') <= 1
MCSpec == MCInit /\ [][MCNext]_<<vars, scenario>> /\ Fairness
============================================================================
