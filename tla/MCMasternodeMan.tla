--------------------------- MODULE MCMasternodeMan ---------------------------
(***************************************************************************)
(* MasternodeMan on small instances.  Minutes are scaled so that the order *)
(* of the code's intervals (10 < 30 < 60 < 65 < 70 < 180) is kept.  A run  *)
(* is one of two scenarios: "messages", announcements, pings, votes and    *)
(* scanning reports at a node that stays up; and "restarts", dumps, a      *)
(* crash and a reload at a masternode, with collateral that comes and      *)
(* goes.                                                                   *)
(***************************************************************************)
EXTENDS MasternodeMan

CONSTANTS v1, k1, k2, a1, h1, h2, h3

VARIABLE scenario

MCOwner == [vin \in Vin |-> k1]

Scanned == \E vin \in Vin : Listed(vin) /\ vMasternodes[vin].nLastScanningErrorBlockHeight # 0

\* Three announcements (one with the key h2) and pings, at most two of a
\* kind; or an announcement with a vote or with scanning reports.
MessagesOnly ==
    /\ crashes' = 0 /\ writing' = Missing
    /\ UNCHANGED <<acceptable, confTime>>
    /\ \A d \in announced' : d.pubkey2 # MyKey
    /\ announced' # {} => \E d \in announced' : d.pubkey2 = h2
    /\ voted' # {} => pinged' = {} /\ Cardinality(announced') = 1
    /\ Scanned' => pinged' = {} /\ Cardinality(announced') = 1
    /\ Cardinality(announced') + Cardinality(pinged') <= 3

RestartsOnly ==
    /\ pinged' = {} /\ voted' = {} /\ ~Scanned'
    /\ Cardinality(announced') <= 1
    /\ \A d \in announced' : d.pubkey2 = MyKey

MCInit ==
    /\ Init
    /\ scenario \in {"messages", "restarts"}
    /\ scenario = "messages" => ~ibd /\ \A vin \in Vin : confTime[vin] = Start

MCNext ==
    /\ Next
    /\ UNCHANGED scenario
    /\ IF scenario = "messages" THEN MessagesOnly ELSE RestartsOnly

MCSpec == MCInit /\ [][MCNext]_<<vars, scenario>> /\ Fairness
=============================================================================
