------------------------ MODULE MasternodePosProofs ------------------------
(***************************************************************************)
(* Proofs about ActiveMasternode, which is instantiated here, so that its  *)
(* assumptions are hypotheses of the theorems about it; and about          *)
(* MasternodePos, for any masternodes, ranking, outages and order of the   *)
(* reports, and for chains and error counts beyond the bounds of the runs. *)
(***************************************************************************)
EXTENDS MasternodePos, Sequences, FiniteSets, TLAPS

(* The masternode itself: its pings, and the entry a peer keeps of it.     *)

CONSTANTS
    MASTERNODE_MIN_DSEE_SECONDS, MASTERNODE_MIN_DSEEP_SECONDS,
    MASTERNODE_EXPIRATION_SECONDS, MASTERNODE_REMOVAL_SECONDS,
    NoMasternode, MaxMissed, MaxNet

VARIABLES
    hot, status, known, coinLocked, up, ibd, acceptable, confirmed, held, asked, linked,
    net, due, missed

AM == INSTANCE ActiveMasternode WITH entry <- held

Status == {"NOT_PROCESSED", "IS_CAPABLE", "NOT_CAPABLE", "STOPPED", "INPUT_TOO_NEW",
           "REMOTELY_ENABLED", "SYNC_IN_PROCESS"}
Entries == [AM!Node -> AM!Entry \cup {NoMasternode}]
Nets == [AM!Node -> Seq(AM!Message)]

\* The messages on the way.
Total(n) == Len(n["me"]) + Len(n["peer"])

\* The ping of a tick is what may exceed the bound.
Few == Total(net) <= MaxNet + (IF "manage" \in due THEN 0 ELSE 1)

\* The peer's entry is at most one ping that did not count older than what the
\* peer last heard.
Heard ==
    held["peer"] # NoMasternode =>
        \/ held["peer"].lastTimeSeen = 0
        \/ missed > MASTERNODE_EXPIRATION_SECONDS - MASTERNODE_MIN_DSEEP_SECONDS
        \/ AM!Now - held["peer"].lastTimeSeen < missed + MASTERNODE_MIN_DSEEP_SECONDS

Flags ==
    /\ hot \in BOOLEAN /\ known \in BOOLEAN /\ coinLocked \in BOOLEAN /\ up \in BOOLEAN
    /\ ibd \in BOOLEAN /\ acceptable \in BOOLEAN /\ confirmed \in BOOLEAN /\ linked \in BOOLEAN

\* The inductive invariant.
AMInv ==
    /\ Flags
    /\ status \in Status /\ held \in Entries /\ net \in Nets
    /\ asked \in [AM!Node -> 0 .. MASTERNODE_MIN_DSEEP_SECONDS]
    /\ due \subseteq {"manage", "me", "peer"} /\ missed \in 0 .. MaxMissed
    /\ Few /\ Heard

\* What a step must not do to the peer's entry.
Costs ==
    AM!Enabled("peer") /\ ~AM!Enabled("peer")' =>
        \/ missed > MASTERNODE_EXPIRATION_SECONDS - MASTERNODE_MIN_DSEEP_SECONDS
        \/ held["peer"].lastTimeSeen = 0
        \/ ~acceptable

Seconds ==
    /\ MASTERNODE_MIN_DSEE_SECONDS \in Nat /\ MASTERNODE_MIN_DSEE_SECONDS > 0
    /\ MASTERNODE_MIN_DSEEP_SECONDS \in Nat /\ MASTERNODE_EXPIRATION_SECONDS \in Nat
    /\ MASTERNODE_REMOVAL_SECONDS \in Nat /\ AM!Now \in Nat /\ AM!Now > 0
    /\ AM!Now = MASTERNODE_REMOVAL_SECONDS + 1
    /\ MASTERNODE_MIN_DSEE_SECONDS < MASTERNODE_MIN_DSEEP_SECONDS
    /\ MASTERNODE_MIN_DSEEP_SECONDS < MASTERNODE_EXPIRATION_SECONDS
    /\ MASTERNODE_EXPIRATION_SECONDS < MASTERNODE_REMOVAL_SECONDS
    /\ MaxMissed \in Nat
    /\ MaxMissed > MASTERNODE_EXPIRATION_SECONDS - MASTERNODE_MIN_DSEEP_SECONDS
    /\ MaxNet \in Nat /\ MaxNet > 0
    /\ NoMasternode \notin AM!Entry

LEMMA SecondsHold == AM!SecondsAssumption /\ AM!BoundsAssumption /\ AM!NoEntry => Seconds
BY SMTT(30) DEF AM!SecondsAssumption, AM!BoundsAssumption, AM!NoEntry, Seconds, AM!Now

LEMMA EntryParts ==
    ASSUME Seconds, NEW e \in AM!Entry
    PROVE  /\ e.activeState \in AM!ActiveState
           /\ e.lastTimeSeen \in Nat /\ e.lastTimeSeen <= AM!Now
           /\ e.sigTime \in Nat /\ e.sigTime >= 1 /\ e.sigTime <= AM!Now
           /\ e.nScanningErrorCount = 0
BY DEF AM!Entry, Seconds

\* Constructor, UpdateLastSeen and Disable.
LEMMA NewEntryKind ==
    ASSUME Seconds, NEW t \in 1 .. AM!Now, NEW u \in 0 .. AM!Now
    PROVE  /\ AM!NewEntry(t, u) \in AM!Entry
           /\ AM!NewEntry(t, u).lastTimeSeen = IF u = 0 THEN AM!Now ELSE u
           /\ AM!NewEntry(t, u).activeState = "ENABLED"
BY DEF AM!NewEntry, AM!UpdateLastSeen, AM!Entry, AM!ActiveState, Seconds

LEMMA SeenKind ==
    ASSUME Seconds, NEW e \in AM!Entry
    PROVE  /\ AM!UpdateLastSeen(e, AM!Now, 0) \in AM!Entry
           /\ AM!UpdateLastSeen(e, AM!Now, 0).lastTimeSeen = AM!Now
           /\ AM!UpdateLastSeen(e, AM!Now, 0).activeState = e.activeState
BY DEF AM!UpdateLastSeen, AM!Entry, Seconds

LEMMA DisableKind ==
    ASSUME Seconds, NEW e \in AM!Entry
    PROVE  /\ AM!Disable(e) \in AM!Entry
           /\ AM!Disable(e).lastTimeSeen = 0
           /\ AM!Disable(e).activeState = e.activeState
BY DEF AM!Disable, AM!Entry, Seconds

\* Check changes the state alone, and takes ENABLED away only from an entry
\* that is old or whose collateral is spent.
LEMMA CheckKind ==
    ASSUME Seconds, NEW e \in AM!Entry, NEW ok \in BOOLEAN, NEW locked \in BOOLEAN
    PROVE  /\ AM!Check(e, AM!Now, ok, locked) \in AM!Entry
           /\ AM!Check(e, AM!Now, ok, locked).lastTimeSeen = e.lastTimeSeen
           /\ e.activeState = "ENABLED" =>
                 \/ AM!Check(e, AM!Now, ok, locked).activeState = "ENABLED"
                 \/ AM!Now - e.lastTimeSeen >= MASTERNODE_EXPIRATION_SECONDS
                 \/ ~ok
<1> DEFINE st == AM!CheckState(e, AM!Now, ok)
<1>1. st \in AM!ActiveState
  BY EntryParts, Zenon DEF AM!CheckState, AM!ActiveState
<1>2. e.activeState = "ENABLED" =>
         st = "ENABLED" \/ AM!Now - e.lastTimeSeen >= MASTERNODE_EXPIRATION_SECONDS \/ ~ok
  BY EntryParts DEF AM!CheckState, AM!MASTERNODE_SCANNING_ERROR_THESHOLD, AM!UpdatedWithin, Seconds
<1> HIDE DEF st
<1>3. AM!Check(e, AM!Now, ok, locked) = IF locked THEN [e EXCEPT !.activeState = st] ELSE e
  BY Zenon DEF AM!Check, st
<1>4. /\ [e EXCEPT !.activeState = st] \in AM!Entry
      /\ [e EXCEPT !.activeState = st].activeState = st
      /\ [e EXCEPT !.activeState = st].lastTimeSeen = e.lastTimeSeen
  BY <1>1, Zenon DEF AM!Entry
<1> QED BY <1>2, <1>3, <1>4, Zenon

\* What CheckAndRemove and a restart leave of an entry.
LEMMA SweepKind ==
    ASSUME Seconds, NEW e \in AM!Entry \cup {NoMasternode}, acceptable \in BOOLEAN,
           NEW locked \in BOOLEAN
    PROVE  /\ AM!Sweep(e, locked) \in AM!Entry \cup {NoMasternode}
           /\ AM!Sweep(e, locked) # NoMasternode =>
                 e # NoMasternode /\ AM!Sweep(e, locked).lastTimeSeen = e.lastTimeSeen
           /\ e # NoMasternode /\ e.activeState = "ENABLED" =>
                 \/ /\ AM!Sweep(e, locked) # NoMasternode
                    /\ AM!Sweep(e, locked).activeState = "ENABLED"
                 \/ AM!Now - e.lastTimeSeen >= MASTERNODE_EXPIRATION_SECONDS
                 \/ ~acceptable
<1>1. CASE e = NoMasternode
  BY <1>1, Zenon DEF AM!Sweep
<1>2. CASE e # NoMasternode
  <2> DEFINE c == AM!Check(e, AM!Now, acceptable, locked)
  <2>1. /\ c \in AM!Entry /\ c.lastTimeSeen = e.lastTimeSeen
        /\ e.activeState = "ENABLED" =>
                 \/ c.activeState = "ENABLED"
                 \/ AM!Now - e.lastTimeSeen >= MASTERNODE_EXPIRATION_SECONDS
                 \/ ~acceptable
    BY <1>2, CheckKind, Zenon
  <2>2. AM!Sweep(e, locked) = IF c.activeState \in {"REMOVE", "VIN_SPENT"} THEN NoMasternode ELSE c
    BY <1>2, Zenon DEF AM!Sweep
  <2>3. c # NoMasternode
    BY <2>1, Zenon DEF Seconds
  <2> HIDE DEF c
  <2> QED BY <1>2, <2>1, <2>2, <2>3, Zenon
<1> QED BY <1>1, <1>2, Zenon

\* Messages.
LEMMA MessageKinds ==
    /\ \A t \in 1 .. AM!Now, fresh \in BOOLEAN, u \in 0 .. AM!Now : AM!Dsee(t, fresh, u) \in AM!Message
    /\ \A stop \in BOOLEAN : AM!Dseep(stop) \in AM!Message
    /\ AM!Dseg \in AM!Message
    /\ \A m \in AM!Message : m.type = "dsee" =>
          m.sigTime \in 1 .. AM!Now /\ m.fresh \in BOOLEAN /\ m.lastUpdated \in 0 .. AM!Now
    /\ \A m \in AM!Message : m.type = "dseep" => m.stop \in BOOLEAN
<1>1. /\ \A t \in 1 .. AM!Now, fresh \in BOOLEAN, u \in 0 .. AM!Now : AM!Dsee(t, fresh, u) \in AM!Message
      /\ \A stop \in BOOLEAN : AM!Dseep(stop) \in AM!Message
      /\ AM!Dseg \in AM!Message
  BY SMTT(30) DEF AM!Message
<1>2. ASSUME NEW m \in AM!Message
      PROVE  /\ m.type = "dsee" =>
                   m.sigTime \in 1 .. AM!Now /\ m.fresh \in BOOLEAN /\ m.lastUpdated \in 0 .. AM!Now
             /\ m.type = "dseep" => m.stop \in BOOLEAN
  <2>1. CASE \E t \in 1 .. AM!Now, fresh \in BOOLEAN, u \in 0 .. AM!Now : m = AM!Dsee(t, fresh, u)
    BY <2>1 DEF AM!Dsee
  <2>2. CASE \E stop \in BOOLEAN : m = AM!Dseep(stop)
    BY <2>2 DEF AM!Dseep
  <2>3. CASE m = AM!Dseg
    BY <2>3, Zenon DEF AM!Dseg
  <2> QED BY <2>1, <2>2, <2>3, SMTT(30) DEF AM!Message
<1> QED BY <1>1, <1>2, Zenon

LEMMA NodeKind == /\ "me" \in AM!Node /\ "peer" \in AM!Node
                  /\ \A x \in AM!Node : x = "me" \/ x = "peer"
                  /\ \A x \in AM!Node : AM!Other(x) \in AM!Node /\ AM!Other(x) # x
BY Zenon DEF AM!Node, AM!Other

\* The messages are those to one node and those to the other.
LEMMA Totals ==
    ASSUME NEW n \in Nets, NEW x \in AM!Node
    PROVE  /\ Len(n[x]) \in Nat /\ Len(n[AM!Other(x)]) \in Nat /\ Total(n) \in Nat
           /\ Total(n) = Len(n[x]) + Len(n[AM!Other(x)])
<1>1. n["me"] \in Seq(AM!Message) /\ n["peer"] \in Seq(AM!Message)
  BY NodeKind, Zenon DEF Nets
<1> DEFINE a == Len(n["me"])
           b == Len(n["peer"])
<1>2. a \in Nat /\ b \in Nat
  BY <1>1
<1>3. Total(n) = a + b
  BY Zenon DEF Total
<1>4. CASE x = "me"
  <2>1. AM!Other(x) = "peer"
    BY <1>4, Zenon DEF AM!Other
  <2>2. Len(n[x]) = a /\ Len(n[AM!Other(x)]) = b
    BY <1>4, <2>1, Zenon
  <2> HIDE DEF a, b
  <2> QED BY <1>2, <1>3, <2>2
<1>5. CASE x = "peer"
  <2>1. AM!Other(x) = "me"
    BY <1>5, Zenon DEF AM!Other
  <2>2. Len(n[x]) = b /\ Len(n[AM!Other(x)]) = a
    BY <1>5, <2>1, Zenon
  <2> HIDE DEF a, b
  <2> QED BY <1>2, <1>3, <2>2
<1> QED BY <1>4, <1>5, NodeKind, Zenon

\* What is sent to the other node ...
LEMMA SentKind ==
    ASSUME net \in Nets, NEW x \in AM!Node, NEW m \in AM!Message
    PROVE  /\ AM!Sent(x, m) \in Nets /\ Total(AM!Sent(x, m)) <= Total(net) + 1
           /\ [net EXCEPT ![x] = Append(@, m)] \in Nets
           /\ Total([net EXCEPT ![x] = Append(@, m)]) = Total(net) + 1
<1> DEFINE n == [net EXCEPT ![x] = Append(@, m)]
<1>1. \A y \in AM!Node : net[y] \in Seq(AM!Message) /\ Len(net[y]) \in Nat
  BY DEF Nets
<1>2. Append(net[x], m) \in Seq(AM!Message) /\ Len(Append(net[x], m)) = Len(net[x]) + 1
  BY <1>1, SMTT(30)
<1>3. /\ n \in Nets /\ n[x] = Append(net[x], m)
      /\ \A y \in AM!Node : y # x => n[y] = net[y]
  BY <1>2, Zenon DEF Nets
<1>4. Total(n) = Total(net) + 1
  <2>1. n[AM!Other(x)] = net[AM!Other(x)]
    BY <1>3, NodeKind, Zenon
  <2>2. Total(n) = Len(n[x]) + Len(n[AM!Other(x)])
    <3> HIDE DEF n
    <3> QED BY <1>3, Totals, Zenon
  <2>3. Total(net) = Len(net[x]) + Len(net[AM!Other(x)])
        /\ Len(net[x]) \in Nat /\ Len(net[AM!Other(x)]) \in Nat
    BY Totals, Zenon
  <2>4. Len(n[x]) = Len(net[x]) + 1 /\ Len(n[AM!Other(x)]) = Len(net[AM!Other(x)])
    BY <1>2, <1>3, <2>1, Zenon
  <2>5. \A a, b \in Nat : (a + 1) + b = (a + b) + 1
    OBVIOUS
  <2> HIDE DEF n
  <2> QED BY <2>2, <2>3, <2>4, <2>5, Zenon
<1>5. Total(net) \in Nat
  BY Totals, Zenon
<1> HIDE DEF n
<1>6. AM!Sent(x, m) = IF linked THEN n ELSE net
  BY Zenon DEF AM!Sent, n
<1> QED BY <1>3, <1>4, <1>5, <1>6 DEF n

\* ... and what remains when a message has been handled.
LEMMA AnsweredKind ==
    ASSUME net \in Nets, NEW x \in AM!Node, net[x] # <<>>, NEW ms \in Seq(AM!Message), Len(ms) <= 1
    PROVE  AM!Answered(x, ms) \in Nets /\ Total(AM!Answered(x, ms)) <= Total(net)
<1> DEFINE n == AM!Answered(x, ms)
           o == AM!Other(x)
<1>1. \A y \in AM!Node : net[y] \in Seq(AM!Message) /\ Len(net[y]) \in Nat
  BY SMTT(30) DEF Nets
<1>2. Tail(net[x]) \in Seq(AM!Message) /\ Len(Tail(net[x])) = Len(net[x]) - 1
  BY <1>1, SMTT(30)
<1>3. net[o] \o ms \in Seq(AM!Message) /\ Len(net[o] \o ms) <= Len(net[o]) + 1
  BY <1>1, NodeKind
<1>4. /\ n \in Nets /\ n[x] = Tail(net[x])
      /\ n[o] = IF linked THEN net[o] \o ms ELSE net[o]
  BY <1>1, <1>2, <1>3, NodeKind, Zenon DEF Nets, AM!Answered
<1> HIDE DEF n, o
<1>5. o \in AM!Node /\ o # x
  BY NodeKind, Zenon DEF o
<1>6. Len(n[o]) <= Len(net[o]) + 1 /\ Len(n[o]) \in Nat /\ Len(n[x]) = Len(net[x]) - 1
  BY <1>1, <1>2, <1>3, <1>4, <1>5 DEF Nets
<1>7. Total(n) <= Total(net)
  <2>1. Total(n) = Len(n[x]) + Len(n[o]) /\ Total(net) = Len(net[x]) + Len(net[o])
    BY <1>4, Totals, Zenon DEF o
  <2>2. \A a, b, c \in Nat : c <= b + 1 => (a - 1) + c <= a + b
    BY SMTT(30)
  <2>3. Len(net[x]) \in Nat /\ Len(net[o]) \in Nat
    BY <1>1, <1>5, Zenon
  <2> QED BY <1>6, <2>1, <2>2, <2>3, Zenon
<1> QED BY <1>4, <1>7, Zenon DEF n

\* A step that leaves the peer's entry and the silence alone.
LEMMA PeerSame ==
    ASSUME Heard, held'["peer"] = held["peer"], missed' = missed
    PROVE  Heard' /\ Costs
BY Zenon DEF Heard, Costs, AM!Enabled, AM!Listed, AM!IsEnabled, AM!Now

\* A step that puts no message on the way.
LEMMA FewSame ==
    ASSUME Seconds, Few, net \in Nets, net' \in Nets, Total(net') <= Total(net),
           "manage" \in due' => "manage" \in due
    PROVE  Few'
<1>1. Total(net) \in Nat /\ Total(net') \in Nat
  BY Totals, NodeKind, Zenon
<1> QED BY <1>1 DEF Few, Seconds

LEMMA NoMessages == [x \in AM!Node |-> <<>>] \in Nets /\ Total([x \in AM!Node |-> <<>>]) = 0
<1>1. "me" \in AM!Node /\ "peer" \in AM!Node
  BY NodeKind, Zenon
<1>2. <<>> \in Seq(AM!Message) /\ Len(<<>>) = 0
  OBVIOUS
<1> QED BY <1>1, <1>2 DEF Nets, Total

\* Register, Dseep and the rest of ManageStatus change the own entry alone and
\* send at most one message.
LEMMA ManageEffect ==
    ASSUME Seconds, AMInv, NEW st \in Status, NEW ready \in BOOLEAN, AM!ManageStatus(st, ready)
    PROVE  /\ status' \in Status /\ known' \in BOOLEAN /\ coinLocked' \in BOOLEAN
           /\ held' \in Entries /\ held'["peer"] = held["peer"]
           /\ net' \in Nets /\ Total(net') <= Total(net) + 1
<1>0. /\ status \in Status /\ known \in BOOLEAN /\ coinLocked \in BOOLEAN
      /\ held \in Entries /\ net \in Nets /\ Total(net) \in Nat
      /\ "me" \in AM!Node /\ "peer" \in AM!Node
  BY NodeKind, Totals, Zenon DEF AMInv, Flags
<1>1. ASSUME NEW new \in Status, AM!NoChange(new)
      PROVE  /\ status' \in Status /\ known' \in BOOLEAN /\ coinLocked' \in BOOLEAN
             /\ held' \in Entries /\ held'["peer"] = held["peer"]
             /\ net' \in Nets /\ Total(net') <= Total(net) + 1
  BY <1>0, <1>1, SMTT(30) DEF AM!NoChange
<1>2. ASSUME status' = "INPUT_TOO_NEW", known' = TRUE, UNCHANGED <<coinLocked, held, net>>
      PROVE  /\ status' \in Status /\ known' \in BOOLEAN /\ coinLocked' \in BOOLEAN
             /\ held' \in Entries /\ held'["peer"] = held["peer"]
             /\ net' \in Nets /\ Total(net') <= Total(net) + 1
  BY <1>0, <1>2 DEF Status
<1>3. ASSUME AM!Register
      PROVE  /\ status' \in Status /\ known' \in BOOLEAN /\ coinLocked' \in BOOLEAN
             /\ held' \in Entries /\ held'["peer"] = held["peer"]
             /\ net' \in Nets /\ Total(net') <= Total(net) + 1
  <2>1. AM!Now \in 1 .. AM!Now /\ AM!Now \in 0 .. AM!Now
    BY DEF Seconds
  <2>2. AM!NewEntry(AM!Now, AM!Now) \in AM!Entry
    BY <2>1, NewEntryKind, Zenon
  <2>3. held' \in Entries /\ held'["peer"] = held["peer"]
    BY <1>0, <1>3, <2>2, Zenon DEF AM!Register, Entries
  <2>4. AM!Dsee(AM!Now, TRUE, AM!Now) \in AM!Message
    BY <2>1, MessageKinds, Zenon
  <2>5. net' \in Nets /\ Total(net') <= Total(net) + 1
    BY <1>0, <1>3, <2>4, SentKind, Zenon DEF AM!Register
  <2> QED BY <1>3, <2>3, <2>5, Zenon DEF AM!Register, Status
<1>4. ASSUME AM!Ping(st)
      PROVE  /\ status' \in Status /\ known' \in BOOLEAN /\ coinLocked' \in BOOLEAN
             /\ held' \in Entries /\ held'["peer"] = held["peer"]
             /\ net' \in Nets /\ Total(net') <= Total(net) + 1
  <2>1. CASE AM!NoChange(st) \/ AM!NoChange("NOT_CAPABLE")
    BY <1>1, <2>1, Zenon DEF Status
  <2>2. CASE /\ held["me"] # NoMasternode /\ status' = st
             /\ held' = [held EXCEPT !["me"] = AM!UpdateLastSeen(@, AM!Now, 0)]
             /\ net' = AM!Sent("peer", AM!Dseep(FALSE))
             /\ UNCHANGED <<known, coinLocked>>
    <3>1. AM!UpdateLastSeen(held["me"], AM!Now, 0) \in AM!Entry
      BY <1>0, <2>2, SeenKind, Zenon DEF Entries
    <3>2. held' \in Entries /\ held'["peer"] = held["peer"]
      BY <1>0, <2>2, <3>1, Zenon DEF Entries
    <3>3. AM!Dseep(FALSE) \in AM!Message
      BY MessageKinds, Zenon
    <3>4. net' \in Nets /\ Total(net') <= Total(net) + 1
      BY <1>0, <2>2, <3>3, SentKind, Zenon
    <3> QED BY <1>0, <2>2, <3>2, <3>4, Zenon
  <2> QED BY <1>4, <2>1, <2>2, Zenon DEF AM!Ping, AM!Listed
<1>5. \/ AM!NoChange("SYNC_IN_PROCESS") \/ AM!NoChange("NOT_CAPABLE") \/ AM!Ping(st)
      \/ AM!Register
      \/ status' = "INPUT_TOO_NEW" /\ known' = TRUE /\ UNCHANGED <<coinLocked, held, net>>
  BY Zenon DEF AM!ManageStatus
<1>6. "SYNC_IN_PROCESS" \in Status /\ "NOT_CAPABLE" \in Status
  BY Zenon DEF Status
<1> QED BY <1>1, <1>2, <1>3, <1>4, <1>5, <1>6, Zenon

\* A step that may put one message on the way: there is room for it.
LEMMA FewMore ==
    ASSUME Seconds, net \in Nets, net' \in Nets, Total(net') <= Total(net) + 1,
           \/ Few /\ "manage" \in due /\ "manage" \notin due'
           \/ AM!Quiet
    PROVE  Few'
<1>1. Total(net) \in Nat /\ Total(net') \in Nat
  BY Totals, NodeKind, Zenon
<1>2. AM!Quiet => Total(net) < MaxNet
  BY Zenon DEF AM!Quiet, Total
<1> QED BY <1>1, <1>2 DEF Few, Seconds

\* ThreadBitPool and the commands at the masternode.
LEMMA ManageStep ==
    ASSUME Seconds, AMInv, AM!Manage \/ AM!Start
    PROVE  AMInv' /\ Costs
<1>1. /\ UNCHANGED <<hot, up, ibd, acceptable, confirmed, asked, linked, missed>>
      /\ due' \subseteq due
      /\ \/ "manage" \in due /\ "manage" \notin due'
         \/ AM!Quiet
      /\ \E st \in Status, ready \in BOOLEAN : AM!ManageStatus(st, ready)
  <2>1. CASE AM!Manage
    BY <2>1, Zenon DEF AM!Manage, AM!chainVars, AMInv
  <2>2. CASE AM!Start
    BY <2>2, Zenon DEF AM!Start, AM!chainVars, Status
  <2> QED BY <2>1, <2>2, Zenon
<1>2. /\ status' \in Status /\ known' \in BOOLEAN /\ coinLocked' \in BOOLEAN
      /\ held' \in Entries /\ held'["peer"] = held["peer"]
      /\ net' \in Nets /\ Total(net') <= Total(net) + 1
  BY <1>1, ManageEffect, Zenon
<1>3. Few'
  BY <1>1, <1>2, FewMore, Zenon DEF AMInv
<1>4. Heard' /\ Costs
  BY <1>1, <1>2, PeerSame, Zenon DEF AMInv
<1>5. Flags'
  BY <1>1, <1>2, Zenon DEF AMInv, Flags
<1> QED BY <1>1, <1>2, <1>3, <1>4, <1>5, Zenon DEF AMInv

LEMMA StopStep ==
    ASSUME Seconds, AMInv, AM!Stop
    PROVE  AMInv' /\ Costs
<1>0. held \in Entries /\ net \in Nets /\ Total(net) \in Nat /\ "me" \in AM!Node /\ "peer" \in AM!Node
  BY NodeKind, Totals, Zenon DEF AMInv
<1>1. /\ UNCHANGED <<hot, known, up, ibd, acceptable, confirmed, asked, linked, due, missed>>
      /\ coinLocked' = FALSE /\ status' \in {"STOPPED", "NOT_CAPABLE"} /\ AM!Quiet
      /\ held' = [held EXCEPT !["me"] = NoMasternode]
      /\ net' = net \/ net' = AM!Sent("peer", AM!Dseep(TRUE))
  BY Zenon DEF AM!Stop, AM!chainVars
<1>2. held' \in Entries /\ held'["peer"] = held["peer"]
  BY <1>0, <1>1, Zenon DEF Entries
<1>3. AM!Dseep(TRUE) \in AM!Message
  BY MessageKinds, Zenon
<1>4. net' \in Nets /\ Total(net') <= Total(net) + 1
  <2>1. AM!Sent("peer", AM!Dseep(TRUE)) \in Nets
        /\ Total(AM!Sent("peer", AM!Dseep(TRUE))) <= Total(net) + 1
    BY <1>0, <1>3, SentKind, Zenon
  <2>2. \A n \in Nat : n <= n + 1
    BY SMTT(30)
  <2> QED BY <1>0, <1>1, <2>1, <2>2, Zenon
<1>5. Few'
  BY <1>0, <1>1, <1>4, FewMore, Zenon
<1>6. Heard' /\ Costs
  BY <1>1, <1>2, PeerSame, Zenon DEF AMInv
<1>7. Flags' /\ status' \in Status
  BY <1>1, Zenon DEF AMInv, Flags, Status
<1> QED BY <1>1, <1>2, <1>4, <1>5, <1>6, <1>7, Zenon DEF AMInv

LEMMA RemoteStartStep ==
    ASSUME Seconds, AMInv, AM!RemoteStart
    PROVE  AMInv' /\ Costs
<1>0. net \in Nets /\ "peer" \in AM!Node /\ AM!Now \in 1 .. AM!Now /\ AM!Now \in 0 .. AM!Now
  BY NodeKind DEF AMInv, Seconds
<1>1. /\ UNCHANGED <<hot, status, known, coinLocked, up, ibd, acceptable, confirmed, held,
                     asked, linked, due, missed>>
      /\ AM!Quiet
      /\ net' = [net EXCEPT !["peer"] = Append(@, AM!Dsee(AM!Now, TRUE, AM!Now))]
  BY Zenon DEF AM!RemoteStart, AM!meVars, AM!chainVars
<1>2. AM!Dsee(AM!Now, TRUE, AM!Now) \in AM!Message
  BY <1>0, MessageKinds, Zenon
<1>3. net' \in Nets /\ Total(net') = Total(net) + 1
  BY <1>0, <1>1, <1>2, SentKind, Zenon
<1>4. Total(net) + 1 <= Total(net) + 1
  <2>1. Total(net) \in Nat
    BY <1>0, Totals, Zenon
  <2> QED BY <2>1
<1>5. Few'
  BY <1>0, <1>1, <1>3, <1>4, FewMore, Zenon
<1>6. Heard' /\ Costs
  BY <1>1, PeerSame, Zenon DEF AMInv
<1>7. Flags'
  BY <1>1, Zenon DEF AMInv, Flags
<1> QED BY <1>1, <1>3, <1>5, <1>6, <1>7, Zenon DEF AMInv

\* The handlers at x: one message is taken, at most one sent.
LEMMA HandlerNet ==
    ASSUME AMInv, NEW x \in AM!Node, AM!Receive(x)
    PROVE  /\ Head(net[x]) \in AM!Message
           /\ \A ms \in {<<>>, <<Head(net[x])>>} :
                 AM!Answered(x, ms) \in Nets /\ Total(AM!Answered(x, ms)) <= Total(net)
<1>1. net \in Nets /\ net[x] \in Seq(AM!Message) /\ net[x] # <<>>
  BY Zenon DEF AMInv, Nets, AM!Receive
<1>2. Head(net[x]) \in AM!Message
  BY <1>1
<1>3. <<>> \in Seq(AM!Message) /\ Len(<<>>) <= 1
  OBVIOUS
<1>4. <<Head(net[x])>> \in Seq(AM!Message) /\ Len(<<Head(net[x])>>) <= 1
  BY <1>2, SMTT(30)
<1> QED BY <1>1, <1>2, <1>3, <1>4, AnsweredKind, Zenon

LEMMA DseeKnownStep ==
    ASSUME Seconds, AMInv, NEW x \in AM!Node, NEW locked \in BOOLEAN,
           AM!ProcessDseeKnown(x, locked)
    PROVE  AMInv' /\ Costs
<1> DEFINE m == Head(net[x])
           e == held[x]
           seen == AM!UpdateLastSeen(e, AM!Now, 0)
           moved == [seen EXCEPT !.sigTime = m.sigTime]
           newer == AM!Check(moved, AM!Now, acceptable, locked)
           taken == m.fresh /\ ~AM!UpdatedWithin(e, AM!Now, MASTERNODE_MIN_DSEE_SECONDS)
<1>1. /\ AM!Receive(x) /\ m.type = "dsee" /\ e # NoMasternode
      /\ \/ taken /\ held' = [held EXCEPT ![x] = newer]
         \/ taken /\ held' = [held EXCEPT ![x] = seen]
         \/ ~taken /\ held' = [held EXCEPT ![x] = e]
      /\ net' = AM!Answered(x, <<m>>) \/ net' = AM!Answered(x, <<>>)
      /\ missed' = IF x = "peer" /\ taken THEN 0 ELSE missed
      /\ UNCHANGED <<hot, status, known, coinLocked, up, ibd, acceptable, confirmed, asked,
                     linked, due>>
  BY Zenon DEF AM!ProcessDseeKnown, AM!Known, AM!Listed, AM!meVars, AM!chainVars
<1>2. m \in AM!Message /\ net' \in Nets /\ Total(net') <= Total(net)
  BY <1>1, HandlerNet, Zenon
<1>3. m.sigTime \in 1 .. AM!Now
  BY <1>1, <1>2, MessageKinds, Zenon
<1>4. e \in AM!Entry /\ held \in [AM!Node -> AM!Entry \cup {NoMasternode}] /\ acceptable \in BOOLEAN
  BY <1>1, Zenon DEF AMInv, Entries, Flags
<1>5. seen \in AM!Entry /\ seen.lastTimeSeen = AM!Now /\ seen.activeState = e.activeState
  BY <1>4, SeenKind, Zenon
<1> HIDE DEF m, e, seen, taken
<1>6. moved \in AM!Entry /\ moved.lastTimeSeen = AM!Now /\ moved.activeState = e.activeState
  BY <1>3, <1>5, Zenon DEF AM!Entry
<1> HIDE DEF moved
<1>7. /\ newer \in AM!Entry /\ newer.lastTimeSeen = AM!Now
      /\ e.activeState = "ENABLED" =>
            \/ newer.activeState = "ENABLED"
            \/ AM!Now - AM!Now >= MASTERNODE_EXPIRATION_SECONDS
            \/ ~acceptable
  BY <1>4, <1>6, CheckKind
<1>8. ~(AM!Now - AM!Now >= MASTERNODE_EXPIRATION_SECONDS)
  BY DEF Seconds
<1> HIDE DEF newer
<1>9. PICK f \in AM!Entry : /\ held' = [held EXCEPT ![x] = f]
                            /\ taken => f.lastTimeSeen = AM!Now
                            /\ ~taken => f = e
                            /\ e.activeState = "ENABLED" => f.activeState = "ENABLED" \/ ~acceptable
  BY <1>1, <1>4, <1>5, <1>7, <1>8, Zenon
<1>10. held' \in Entries /\ held'[x] = f /\ \A y \in AM!Node : y # x => held'[y] = held[y]
  BY <1>4, <1>9, Zenon DEF Entries
<1>11. Heard' /\ Costs
  <2>1. CASE x = "me"
    BY <1>1, <1>10, <2>1, NodeKind, PeerSame, Zenon DEF AMInv
  <2>2. CASE x = "peer"
    <3>1. held["peer"] = e /\ held'["peer"] = f /\ f # NoMasternode
      BY <1>10, <2>2, Zenon DEF e, Seconds
    <3>2. Costs
      BY <1>9, <3>1, Zenon DEF Costs, AM!Enabled, AM!Listed, AM!IsEnabled
    <3>3. CASE taken
      <4>1. missed' = 0 /\ f.lastTimeSeen = AM!Now
        BY <1>1, <1>9, <2>2, <3>3, Zenon
      <4>2. AM!Now - AM!Now < 0 + MASTERNODE_MIN_DSEEP_SECONDS
        BY DEF Seconds
      <4> QED BY <3>1, <3>2, <4>1, <4>2, Zenon DEF Heard, AM!Now
    <3>4. CASE ~taken
      <4>1. missed' = missed /\ held'["peer"] = held["peer"]
        BY <1>1, <1>9, <3>1, <3>4, Zenon
      <4> QED BY <4>1, PeerSame, Zenon DEF AMInv
    <3> QED BY <3>3, <3>4, Zenon
  <2> QED BY <2>1, <2>2, NodeKind, Zenon
<1>12. Few'
  BY <1>1, <1>2, FewSame, Zenon DEF AMInv
<1>13. Flags' /\ missed' \in 0 .. MaxMissed
  BY <1>1, SMTT(30) DEF AMInv, Flags, Seconds
<1> QED BY <1>1, <1>2, <1>10, <1>11, <1>12, <1>13, Zenon DEF AMInv

LEMMA DseeNewStep ==
    ASSUME Seconds, AMInv, NEW x \in AM!Node, AM!ProcessDseeNew(x)
    PROVE  AMInv' /\ Costs
<1> DEFINE m == Head(net[x])
           new == AM!NewEntry(m.sigTime, m.lastUpdated)
           accepted == acceptable /\ confirmed
<1>1. /\ AM!Receive(x) /\ m.type = "dsee" /\ (x = "peer" => held[x] = NoMasternode)
      /\ held' = IF accepted /\ held[x] = NoMasternode THEN [held EXCEPT ![x] = new] ELSE held
      /\ status' \in {status, "REMOTELY_ENABLED"} /\ known' \in {known, TRUE}
      /\ net' = AM!Answered(x, <<m>>) \/ net' = AM!Answered(x, <<>>)
      /\ missed' = IF x = "peer" /\ accepted
                   THEN AM!Least(AM!Now - held'[x].lastTimeSeen, MaxMissed) ELSE missed
      /\ UNCHANGED <<hot, coinLocked, up, ibd, acceptable, confirmed, asked, linked, due>>
  BY Zenon DEF AM!ProcessDseeNew, AM!Known, AM!Listed, AM!chainVars
<1>2. m \in AM!Message /\ net' \in Nets /\ Total(net') <= Total(net)
  BY <1>1, HandlerNet, Zenon
<1>3. m.sigTime \in 1 .. AM!Now /\ m.lastUpdated \in 0 .. AM!Now
  BY <1>1, <1>2, MessageKinds, Zenon
<1> HIDE DEF m
<1>4. new \in AM!Entry /\ held \in [AM!Node -> AM!Entry \cup {NoMasternode}]
  BY <1>3, NewEntryKind, Zenon DEF AMInv, Entries
<1> HIDE DEF new, accepted
<1>5. held' \in Entries /\ \A y \in AM!Node : y # x => held'[y] = held[y]
  BY <1>1, <1>4, Zenon DEF Entries
<1>6. Heard' /\ Costs /\ missed' \in 0 .. MaxMissed
  <2>1. CASE ~(x = "peer" /\ accepted)
    <3>1. missed' = missed /\ held'["peer"] = held["peer"]
      BY <1>1, <1>5, <2>1, NodeKind, Zenon
    <3> QED BY <3>1, PeerSame, Zenon DEF AMInv
  <2>2. CASE x = "peer" /\ accepted
    <3>1. held'["peer"] = new /\ held["peer"] = NoMasternode
      BY <1>1, <1>4, <2>2, Zenon
    <3> DEFINE a == AM!Now - new.lastTimeSeen
    <3>2. a \in Nat
      BY <1>4, EntryParts DEF Seconds
    <3>3. missed' = AM!Least(a, MaxMissed)
      BY <1>1, <2>2, <3>1, Zenon
    <3> HIDE DEF a
    <3>4. missed' \in 0 .. MaxMissed
      BY <3>2, <3>3, SMTT(30) DEF AM!Least, Seconds
    <3>5. \/ missed' > MASTERNODE_EXPIRATION_SECONDS - MASTERNODE_MIN_DSEEP_SECONDS
          \/ a < missed' + MASTERNODE_MIN_DSEEP_SECONDS
      BY <3>2, <3>3 DEF AM!Least, Seconds
    <3>6. Heard'
      BY <3>1, <3>5, Zenon DEF Heard, a, AM!Now
    <3>7. Costs
      BY <3>1, Zenon DEF Costs, AM!Enabled, AM!Listed
    <3> QED BY <3>4, <3>6, <3>7, Zenon
  <2> QED BY <2>1, <2>2, Zenon
<1>7. Few'
  BY <1>1, <1>2, FewSame, Zenon DEF AMInv
<1>8. Flags' /\ status' \in Status
  BY <1>1, ZenonT(30) DEF AMInv, Flags, Status
<1> QED BY <1>1, <1>2, <1>5, <1>6, <1>7, <1>8, Zenon DEF AMInv

LEMMA DseepStep ==
    ASSUME Seconds, AMInv, NEW x \in AM!Node, NEW locked \in BOOLEAN, AM!ProcessDseep(x, locked)
    PROVE  AMInv' /\ Costs
<1> DEFINE m == Head(net[x])
           e == held[x]
           seen == AM!UpdateLastSeen(e, AM!Now, 0)
           checked == AM!Check(seen, AM!Now, acceptable, locked)
           off == AM!Disable(e)
           taken == ~AM!UpdatedWithin(e, AM!Now, MASTERNODE_MIN_DSEEP_SECONDS)
<1>1. /\ AM!Receive(x) /\ m.type = "dseep" /\ e # NoMasternode
      /\ held' = [held EXCEPT ![x] = IF taken THEN IF m.stop THEN off ELSE checked ELSE e]
      /\ net' = AM!Answered(x, <<m>>) \/ net' = AM!Answered(x, <<>>)
      /\ missed' = IF x = "peer" /\ ~m.stop THEN 0 ELSE missed
      /\ UNCHANGED <<hot, status, known, coinLocked, up, ibd, acceptable, confirmed, asked,
                     linked, due>>
  BY Zenon DEF AM!ProcessDseep, AM!PingTaken, AM!Listed, AM!meVars, AM!chainVars
<1>2. m \in AM!Message /\ net' \in Nets /\ Total(net') <= Total(net)
  BY <1>1, HandlerNet, Zenon
<1>3. m.stop \in BOOLEAN
  BY <1>1, <1>2, MessageKinds, Zenon
<1>4. e \in AM!Entry /\ held \in [AM!Node -> AM!Entry \cup {NoMasternode}] /\ acceptable \in BOOLEAN
  BY <1>1, Zenon DEF AMInv, Entries, Flags
<1>5. /\ seen \in AM!Entry /\ seen.lastTimeSeen = AM!Now /\ seen.activeState = e.activeState
      /\ off \in AM!Entry /\ off.lastTimeSeen = 0 /\ off.activeState = e.activeState
  BY <1>4, SeenKind, DisableKind, Zenon
<1>6. ~taken => AM!Now - e.lastTimeSeen < MASTERNODE_MIN_DSEEP_SECONDS
  BY Zenon DEF AM!UpdatedWithin
<1> HIDE DEF m, e, seen, off, taken
<1>7. /\ checked \in AM!Entry /\ checked.lastTimeSeen = AM!Now
      /\ e.activeState = "ENABLED" =>
            \/ checked.activeState = "ENABLED"
            \/ AM!Now - AM!Now >= MASTERNODE_EXPIRATION_SECONDS
            \/ ~acceptable
  BY <1>4, <1>5, CheckKind, Zenon
<1>8. ~(AM!Now - AM!Now >= MASTERNODE_EXPIRATION_SECONDS)
  BY DEF Seconds
<1> HIDE DEF checked
<1>9. PICK f \in AM!Entry : /\ held' = [held EXCEPT ![x] = f]
                            /\ taken /\ ~m.stop => f.lastTimeSeen = AM!Now
                            /\ taken /\ m.stop => f.lastTimeSeen = 0
                            /\ ~taken => f = e
                            /\ e.activeState = "ENABLED" => f.activeState = "ENABLED" \/ ~acceptable
  BY <1>1, <1>3, <1>4, <1>5, <1>7, <1>8, Zenon
<1>10. held' \in Entries /\ held'[x] = f /\ \A y \in AM!Node : y # x => held'[y] = held[y]
  BY <1>4, <1>9, Zenon DEF Entries
<1>11. Heard' /\ Costs
  <2>1. CASE x = "me"
    BY <1>1, <1>10, <2>1, NodeKind, PeerSame, Zenon DEF AMInv
  <2>2. CASE x = "peer"
    <3>1. held["peer"] = e /\ held'["peer"] = f /\ f # NoMasternode
      BY <1>10, <2>2, Zenon DEF e, Seconds
    <3>2. Costs
      BY <1>9, <3>1, Zenon DEF Costs, AM!Enabled, AM!Listed, AM!IsEnabled
    <3>3. CASE m.stop
      <4>1. missed' = missed /\ (f.lastTimeSeen = 0 \/ f = e)
        BY <1>1, <1>9, <3>3, Zenon
      <4>2. CASE f.lastTimeSeen = 0
        BY <3>1, <3>2, <4>2, Zenon DEF Heard
      <4>3. CASE f = e
        BY <3>1, <4>1, <4>3, PeerSame, Zenon DEF AMInv
      <4> QED BY <4>1, <4>2, <4>3, Zenon
    <3>4. CASE ~m.stop
      <4>1. missed' = 0 /\ (f.lastTimeSeen = AM!Now \/ (~taken /\ f = e))
        BY <1>1, <1>9, <2>2, <3>4, Zenon
      <4>2. AM!Now - f.lastTimeSeen < 0 + MASTERNODE_MIN_DSEEP_SECONDS
        BY <1>4, <1>6, <4>1, EntryParts DEF Seconds
      <4> QED BY <3>1, <3>2, <4>1, <4>2, Zenon DEF Heard, AM!Now
    <3> QED BY <3>3, <3>4, ZenonT(30)
  <2> QED BY <2>1, <2>2, NodeKind, Zenon
<1>12. Few'
  BY <1>1, <1>2, FewSame, ZenonT(30) DEF AMInv
<1>13. Flags' /\ missed' \in 0 .. MaxMissed
  BY <1>1, SMTT(30) DEF AMInv, Flags, Seconds
<1> QED BY <1>1, <1>2, <1>10, <1>11, <1>12, <1>13, Zenon DEF AMInv

LEMMA AnswerNet ==
    ASSUME AMInv, NEW x \in AM!Node, AM!Receive(x), NEW m \in AM!Message
    PROVE  AM!Answered(x, <<m>>) \in Nets /\ Total(AM!Answered(x, <<m>>)) <= Total(net)
<1>1. net \in Nets /\ net[x] # <<>>
  BY Zenon DEF AMInv, AM!Receive
<1>2. <<m>> \in Seq(AM!Message) /\ Len(<<m>>) <= 1
  BY SMTT(30)
<1> QED BY <1>1, <1>2, AnsweredKind, Zenon

\* A step that changes neither list and puts no message on the way.
LEMMA NetStep ==
    ASSUME Seconds, AMInv, UNCHANGED <<status, held, missed>>, Flags',
           net' \in Nets, Total(net') <= Total(net), due' = due,
           asked' \in [AM!Node -> 0 .. MASTERNODE_MIN_DSEEP_SECONDS]
    PROVE  AMInv' /\ Costs
<1>1. Few'
  BY FewSame, Zenon DEF AMInv
<1>2. Heard' /\ Costs
  BY PeerSame, Zenon DEF AMInv
<1> QED BY <1>1, <1>2, Zenon DEF AMInv

LEMMA DseepUnknownStep ==
    ASSUME Seconds, AMInv, NEW x \in AM!Node, AM!ProcessDseepUnknown(x)
    PROVE  AMInv' /\ Costs
<1>1. /\ AM!Receive(x)
      /\ net' = AM!Answered(x, <<AM!Dseg>>) \/ net' = AM!Answered(x, <<>>)
      /\ asked' = [asked EXCEPT ![x] = IF @ = 0 THEN MASTERNODE_MIN_DSEEP_SECONDS ELSE @]
      /\ UNCHANGED <<hot, status, known, coinLocked, up, ibd, acceptable, confirmed, held,
                     linked, due, missed>>
  BY Zenon DEF AM!ProcessDseepUnknown, AM!meVars, AM!chainVars
<1>2. AM!Dseg \in AM!Message
  BY MessageKinds, Zenon
<1>3. net' \in Nets /\ Total(net') <= Total(net)
  BY <1>1, <1>2, HandlerNet, AnswerNet, Zenon
<1>4. asked' \in [AM!Node -> 0 .. MASTERNODE_MIN_DSEEP_SECONDS]
  BY <1>1, SMTT(30) DEF AMInv, Seconds
<1>5. Flags'
  BY <1>1, Zenon DEF AMInv, Flags
<1> QED BY <1>1, <1>3, <1>4, <1>5, NetStep, Zenon

LEMMA DsegStep ==
    ASSUME Seconds, AMInv, NEW x \in AM!Node, AM!ProcessDseg(x)
    PROVE  AMInv' /\ Costs
<1> DEFINE a == AM!Dsee(held[x].sigTime, FALSE, held[x].lastTimeSeen)
<1>1. /\ AM!Receive(x)
      /\ (held[x] # NoMasternode /\ net' = AM!Answered(x, <<a>>)) \/ net' = AM!Answered(x, <<>>)
      /\ UNCHANGED <<hot, status, known, coinLocked, up, ibd, acceptable, confirmed, held,
                     asked, linked, due, missed>>
  BY Zenon DEF AM!ProcessDseg, AM!Enabled, AM!Listed, AM!meVars, AM!chainVars
<1>2. held[x] # NoMasternode => a \in AM!Message
  <2> SUFFICES ASSUME held[x] # NoMasternode PROVE a \in AM!Message
    BY Zenon
  <2>1. held[x] \in AM!Entry
    BY Zenon DEF AMInv, Entries
  <2>2. held[x].sigTime \in 1 .. AM!Now /\ held[x].lastTimeSeen \in 0 .. AM!Now
    BY <2>1, EntryParts DEF Seconds
  <2> QED BY <2>2, MessageKinds, Zenon
<1> HIDE DEF a
<1>3. net' \in Nets /\ Total(net') <= Total(net)
  BY <1>1, <1>2, HandlerNet, AnswerNet, Zenon
<1>4. Flags' /\ asked' \in [AM!Node -> 0 .. MASTERNODE_MIN_DSEEP_SECONDS]
  BY <1>1, Zenon DEF AMInv, Flags
<1> QED BY <1>1, <1>3, <1>4, NetStep, Zenon

LEMMA IgnoreStep ==
    ASSUME Seconds, AMInv, AM!Ignore
    PROVE  AMInv' /\ Costs
<1>1. /\ net["me"] # <<>> /\ net' = AM!Answered("me", <<>>)
      /\ UNCHANGED <<hot, status, known, coinLocked, up, ibd, acceptable, confirmed, held,
                     asked, linked, due, missed>>
  BY Zenon DEF AM!Ignore, AM!meVars, AM!chainVars
<1>2. <<>> \in Seq(AM!Message) /\ Len(<<>>) <= 1
  BY SMTT(30)
<1>3. net' \in Nets /\ Total(net') <= Total(net)
  BY <1>1, <1>2, NodeKind, AnsweredKind, Zenon DEF AMInv
<1>4. Flags' /\ asked' \in [AM!Node -> 0 .. MASTERNODE_MIN_DSEEP_SECONDS]
  BY <1>1, Zenon DEF AMInv, Flags
<1> QED BY <1>1, <1>3, <1>4, NetStep, Zenon

\* The connection, the download and the chain.
LEMMA QuietStep ==
    ASSUME Seconds, AMInv, AM!Connect \/ AM!Lose \/ AM!FinishIBD \/ AM!Confirm \/ AM!Spend
    PROVE  AMInv' /\ Costs
<1>1. Total(net) \in Nat /\ Total(net) <= Total(net)
  <2>1. Total(net) \in Nat
    BY Totals, NodeKind, ZenonT(30) DEF AMInv
  <2> QED BY <2>1, SMTT(30)
<1>2. CASE AM!Connect \/ AM!FinishIBD \/ AM!Confirm \/ AM!Spend
  <2>1. UNCHANGED <<status, held, missed, net, due, asked>> /\ Flags'
    BY <1>2, Zenon DEF AM!Connect, AM!FinishIBD, AM!Confirm, AM!Spend, AM!meVars, AM!chainVars, AM!netVars,
                AMInv, Flags
  <2> QED BY <1>1, <2>1, NetStep, Zenon DEF AMInv
<1>3. CASE AM!Lose
  <2>1. UNCHANGED <<status, held, missed, due, asked>> /\ Flags' /\ net' = [x \in AM!Node |-> <<>>]
    BY <1>3, Zenon DEF AM!Lose, AM!meVars, AM!chainVars, AMInv, Flags
  <2>2. net' \in Nets /\ Total(net') = 0
    BY <2>1, NoMessages, Zenon
  <2>3. Total(net') <= Total(net)
    BY <1>1, <2>2, SMTT(30)
  <2> QED BY <2>1, <2>2, <2>3, NetStep, Zenon DEF AMInv
<1> QED BY <1>2, <1>3, Zenon

LEMMA CheckAndRemoveStep ==
    ASSUME Seconds, AMInv, NEW x \in AM!Node, AM!CheckAndRemove(x)
    PROVE  AMInv' /\ Costs
<1> DEFINE e == held[x]
           f == AM!Sweep(e, TRUE)
<1>1. /\ held' = [held EXCEPT ![x] = f] /\ due' = due \ {x}
      /\ UNCHANGED <<hot, status, known, coinLocked, up, ibd, acceptable, confirmed, asked,
                     linked, net, missed>>
  BY Zenon DEF AM!CheckAndRemove, AM!meVars, AM!chainVars, AM!netVars
<1>2. e \in AM!Entry \cup {NoMasternode} /\ acceptable \in BOOLEAN /\ held \in Entries
  BY Zenon DEF AMInv, Entries, Flags
<1> HIDE DEF e
<1>3. /\ f \in AM!Entry \cup {NoMasternode}
      /\ f # NoMasternode => e # NoMasternode /\ f.lastTimeSeen = e.lastTimeSeen
      /\ e # NoMasternode /\ e.activeState = "ENABLED" =>
            \/ f # NoMasternode /\ f.activeState = "ENABLED"
            \/ AM!Now - e.lastTimeSeen >= MASTERNODE_EXPIRATION_SECONDS
            \/ ~acceptable
  BY <1>2, SweepKind, Zenon
<1> HIDE DEF f
<1>4. held' \in Entries /\ held'[x] = f /\ \A y \in AM!Node : y # x => held'[y] = held[y]
  BY <1>1, <1>2, <1>3, Zenon DEF Entries
<1>5. Heard' /\ Costs
  <2>1. CASE x = "me"
    BY <1>1, <1>4, <2>1, NodeKind, PeerSame, Zenon DEF AMInv
  <2>2. CASE x = "peer"
    <3>1. held["peer"] = e /\ held'["peer"] = f /\ missed' = missed
      BY <1>1, <1>4, <2>2, Zenon DEF e
    <3>2. Heard
      BY Zenon DEF AMInv
    <3>3. Heard'
      BY <1>3, <3>1, <3>2, Zenon DEF Heard, AM!Now
    <3>4. ASSUME e # NoMasternode, AM!Now - e.lastTimeSeen >= MASTERNODE_EXPIRATION_SECONDS
          PROVE  \/ missed > MASTERNODE_EXPIRATION_SECONDS - MASTERNODE_MIN_DSEEP_SECONDS
                 \/ e.lastTimeSeen = 0
      <4>1. \/ e.lastTimeSeen = 0
            \/ missed > MASTERNODE_EXPIRATION_SECONDS - MASTERNODE_MIN_DSEEP_SECONDS
            \/ AM!Now - e.lastTimeSeen < missed + MASTERNODE_MIN_DSEEP_SECONDS
        BY <3>1, <3>2, <3>4, Zenon DEF Heard
      <4>2. e.lastTimeSeen \in Nat /\ missed \in Nat
        BY <1>2, <3>4, EntryParts, SMTT(30) DEF AMInv
      <4> QED BY <3>4, <4>1, <4>2 DEF Seconds
    <3>5. Costs
      BY <1>3, <3>1, <3>4, Zenon DEF Costs, AM!Enabled, AM!Listed, AM!IsEnabled
    <3> QED BY <3>3, <3>5, Zenon
  <2> QED BY <2>1, <2>2, NodeKind, Zenon
<1>6. Few'
  <2>1. Total(net') <= Total(net)
    <3>1. Total(net) \in Nat
      BY Totals, NodeKind, Zenon DEF AMInv
    <3> QED BY <1>1, <3>1
  <2> QED BY <1>1, <2>1, FewSame, Zenon DEF AMInv
<1>7. Flags'
  BY <1>1, Zenon DEF AMInv, Flags
<1> QED BY <1>1, <1>4, <1>5, <1>6, <1>7, Zenon DEF AMInv

LEMMA ShutdownStep ==
    ASSUME Seconds, AMInv, AM!Shutdown
    PROVE  AMInv' /\ Costs
<1>1. /\ up' = FALSE /\ linked' = FALSE /\ due' = due \ {"me", "manage"}
      /\ held' = held \/ held' = [held EXCEPT !["me"] = NoMasternode]
      /\ asked' = asked \/ asked' = [asked EXCEPT !["me"] = 0]
      /\ net' = [x \in AM!Node |-> <<>>]
      /\ UNCHANGED <<hot, status, known, coinLocked, ibd, acceptable, confirmed, missed>>
  BY Zenon DEF AM!Shutdown, AM!chainVars
<1>2. held' \in Entries /\ held'["peer"] = held["peer"]
  BY <1>1, NodeKind, Zenon DEF AMInv, Entries
<1>3. asked' \in [AM!Node -> 0 .. MASTERNODE_MIN_DSEEP_SECONDS]
  BY <1>1 DEF AMInv, Seconds
<1>4. net' \in Nets /\ Total(net') = 0
  BY <1>1, NoMessages, Zenon
<1>5. Few'
  BY <1>4, SMTT(30) DEF Few, Seconds
<1>6. Heard' /\ Costs
  BY <1>1, <1>2, PeerSame, Zenon DEF AMInv
<1>7. Flags'
  BY <1>1, Zenon DEF AMInv, Flags
<1> QED BY <1>1, <1>2, <1>3, <1>4, <1>5, <1>6, <1>7, Zenon DEF AMInv

LEMMA RestartStep ==
    ASSUME Seconds, AMInv, AM!Restart
    PROVE  AMInv' /\ Costs
<1>1. PICK locked \in BOOLEAN : held' = [held EXCEPT !["me"] = AM!Sweep(@, locked)]
  BY Zenon DEF AM!Restart
<1>2. /\ up' = TRUE /\ ibd' = TRUE /\ status' = "NOT_PROCESSED" /\ known' = FALSE
      /\ coinLocked' = FALSE
      /\ UNCHANGED <<hot, acceptable, confirmed, asked, linked, net, due, missed>>
  BY Zenon DEF AM!Restart, AM!chainVars, AM!netVars
<1>3. held["me"] \in AM!Entry \cup {NoMasternode} /\ acceptable \in BOOLEAN /\ held \in Entries
  BY NodeKind, Zenon DEF AMInv, Entries, Flags
<1>4. AM!Sweep(held["me"], locked) \in AM!Entry \cup {NoMasternode}
  BY <1>3, SweepKind, Zenon
<1>5. held' \in Entries /\ held'["peer"] = held["peer"]
  BY <1>1, <1>3, <1>4, NodeKind, Zenon DEF Entries
<1>6. Few'
  <2>1. Total(net') <= Total(net)
    <3>1. Total(net) \in Nat
      BY Totals, NodeKind, Zenon DEF AMInv
    <3> QED BY <1>2, <3>1
  <2> QED BY <1>2, <2>1, FewSame, Zenon DEF AMInv
<1>7. Heard' /\ Costs
  BY <1>2, <1>5, PeerSame, Zenon DEF AMInv
<1>8. Flags' /\ status' \in Status
  BY <1>2, Zenon DEF AMInv, Flags, Status
<1> QED BY <1>2, <1>5, <1>6, <1>7, <1>8, Zenon DEF AMInv

\* An entry one tick later.
LEMMA BackKind ==
    ASSUME Seconds, NEW e \in AM!Entry
    PROVE  LET f == [e EXCEPT !.lastTimeSeen = AM!Back(@), !.sigTime = 1]
           IN  /\ f \in AM!Entry /\ f.activeState = e.activeState
               /\ f.lastTimeSeen = 0 <=> e.lastTimeSeen = 0
               /\ f.lastTimeSeen \in {e.lastTimeSeen, e.lastTimeSeen - 1}
<1> DEFINE t == AM!Back(e.lastTimeSeen)
<1>1. /\ t \in 0 .. AM!Now /\ (t = 0 <=> e.lastTimeSeen = 0)
      /\ t \in {e.lastTimeSeen, e.lastTimeSeen - 1} /\ 1 \in 1 .. AM!Now
  BY EntryParts, SMTT(30) DEF AM!Back, Seconds
<1> HIDE DEF t
<1>2. LET f == [e EXCEPT !.lastTimeSeen = t, !.sigTime = 1]
      IN  f \in AM!Entry /\ f.activeState = e.activeState /\ f.lastTimeSeen = t
  BY <1>1, Zenon DEF AM!Entry
<1> QED BY <1>1, <1>2, ZenonT(30) DEF t

LEMMA TickStep ==
    ASSUME Seconds, AMInv, AM!Tick
    PROVE  AMInv' /\ Costs
<1> DEFINE Later(e) == [e EXCEPT !.lastTimeSeen = AM!Back(@), !.sigTime = 1]
<1>1. /\ \A x \in AM!Node : net[x] = <<>>
      /\ held' = [x \in AM!Node |-> IF held[x] = NoMasternode THEN NoMasternode ELSE Later(held[x])]
      /\ asked' = [x \in AM!Node |-> AM!AskAgain(asked[x])]
      /\ due' \subseteq {"manage", "me", "peer"}
      /\ missed' = AM!Least(missed + 1, MaxMissed)
      /\ UNCHANGED <<hot, status, known, coinLocked, up, ibd, acceptable, confirmed, linked, net>>
  BY Zenon DEF AM!Tick, AM!Listed, AM!meVars, AM!chainVars
<1>2. \A x \in AM!Node : held[x] # NoMasternode =>
         /\ held[x] \in AM!Entry /\ Later(held[x]) \in AM!Entry
         /\ Later(held[x]).activeState = held[x].activeState
         /\ Later(held[x]).lastTimeSeen = 0 <=> held[x].lastTimeSeen = 0
         /\ Later(held[x]).lastTimeSeen \in {held[x].lastTimeSeen, held[x].lastTimeSeen - 1}
  BY BackKind, Zenon DEF AMInv, Entries
<1> HIDE DEF Later
<1>3. held' \in Entries
  BY <1>1, <1>2, ZenonT(30) DEF Entries
<1>4. asked' \in [AM!Node -> 0 .. MASTERNODE_MIN_DSEEP_SECONDS]
  <2>1. /\ asked \in [AM!Node -> 0 .. MASTERNODE_MIN_DSEEP_SECONDS]
        /\ MASTERNODE_MIN_DSEEP_SECONDS \in Nat
    BY Zenon DEF AMInv, Seconds
  <2>2. \A t \in 0 .. MASTERNODE_MIN_DSEEP_SECONDS :
           AM!AskAgain(t) \in 0 .. MASTERNODE_MIN_DSEEP_SECONDS
    BY <2>1, SMTT(30) DEF AM!AskAgain
  <2> QED BY <1>1, <2>1, <2>2, Zenon
<1>5. missed \in 0 .. MaxMissed /\ missed' \in 0 .. MaxMissed
      /\ (missed' = missed + 1 \/ missed' = MaxMissed)
  BY <1>1, SMTT(30) DEF AMInv, AM!Least, Seconds
<1>6. Few'
  <2>1. Len(net["me"]) = 0 /\ Len(net["peer"]) = 0
    BY <1>1, NodeKind, SMTT(30)
  <2>2. Total(net) = 0
    BY <2>1 DEF Total
  <2> QED BY <1>1, <2>2, SMTT(30) DEF Few, Seconds
<1>7. Heard' /\ Costs
  <2>1. CASE held["peer"] = NoMasternode
    <3>1. held'["peer"] = NoMasternode
      BY <1>1, <2>1, NodeKind, Zenon
    <3> QED BY <2>1, <3>1, Zenon DEF Heard, Costs, AM!Enabled, AM!Listed
  <2>2. CASE held["peer"] # NoMasternode
    <3> DEFINE e == held["peer"]
               f == Later(e)
    <3>1. /\ held'["peer"] = f /\ e \in AM!Entry /\ f \in AM!Entry
          /\ f.activeState = e.activeState
          /\ f.lastTimeSeen = 0 <=> e.lastTimeSeen = 0
          /\ f.lastTimeSeen \in {e.lastTimeSeen, e.lastTimeSeen - 1}
      BY <1>1, <1>2, <2>2, NodeKind, Zenon
    <3> HIDE DEF f
    <3>2. f # NoMasternode /\ e.lastTimeSeen \in Nat
      BY <3>1, EntryParts, Zenon DEF Seconds
    <3>3. Costs
      BY <3>1, <3>2, Zenon DEF Costs, AM!Enabled, AM!Listed, AM!IsEnabled
    <3>4. \/ e.lastTimeSeen = 0
          \/ missed > MASTERNODE_EXPIRATION_SECONDS - MASTERNODE_MIN_DSEEP_SECONDS
          \/ AM!Now - e.lastTimeSeen < missed + MASTERNODE_MIN_DSEEP_SECONDS
      BY <2>2, ZenonT(30) DEF AMInv, Heard
    <3> HIDE DEF e
    <3>5. \/ f.lastTimeSeen = 0
          \/ missed' > MASTERNODE_EXPIRATION_SECONDS - MASTERNODE_MIN_DSEEP_SECONDS
          \/ AM!Now - f.lastTimeSeen < missed' + MASTERNODE_MIN_DSEEP_SECONDS
      BY <1>5, <3>1, <3>2, <3>4, SMTT(30) DEF Seconds
    <3>6. Heard'
      BY <3>1, <3>5, Zenon DEF Heard, AM!Now
    <3> QED BY <3>3, <3>6, Zenon
  <2> QED BY <2>1, <2>2, Zenon
<1>8. Flags'
  BY <1>1, Zenon DEF AMInv, Flags
<1> QED BY <1>1, <1>3, <1>4, <1>5, <1>6, <1>7, <1>8, Zenon DEF AMInv

LEMMA AMInit ==
    ASSUME Seconds, AM!Init
    PROVE  AMInv
<1>1. net \in Nets /\ Total(net) = 0
  BY NoMessages, Zenon DEF AM!Init
<1>2. Few
  BY <1>1 DEF Few, Seconds
<1>3. Heard
  BY NodeKind, Zenon DEF Heard, AM!Init
<1>4. held \in Entries
  BY Zenon DEF AM!Init, Entries
<1>5. asked \in [AM!Node -> 0 .. MASTERNODE_MIN_DSEEP_SECONDS]
  BY SMTT(30) DEF AM!Init, Seconds
<1>6. status \in Status /\ due \subseteq {"manage", "me", "peer"} /\ missed \in 0 .. MaxMissed
  BY DEF AM!Init, Status, Seconds
<1>7. Flags
  BY Zenon DEF AM!Init, Flags
<1> QED BY <1>1, <1>2, <1>3, <1>4, <1>5, <1>6, <1>7, Zenon DEF AMInv

LEMMA AMStep ==
    ASSUME Seconds, AMInv, AM!Next
    PROVE  AMInv' /\ Costs
<1>1. ASSUME NEW x \in AM!Node, AM!Process(x)
      PROVE  AMInv' /\ Costs
  BY <1>1, DseeKnownStep, DseepStep, DseeNewStep, DseepUnknownStep, DsegStep, Zenon DEF AM!Process
<1> QED BY <1>1, ManageStep, StopStep, RemoteStartStep, CheckAndRemoveStep, IgnoreStep, QuietStep,
           ShutdownStep, RestartStep, TickStep, Zenon DEF AM!Next

LEMMA AMStutter ==
    ASSUME AMInv, UNCHANGED AM!vars
    PROVE  AMInv'
<1>1. UNCHANGED <<hot, status, known, coinLocked, up, ibd, acceptable, confirmed, held, asked,
                  linked, net, due, missed>>
  BY Zenon DEF AM!vars, AM!meVars, AM!chainVars, AM!netVars
<1>2. Few'
  BY <1>1, Zenon DEF AMInv, Few, Total
<1>3. Heard'
  BY <1>1, Zenon DEF AMInv, Heard, AM!Now
<1> QED BY <1>1, <1>2, <1>3, Zenon DEF AMInv, Flags

LEMMA AMInvAlways ==
    ASSUME AM!SecondsAssumption, AM!BoundsAssumption, AM!NoEntry
    PROVE  AM!Spec => []AMInv
<1>1. Seconds
  BY SecondsHold, Zenon
<1>2. AM!Init => AMInv
  BY <1>1, AMInit, Zenon
<1>3. AMInv /\ [AM!Next]_(AM!vars) => AMInv'
  BY <1>1, AMStep, AMStutter, Zenon
<1> QED BY <1>2, <1>3, PTL DEF AM!Spec

(* However the masternode and the peer relay pings, announcements and      *)
(* requests to each other (ProcessMessageMasternode), lose the connection, *)
(* restart and sweep their lists, every variable keeps its type and no     *)
(* more messages are on the way than commands and the ping of the tick put *)
(* there: the relaying does not multiply them.                             *)
THEOREM MasternodeTypes ==
    ASSUME AM!SecondsAssumption, AM!BoundsAssumption, AM!NoEntry
    PROVE  AM!Spec => []AM!TypeOK
<1>1. Seconds
  BY SecondsHold, Zenon
<1>2. AMInv => AM!TypeOK
  <2> SUFFICES ASSUME AMInv PROVE AM!TypeOK
    BY Zenon
  <2>1. Total(net) \in Nat
    BY Totals, NodeKind, Zenon DEF AMInv
  <2>2. Total(net) <= MaxNet + 1
    BY <1>1, <2>1 DEF AMInv, Few, Seconds
  <2>3. Len(net["me"]) + Len(net["peer"]) <= MaxNet + 1
    BY <2>2, Zenon DEF Total
  <2> QED BY <2>3, Zenon DEF AMInv, Flags, Status, Entries, Nets, AM!TypeOK
<1> QED BY <1>2, AMInvAlways, PTL

(* The peer takes an unspent, unstopped masternode's place away only after *)
(* a silence of more than MASTERNODE_EXPIRATION_SECONDS less               *)
(* MASTERNODE_MIN_DSEEP_SECONDS, whatever the two bounds and in whatever   *)
(* order pings, announcements, sweeps and restarts come: a ping that does  *)
(* not count (dseep) comes within MASTERNODE_MIN_DSEEP_SECONDS of one that *)
(* did, so the entry is never that much older than the silence (Heard).    *)
THEOREM SilenceAlwaysCosts ==
    ASSUME AM!SecondsAssumption, AM!BoundsAssumption, AM!NoEntry
    PROVE  AM!Spec => AM!SilenceCosts
<1>1. Seconds
  BY SecondsHold, Zenon
<1>2. AMInv /\ [AM!Next]_(AM!vars) => [Costs]_(AM!vars)
  BY <1>1, AMStep, Zenon
<1>3. Costs <=> (AM!Enabled("peer") /\ ~AM!Enabled("peer")' =>
        \/ missed > MASTERNODE_EXPIRATION_SECONDS - MASTERNODE_MIN_DSEEP_SECONDS
        \/ held["peer"].lastTimeSeen = 0
        \/ ~acceptable)
  BY Zenon DEF Costs
<1> QED BY <1>2, <1>3, AMInvAlways, PTL DEF AM!Spec, AM!SilenceCosts

----------------------------------------------------------------------------
(* What the proofs about the scanning use of finite sets: the library's    *)
(* theorems, for the operators of FiniteSets.                              *)
FST == INSTANCE FiniteSetTheorems

LEMMA SameSizes ==
    ASSUME NEW S
    PROVE  FST!Cardinality(S) = Cardinality(S) /\ (FST!IsFiniteSet(S) <=> IsFiniteSet(S))
<1>1. FST!Cardinality(S) = Cardinality(S)
  BY Zenon DEF FST!Cardinality, Cardinality
<1>2. FST!IsFiniteSet(S) <=> IsFiniteSet(S)
  BY Zenon DEF FST!IsFiniteSet, IsFiniteSet
<1> QED BY <1>1, <1>2, Zenon

LEMMA FS_CardinalityType ==
    ASSUME NEW S, IsFiniteSet(S)
    PROVE  Cardinality(S) \in Nat
BY SameSizes, FST!FS_CardinalityType, Zenon

LEMMA FS_EmptySet == IsFiniteSet({}) /\ Cardinality({}) = 0
BY SameSizes, FST!FS_EmptySet, Zenon

LEMMA FS_Singleton ==
    ASSUME NEW x
    PROVE  IsFiniteSet({x})
BY SameSizes, FST!FS_Singleton, Zenon

LEMMA FS_Subset ==
    ASSUME NEW S, IsFiniteSet(S), NEW T \in SUBSET S
    PROVE  IsFiniteSet(T) /\ Cardinality(T) <= Cardinality(S)
BY SameSizes, FST!FS_Subset, Zenon

LEMMA FS_AddElement ==
    ASSUME NEW S, IsFiniteSet(S), NEW x
    PROVE  IsFiniteSet(S \cup {x}) /\ (x \notin S => Cardinality(S \cup {x}) = Cardinality(S) + 1)
BY SameSizes, FST!FS_AddElement, Zenon

LEMMA FS_Union ==
    ASSUME NEW S, IsFiniteSet(S), NEW T, IsFiniteSet(T)
    PROVE  IsFiniteSet(S \cup T)
BY SameSizes, FST!FS_Union, Zenon

----------------------------------------------------------------------------
(* The scanning.                                                           *)
EntryType == [nScanningErrorCount : Nat, nLastScanningErrorBlockHeight : Nat]

\* The count goes back to 0 when it would become 4.
Low(mn) == mn \in EntryType /\ mn.nScanningErrorCount < 4

\* The inductive invariant: the heights of reports are natural numbers since
\* no chain is shorter than at the start, and the reports can be counted.
IInv ==
    /\ TypeOK
    /\ \A n \in Vin : tip[n] >= Start
    /\ IsFiniteSet(reports)
    /\ \A n, vin \in Vin : Low(entry[n][vin])

LEMMA ApplyScanningErrorLow ==
    ASSUME NEW mn, Low(mn), NEW r \in Report
    PROVE  Low(MN!ApplyScanningError(mn, r))
<1> DEFINE c == mn.nScanningErrorCount
           l == mn.nLastScanningErrorBlockHeight
<1>1. c \in Nat /\ l \in Nat /\ c < 4 /\ mn = [nScanningErrorCount |-> c, nLastScanningErrorBlockHeight |-> l]
  BY Zenon DEF Low, EntryType
<1>2. r.nBlockHeight \in Nat
  BY Zenon DEF Report
<1> DEFINE k == IF r.success THEN IF c > 0 THEN c - 1 ELSE 0
                ELSE IF c + 1 >= 4 THEN 0 ELSE c + 1
<1>3. \/ MN!ApplyScanningError(mn, r) = mn
      \/ MN!ApplyScanningError(mn, r) =
            [mn EXCEPT !.nLastScanningErrorBlockHeight = r.nBlockHeight,
                       !.nScanningErrorCount = k]
  BY Zenon DEF MN!ApplyScanningError
<1> HIDE DEF c, l
<1>4. k \in Nat /\ k < 4
  BY <1>1
<1> HIDE DEF k
<1>5. Low([mn EXCEPT !.nLastScanningErrorBlockHeight = r.nBlockHeight,
                     !.nScanningErrorCount = k])
  BY <1>1, <1>2, <1>4, Zenon DEF Low, EntryType
<1> QED BY <1>3, <1>5, Zenon

LEMMA InitInvariant == Init => IInv
<1> SUFFICES ASSUME Init PROVE IInv
  BY Zenon
<1>1. TypeOK
  BY PosAssumption, Zenon DEF Init, TypeOK
<1>2. IsFiniteSet(reports)
  BY FS_EmptySet, Zenon DEF Init
<1>3. \A n, vin \in Vin : Low(entry[n][vin])
  BY DEF Init, Low, EntryType
<1>4. \A n \in Vin : tip[n] >= Start
  <2>1. Start \in Nat /\ Start >= Start
    BY PosAssumption
  <2>2. QED
    BY <2>1, Zenon DEF Init
<1> QED BY <1>1, <1>2, <1>3, <1>4, Zenon DEF IInv

\* A scan signs one or two well-formed reports.
LEMMA ScanReports ==
    ASSUME IInv, NEW n \in Vin, NEW vin \in Vin, NEW t \in Nat, t >= Start, Scan(n, vin, t)
    PROVE  /\ reports' \subseteq Report /\ IsFiniteSet(reports')
           /\ mapMasternodeScanningErrors' \in [Vin -> SUBSET Report]
           /\ connected' \subseteq SUBSET Vin
<1> DEFINE fails == vin = n \/ vin \notin online \/ {n, vin} \in connected
           Signed(success) ==
               [vinMasternodeA |-> n, vinMasternodeB |-> vin, nBlockHeight |-> t - Lag,
                success |-> success, nExpiration |-> Cardinality(reports)]
           signed == IF fails THEN {Signed(FALSE), Signed(TRUE)} ELSE {Signed(TRUE)}
<1>1. /\ reports' = reports \cup signed
      /\ mapMasternodeScanningErrors' =
            [mapMasternodeScanningErrors EXCEPT ![n] = @ \cup signed]
      /\ connected' = IF fails THEN connected ELSE connected \cup {{n, vin}}
  BY Zenon DEF Scan
<1>2. t - Lag \in Nat
  BY PosAssumption
<1>3. Cardinality(reports) \in Nat
  BY FS_CardinalityType, Zenon DEF IInv
<1>4. ASSUME NEW success \in BOOLEAN
      PROVE  Signed(success) \in Report
  BY <1>2, <1>3, Zenon DEF Report
<1>5. IsFiniteSet({Signed(FALSE), Signed(TRUE)}) /\ IsFiniteSet({Signed(TRUE)})
  <2> HIDE DEF Signed
  <2>1. IsFiniteSet({Signed(FALSE)}) /\ IsFiniteSet({Signed(TRUE)})
    BY FS_Singleton, Zenon
  <2>2. {Signed(FALSE), Signed(TRUE)} = {Signed(FALSE)} \cup {Signed(TRUE)}
    BY Zenon
  <2> QED BY <2>1, <2>2, FS_Union, Zenon
<1> HIDE DEF Signed
<1>6. Signed(FALSE) \in Report /\ Signed(TRUE) \in Report
  BY <1>4, Zenon
<1>7. signed \subseteq Report /\ IsFiniteSet(signed)
  BY <1>5, <1>6, Zenon
<1> HIDE DEF signed, fails
<1>8. IsFiniteSet(reports')
  BY <1>1, <1>7, FS_Union, Zenon DEF IInv
<1>9. /\ reports' \subseteq Report
      /\ mapMasternodeScanningErrors' \in [Vin -> SUBSET Report]
  BY <1>1, <1>7, Zenon DEF IInv, TypeOK
<1>10. connected' \subseteq SUBSET Vin
  BY <1>1, Zenon DEF IInv, TypeOK
<1> QED BY <1>8, <1>9, <1>10, Zenon

LEMMA NextInvariant == IInv /\ [Next]_vars => IInv'
<1> SUFFICES ASSUME IInv, [Next]_vars PROVE IInv'
  BY Zenon
<1> USE DEF nodeVars, boundVars
<1>1. ASSUME NEW n \in Vin, ProcessNewBlock(n)
      PROVE  IInv'
  <2>1. PICK t \in {tip[n], tip[n] + 1} :
          /\ sideBlocks' = IF t = tip[n] THEN sideBlocks + 1 ELSE sideBlocks
          /\ tip' = [tip EXCEPT ![n] = t]
          /\ \/ UNCHANGED <<connected, reports, mapMasternodeScanningErrors>>
             \/ \E vin \in Scanned(n, t) : Scan(n, vin, t)
    BY <1>1, Zenon DEF ProcessNewBlock
  <2>2. t \in Nat /\ t >= Start
    BY PosAssumption DEF IInv, TypeOK
  <2>3. Scanned(n, t) \subseteq Vin
    BY Zenon DEF Scanned
  <2>4. /\ reports' \subseteq Report /\ IsFiniteSet(reports')
        /\ mapMasternodeScanningErrors' \in [Vin -> SUBSET Report]
        /\ connected' \subseteq SUBSET Vin
    <3>1. CASE UNCHANGED <<connected, reports, mapMasternodeScanningErrors>>
      BY <3>1, Zenon DEF IInv, TypeOK
    <3>2. CASE \E vin \in Scanned(n, t) : Scan(n, vin, t)
      BY <3>2, <2>2, <2>3, ScanReports, Zenon
    <3> QED BY <2>1, <3>1, <3>2, Zenon
  <2>5. /\ tip' \in [Vin -> Nat] /\ sideBlocks' \in Nat
        /\ \A v \in Vin : tip'[v] >= Start
    BY <2>1, <2>2 DEF IInv, TypeOK
  <2>6. UNCHANGED <<online, entry, offline, restarts, outages>>
    BY <1>1, Zenon DEF ProcessNewBlock
  <2> QED BY <2>4, <2>5, <2>6, Zenon DEF IInv, TypeOK
<1>2. ASSUME NEW n \in Vin, Outage(n)
      PROVE  IInv'
  BY <1>2 DEF Outage, IInv, TypeOK
<1>3. ASSUME NEW n \in Vin, Restart(n)
      PROVE  IInv'
  BY <1>3 DEF Restart, IInv, TypeOK
<1>4. ASSUME NEW n \in Vin, NEW r \in reports, ProcessMnse(n, r)
      PROVE  IInv'
  <2>1. r \in Report
    BY DEF IInv, TypeOK
  <2> DEFINE b == r.vinMasternodeB
             mn == MN!ApplyScanningError(entry[n][b], r)
  <2>2. b \in Vin
    BY <2>1, Zenon DEF Report
  <2>3. Low(mn)
    BY <2>1, <2>2, ApplyScanningErrorLow, Zenon DEF IInv
  <2>4. entry' = entry \/ entry' = [entry EXCEPT ![n][b] = mn]
    BY <1>4, Zenon DEF ProcessMnse
  <2> HIDE DEF mn, b
  <2>5. /\ entry' \in [Vin -> [Vin -> EntryType]]
        /\ \A m, vin \in Vin : Low(entry'[m][vin])
    <3>1. mn \in EntryType /\ entry \in [Vin -> [Vin -> EntryType]]
      BY <2>3, Zenon DEF Low, IInv, TypeOK, EntryType
    <3>2. \A m, vin \in Vin : Low(entry[m][vin])
      BY Zenon DEF IInv
    <3>3. CASE entry' = entry
      BY <3>1, <3>2, <3>3, Zenon
    <3>4. CASE entry' = [entry EXCEPT ![n][b] = mn]
      <4>1. entry' \in [Vin -> [Vin -> EntryType]]
        BY <2>2, <3>1, <3>4
      <4>2. ASSUME NEW m \in Vin, NEW vin \in Vin
            PROVE  entry'[m][vin] = IF m = n /\ vin = b THEN mn ELSE entry[m][vin]
        BY <2>2, <3>1, <3>4
      <4> QED BY <2>3, <3>2, <4>1, <4>2, Zenon
    <3> QED BY <2>4, <3>3, <3>4, Zenon
  <2>6. /\ mapMasternodeScanningErrors' \in [Vin -> SUBSET Report]
        /\ UNCHANGED <<online, connected, tip, reports, offline, boundVars>>
    BY <1>4, <2>1 DEF ProcessMnse, IInv, TypeOK
  <2> QED BY <2>5, <2>6, Zenon DEF IInv, TypeOK, EntryType
<1>5. ASSUME NEW c \in connected, Disconnect(c)
      PROVE  IInv'
  BY <1>5 DEF Disconnect, IInv, TypeOK
<1>6. CASE UNCHANGED vars
  BY <1>6 DEF vars, IInv, TypeOK
<1> QED BY <1>1, <1>2, <1>3, <1>4, <1>5, <1>6, Zenon DEF Next

LEMMA Invariance == Spec => []IInv
BY InitInvariant, NextInvariant, PTL DEF Spec

\* Every variable keeps its type; no error count goes below 0.
THEOREM TypeCorrect == Spec => []TypeOK
BY Invariance, PTL DEF IInv

\* No order of reports, however many, makes Check() find POS_ERROR: the
\* fourth error sets the count back to 0 (ApplyScanningError) and the
\* threshold is six.
THEOREM NeverExcluded == Spec => []NobodyIsExcluded
<1>1. IInv => NobodyIsExcluded
  <2> SUFFICES ASSUME IInv, NEW n \in Vin, NEW vin \in Vin
               PROVE  ~PosError(n, vin)
    BY DEF NobodyIsExcluded, Active
  <2>1. /\ entry[n][vin].nScanningErrorCount \in Nat
        /\ entry[n][vin].nScanningErrorCount < 4
    BY DEF IInv, Low, EntryType
  <2> QED BY <2>1 DEF PosError, MN!MASTERNODE_SCANNING_ERROR_THESHOLD
<1> QED BY <1>1, Invariance, PTL
----------------------------------------------------------------------------
(* No error without a report.                                              *)

\* Errors of vin that n has been told of since its last restart.
Told(n, vin) == ErrorReports(vin) \cap mapMasternodeScanningErrors[n]

Budget(n, vin) == restarts * Cardinality(ErrorReports(vin)) + Cardinality(Told(n, vin))

\* The strengthening: between two restarts each error report counts once, and
\* a restart may make all of them count again.
Counted == \A n, vin \in Vin : entry[n][vin].nScanningErrorCount <= Budget(n, vin)

LEMMA TimesGrows ==
    ASSUME NEW a \in Nat, NEW b \in Nat, NEW c \in Nat, NEW d \in Nat, a <= b, c <= d
    PROVE  a * c \in Nat /\ b * d \in Nat /\ a * c <= b * d
<1>1. a * c \in Nat /\ b * c \in Nat /\ b * d \in Nat
  OBVIOUS
<1>2. (b - a) * c \in Nat /\ b * (d - c) \in Nat
  <2>1. b - a \in Nat /\ d - c \in Nat
    OBVIOUS
  <2>2. QED
    BY <2>1
<1>3. (b - a) * c = b * c - a * c /\ b * (d - c) = b * d - b * c
  OBVIOUS
<1>4. QED
  BY <1>1, <1>2, <1>3

LEMMA SumGrows ==
    ASSUME NEW a \in Nat, NEW b \in Nat, NEW c \in Nat, NEW d \in Nat, a <= b, c <= d
    PROVE  a + c \in Nat /\ b + d \in Nat /\ a + c <= b + d
OBVIOUS

LEMMA LeqTrans ==
    ASSUME NEW a \in Nat, NEW b \in Nat, NEW c \in Nat, a <= b, b <= c
    PROVE  a <= c
OBVIOUS

LEMMA Grows ==
    ASSUME NEW a \in Nat
    PROVE  a + 1 \in Nat /\ a <= a + 1 /\ a <= a /\ a + 0 = a
OBVIOUS

LEMMA NatTimes ==
    ASSUME NEW a \in Nat, NEW b \in Nat
    PROVE  a * b \in Nat
OBVIOUS

LEMMA StepSum ==
    ASSUME NEW d \in Nat, NEW c \in Nat, NEW e \in Nat, NEW told \in Nat,
           d <= c + 1, c <= e + told
    PROVE  d <= e + (told + 1)
OBVIOUS

\* A restart adds one error per report to the budget, and takes told away.
LEMMA OneMoreTime ==
    ASSUME NEW r \in Nat, NEW e \in Nat, NEW told \in Nat, told <= e
    PROVE  /\ r * e + told <= (r + 1) * e
           /\ r * e + told \in Nat /\ (r + 1) * e \in Nat
<1>1. r * e \in Nat
  OBVIOUS
<1>2. (r + 1) * e = r * e + e
  OBVIOUS
<1> QED BY <1>1, <1>2

\* The sets of reports are finite.
LEMMA ReportsFinite ==
    ASSUME IInv, NEW n \in Vin, NEW vin \in Vin
    PROVE  /\ IsFiniteSet(ErrorReports(vin)) /\ IsFiniteSet(Told(n, vin))
           /\ Cardinality(ErrorReports(vin)) \in Nat /\ Cardinality(Told(n, vin)) \in Nat
           /\ Cardinality(Told(n, vin)) <= Cardinality(ErrorReports(vin))
           /\ restarts \in Nat /\ entry[n][vin].nScanningErrorCount \in Nat
<1>1. IsFiniteSet(ErrorReports(vin))
  BY FS_Subset DEF IInv, ErrorReports
<1>2. Told(n, vin) \subseteq ErrorReports(vin)
  BY DEF Told
<1>3. /\ IsFiniteSet(Told(n, vin))
      /\ Cardinality(Told(n, vin)) <= Cardinality(ErrorReports(vin))
  BY <1>1, <1>2, FS_Subset
<1>4. Cardinality(ErrorReports(vin)) \in Nat /\ Cardinality(Told(n, vin)) \in Nat
  BY <1>1, <1>3, FS_CardinalityType
<1>5. restarts \in Nat /\ entry[n][vin].nScanningErrorCount \in Nat
  BY DEF IInv, TypeOK
<1>6. QED
  BY <1>1, <1>3, <1>4, <1>5

\* More reports, signed and seen, only allow for more errors.
LEMMA BudgetGrows ==
    ASSUME IInv, IInv', NEW n \in Vin, NEW vin \in Vin, reports \subseteq reports',
           mapMasternodeScanningErrors[n] \subseteq mapMasternodeScanningErrors'[n],
           restarts <= restarts'
    PROVE  Budget(n, vin) \in Nat /\ Budget(n, vin)' \in Nat /\ Budget(n, vin) <= Budget(n, vin)'
<1>1. /\ ErrorReports(vin) \subseteq ErrorReports(vin)'
      /\ Told(n, vin) \subseteq Told(n, vin)'
  BY DEF ErrorReports, Told
<1>2. /\ IsFiniteSet(ErrorReports(vin)') /\ IsFiniteSet(Told(n, vin)')
      /\ Cardinality(ErrorReports(vin)') \in Nat /\ Cardinality(Told(n, vin)') \in Nat
      /\ restarts' \in Nat
  <2>1. (/\ IsFiniteSet(ErrorReports(vin)) /\ IsFiniteSet(Told(n, vin))
         /\ Cardinality(ErrorReports(vin)) \in Nat /\ Cardinality(Told(n, vin)) \in Nat
         /\ restarts \in Nat)'
    BY ReportsFinite, PTL
  <2>2. QED
    BY <2>1
<1>3. /\ Cardinality(ErrorReports(vin)) <= Cardinality(ErrorReports(vin)')
      /\ Cardinality(Told(n, vin)) <= Cardinality(Told(n, vin)')
  BY <1>1, <1>2, FS_Subset, Zenon
<1>4. /\ Cardinality(ErrorReports(vin)) \in Nat /\ Cardinality(Told(n, vin)) \in Nat
      /\ restarts \in Nat
  BY ReportsFinite
<1> DEFINE e == Cardinality(ErrorReports(vin))
           f == Cardinality(ErrorReports(vin)')
           told == Cardinality(Told(n, vin))
           seen == Cardinality(Told(n, vin)')
<1>5. Budget(n, vin) = restarts * e + told /\ Budget(n, vin)' = restarts' * f + seen
  BY Zenon DEF Budget
<1> HIDE DEF e, f, told, seen
<1>6. /\ e \in Nat /\ f \in Nat /\ e <= f /\ told \in Nat /\ seen \in Nat /\ told <= seen
      /\ restarts \in Nat /\ restarts' \in Nat
  BY <1>2, <1>3, <1>4, Zenon DEF e, f, told, seen
<1>7. restarts * e \in Nat /\ restarts' * f \in Nat /\ restarts * e <= restarts' * f
  BY <1>6, TimesGrows, Zenon
<1>8. /\ restarts * e + told \in Nat /\ restarts' * f + seen \in Nat
      /\ restarts * e + told <= restarts' * f + seen
  BY <1>6, <1>7, SumGrows, Zenon
<1>9. QED
  BY <1>5, <1>8, Zenon

\* A report adds at most one to the count, and a report of success nothing.
LEMMA ApplyScanningErrorAdds ==
    ASSUME NEW mn, Low(mn), NEW r \in Report
    PROVE  MN!ApplyScanningError(mn, r).nScanningErrorCount
             <= mn.nScanningErrorCount + (IF r.success THEN 0 ELSE 1)
<1> DEFINE c == mn.nScanningErrorCount
           k == IF r.success THEN IF c > 0 THEN c - 1 ELSE 0
                ELSE IF c + 1 >= 4 THEN 0 ELSE c + 1
<1>1. c \in Nat /\ mn \in EntryType
  BY DEF Low, EntryType
<1>2. \/ MN!ApplyScanningError(mn, r) = mn
      \/ MN!ApplyScanningError(mn, r).nScanningErrorCount = k
  BY <1>1 DEF MN!ApplyScanningError, EntryType
<1> HIDE DEF c
<1>3. k <= c + (IF r.success THEN 0 ELSE 1) /\ c <= c + (IF r.success THEN 0 ELSE 1)
  BY <1>1
<1>4. QED
  BY <1>2, <1>3 DEF c

\* Every step keeps the count within the budget.
LEMMA NextCounted == IInv /\ Counted /\ IInv' /\ [Next]_vars => Counted'
<1> SUFFICES ASSUME IInv, Counted, IInv', [Next]_vars, NEW n \in Vin, NEW vin \in Vin
             PROVE  entry'[n][vin].nScanningErrorCount <= Budget(n, vin)'
  BY Zenon DEF Counted
<1> USE DEF nodeVars, boundVars
<1> DEFINE c == entry[n][vin].nScanningErrorCount
           seen == mapMasternodeScanningErrors
<1>1. /\ c \in Nat /\ c <= Budget(n, vin) /\ restarts \in Nat
      /\ entry \in [Vin -> [Vin -> EntryType]] /\ seen \in [Vin -> SUBSET Report]
  BY ReportsFinite, Zenon DEF Counted, IInv, TypeOK, EntryType
<1>2. ASSUME reports \subseteq reports', seen[n] \subseteq seen'[n], restarts <= restarts',
             entry'[n][vin].nScanningErrorCount <= c, entry'[n][vin].nScanningErrorCount \in Nat
      PROVE  entry'[n][vin].nScanningErrorCount <= Budget(n, vin)'
  <2>1. Budget(n, vin) \in Nat /\ Budget(n, vin)' \in Nat /\ Budget(n, vin) <= Budget(n, vin)'
    BY <1>2, BudgetGrows, Zenon
  <2>2. QED
    BY <1>1, <1>2, <2>1, LeqTrans, Zenon
<1>3. ASSUME NEW m \in Vin, ProcessNewBlock(m)
      PROVE  entry'[n][vin].nScanningErrorCount <= Budget(n, vin)'
  <2>1. UNCHANGED <<entry, restarts>>
    BY <1>3 DEF ProcessNewBlock
  <2>2. \/ UNCHANGED <<connected, reports, seen>>
        \/ \E t \in {tip[m], tip[m] + 1} : \E v \in Scanned(m, t) : Scan(m, v, t)
    BY <1>3 DEF ProcessNewBlock
  <2>3. reports \subseteq reports' /\ seen[n] \subseteq seen'[n]
    <3>1. ASSUME NEW t, NEW v, Scan(m, v, t) PROVE reports \subseteq reports' /\ seen[n] \subseteq seen'[n]
      BY <1>1, <3>1 DEF Scan
    <3>2. QED
      BY <2>2, <3>1, Zenon
  <2>4. restarts <= restarts' /\ c <= c
    BY <1>1, <2>1, Grows, Zenon
  <2>5. QED
    BY <1>1, <1>2, <2>1, <2>3, <2>4, Zenon
<1>4. ASSUME NEW m \in Vin, Restart(m)
      PROVE  entry'[n][vin].nScanningErrorCount <= Budget(n, vin)'
  <2>1. /\ UNCHANGED <<entry, reports>> /\ restarts' = restarts + 1
        /\ seen' = [seen EXCEPT ![m] = {}]
    BY <1>4 DEF Restart
  <2>2. CASE m # n
    <3>1. seen[n] \subseteq seen'[n]
      BY <1>1, <2>1, <2>2, Zenon
    <3>2. restarts <= restarts' /\ c <= c
      BY <1>1, <2>1, Grows, Zenon
    <3>3. QED
      BY <1>1, <1>2, <2>1, <3>1, <3>2, Zenon
  <2>3. CASE m = n
    <3>1. ErrorReports(vin)' = ErrorReports(vin) /\ Told(n, vin)' = {}
      BY <1>1, <2>1, <2>3, Zenon DEF ErrorReports, Told
    <3> DEFINE e == Cardinality(ErrorReports(vin))
               told == Cardinality(Told(n, vin))
    <3>2. e \in Nat /\ told \in Nat /\ told <= e
      BY ReportsFinite
    <3>3. Budget(n, vin)' = (restarts + 1) * e + 0
      BY <2>1, <3>1, FS_EmptySet, Zenon DEF Budget
    <3>4. c <= restarts * e + told
      BY <1>1, Zenon DEF Budget
    <3>5. entry'[n][vin].nScanningErrorCount = c
      BY <2>1, Zenon
    <3> HIDE DEF e, told, c
    <3>6. /\ restarts * e + told \in Nat /\ (restarts + 1) * e \in Nat
          /\ restarts * e + told <= (restarts + 1) * e
      BY <1>1, <3>2, OneMoreTime, Zenon
    <3>7. c <= (restarts + 1) * e
      BY <1>1, <3>4, <3>6, LeqTrans, Zenon
    <3>8. (restarts + 1) * e + 0 = (restarts + 1) * e
      BY <3>6, Grows, Zenon
    <3>9. QED
      BY <3>3, <3>5, <3>7, <3>8, Zenon
  <2>4. QED
    BY <2>2, <2>3
<1>5. ASSUME NEW m \in Vin, NEW r \in reports, ProcessMnse(m, r)
      PROVE  entry'[n][vin].nScanningErrorCount <= Budget(n, vin)'
  <2>1. r \in Report /\ r.vinMasternodeB \in Vin /\ r.success \in BOOLEAN
    BY DEF IInv, TypeOK, Report
  <2>2. /\ UNCHANGED <<reports, restarts>> /\ r \notin seen[m]
        /\ seen' = [seen EXCEPT ![m] = @ \cup {r}]
        /\ \/ entry' = entry
           \/ entry' = [entry EXCEPT ![m][r.vinMasternodeB] = MN!ApplyScanningError(@, r)]
    BY <1>5 DEF ProcessMnse
  <2>3. reports \subseteq reports' /\ seen[n] \subseteq seen'[n] /\ restarts <= restarts'
    <3>1. seen[n] \subseteq seen'[n]
      BY <1>1, <2>2, SMTT(30)
    <3>2. restarts <= restarts'
      BY <1>1, <2>2, Grows, Zenon
    <3>3. QED
      BY <2>2, <3>1, <3>2, Zenon
  <2>4. CASE entry'[n][vin] = entry[n][vin]
    <3>1. entry'[n][vin].nScanningErrorCount = c /\ c <= c
      BY <1>1, <2>4, Grows, Zenon
    <3>2. QED
      BY <1>1, <1>2, <2>3, <3>1, Zenon
  <2>5. CASE entry'[n][vin] # entry[n][vin]
    <3>1. m = n /\ r.vinMasternodeB = vin /\ entry'[n][vin] = MN!ApplyScanningError(entry[n][vin], r)
      BY <1>1, <2>1, <2>2, <2>5
    <3> DEFINE d == entry'[n][vin].nScanningErrorCount
    <3>2. d <= c + (IF r.success THEN 0 ELSE 1)
      BY <2>1, <3>1, ApplyScanningErrorAdds DEF IInv
    <3>3. d \in Nat
      <4>1. (entry[n][vin].nScanningErrorCount \in Nat)'
        BY ReportsFinite, PTL
      <4>2. QED
        BY <4>1
    <3>4. CASE r.success
      <4>1. d <= c + 0
        BY <3>2, <3>4, Zenon
      <4>c. d <= c
        BY <1>1, <4>1, Grows, Zenon
      <4>2. QED
        BY <1>2, <2>3, <3>3, <4>c, Zenon
    <3>5. CASE ~r.success
      <4>1. /\ r \in ErrorReports(vin) /\ r \notin Told(n, vin)
            /\ ErrorReports(vin)' = ErrorReports(vin)
            /\ Told(n, vin)' = Told(n, vin) \cup {r}
        BY <1>1, <2>2, <3>1, <3>5 DEF ErrorReports, Told
      <4>2. Cardinality(Told(n, vin)') = Cardinality(Told(n, vin)) + 1
        BY <4>1, ReportsFinite, FS_AddElement, Zenon
      <4> DEFINE e == restarts * Cardinality(ErrorReports(vin))
                 told == Cardinality(Told(n, vin))
      <4>3. Budget(n, vin) = e + told /\ Budget(n, vin)' = e + (told + 1)
        BY <2>2, <4>1, <4>2, Zenon DEF Budget
      <4>4. e \in Nat /\ told \in Nat
        <5>1. restarts \in Nat /\ Cardinality(ErrorReports(vin)) \in Nat /\ told \in Nat
          BY ReportsFinite, Zenon
        <5>2. QED
          BY <5>1, NatTimes, Zenon
      <4>5. d <= c + 1
        BY <3>2, <3>5, Zenon
      <4>b. c <= e + told
        BY <1>1, <4>3, Zenon
      <4> HIDE DEF e, told, d, c
      <4>6. d <= Budget(n, vin)'
        <5>1. d <= e + (told + 1)
          BY <1>1, <3>3, <4>4, <4>5, <4>b, StepSum, Zenon
        <5>2. QED
          BY <4>3, <5>1, Zenon
      <4>7. QED
        BY <4>6, Zenon DEF d
    <3>6. QED
      BY <2>1, <3>4, <3>5, Zenon
  <2>6. QED
    BY <2>4, <2>5
<1>6. CASE \/ \E m \in Vin : Outage(m)
           \/ \E x \in connected : Disconnect(x)
           \/ UNCHANGED vars
  <2>1. UNCHANGED <<entry, reports, seen, restarts>>
    BY <1>6 DEF Outage, Disconnect, vars
  <2>2. QED
    BY <1>1, <1>2, <2>1
<1>7. QED
  BY <1>3, <1>4, <1>5, <1>6 DEF Next

\* A node counts no error that nobody reported, and none twice between two
\* restarts, however the reports are delayed, ordered and repeated.
THEOREM NoBlameWithoutReport == Spec => []BlameIsReported
<1>1. Init => Counted
  <2> SUFFICES ASSUME Init, NEW n \in Vin, NEW vin \in Vin
               PROVE  entry[n][vin].nScanningErrorCount <= Budget(n, vin)
    BY DEF Counted
  <2>1. ErrorReports(vin) = {} /\ Told(n, vin) = {} /\ restarts = 0
    BY DEF Init, ErrorReports, Told
  <2>2. Budget(n, vin) = 0
    BY <2>1, FS_EmptySet DEF Budget
  <2>3. QED
    BY <2>2 DEF Init
<1>2. IInv /\ Counted => BlameIsReported
  <2> SUFFICES ASSUME IInv, Counted, NEW n \in Vin, NEW vin \in Vin
               PROVE  entry[n][vin].nScanningErrorCount
                        <= (1 + restarts) * Cardinality(ErrorReports(vin))
    BY DEF BlameIsReported
  <2> DEFINE c == entry[n][vin].nScanningErrorCount
             e == Cardinality(ErrorReports(vin))
             told == Cardinality(Told(n, vin))
  <2>1. e \in Nat /\ told \in Nat /\ told <= e /\ restarts \in Nat /\ c \in Nat
    BY ReportsFinite
  <2>2. c <= restarts * e + told
    BY DEF Counted, Budget
  <2> HIDE DEF c, e, told
  <2>3. c <= (1 + restarts) * e
    BY <2>1, <2>2
  <2>4. QED
    BY <2>3 DEF c, e
<1>3. Spec => []Counted
  BY <1>1, NextCounted, Invariance, PTL DEF Spec
<1>4. QED
  BY <1>2, <1>3, Invariance, PTL
============================================================================
