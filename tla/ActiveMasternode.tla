-------------------------- MODULE ActiveMasternode --------------------------
(***************************************************************************)
(* CActiveMasternode at a masternode ("me"), and the entries that it and a *)
(* node it is connected to ("peer") keep of it.  The collateral is in the  *)
(* wallet of the masternode (`hot`), or in that of an operator elsewhere,  *)
(* who starts the masternode remotely.                                     *)
(*                                                                         *)
(* Times are counted back from the present: Now is fixed and Tick takes    *)
(* every time one back.  A tick is MASTERNODE_PING_SECONDS, five minutes;  *)
(* in one, ThreadBitPool runs ManageStatus and sweeps the list, and what   *)
(* is sent over a connection arrives.  Pings arrive in the order they were *)
(* signed in, so that a ping is always newer than the last.  What a node   *)
(* asks for when it connects (DsegUpdate) is left out.                     *)
(***************************************************************************)
EXTENDS Masternode, Sequences, FiniteSets

CONSTANTS
    NoMasternode,   \* Find returns NULL
    MaxMissed,      \* bound of the history variable missed
    MaxNet          \* a command waits until fewer messages are on the way

ASSUME BoundsAssumption ==
    /\ MaxMissed \in Nat /\ MaxMissed > MASTERNODE_EXPIRATION_SECONDS - MASTERNODE_MIN_DSEEP_SECONDS
    /\ MaxNet \in Nat \ {0}

\* The present, so that 0 is long ago and no time becomes 0.
Now == MASTERNODE_REMOVAL_SECONDS + 1

Entry == [activeState : ActiveState, lastTimeSeen : 0 .. Now, sigTime : 1 .. Now,
          nScanningErrorCount : {0}]

ASSUME NoEntry == NoMasternode \notin Entry

VARIABLES
    hot,            \* the collateral is in this wallet
    status,         \* activeMasternode.status
    known,          \* activeMasternode.vin is set
    coinLocked,     \* the collateral is locked in the wallet
    up, ibd,        \* of the masternode
    acceptable,     \* AcceptableInputs for the collateral, at both nodes
    confirmed,      \* it has MASTERNODE_MIN_CONFIRMATIONS
    entry,          \* entry[x]: x's entry of the masternode; mncache.dat while it is down
    asked,          \* asked[x]: mWeAskedForMasternodeListEntry, ticks to go
    linked, net,    \* the connection; net[x]: messages on the way to x
    due,            \* what ThreadBitPool has not yet done in this tick
    missed          \* history: ticks since the peer last heard of the masternode

meVars == <<hot, status, known, coinLocked, up, ibd>>
chainVars == <<acceptable, confirmed>>
netVars == <<asked, linked, net>>
vars == <<meVars, chainVars, entry, netVars, due, missed>>

Node == {"me", "peer"}
Other(x) == IF x = "me" THEN "peer" ELSE "me"

\* The time t, one tick later.
Back(t) == IF t > 1 THEN t - 1 ELSE t

Least(a, b) == IF a < b THEN a ELSE b

Running == status \in {"IS_CAPABLE", "REMOTELY_ENABLED"}
Listed(x) == entry[x] # NoMasternode
Quiet == Len(net["me"]) + Len(net["peer"]) < MaxNet
Enabled(x) == Listed(x) /\ IsEnabled(entry[x])

\* RelayMasternodeEntry and the others: every connected node gets it.
Sent(x, m) == IF linked THEN [net EXCEPT ![x] = Append(@, m)] ELSE net

Dsee(sigTime, fresh, lastUpdated) ==
    [type |-> "dsee", sigTime |-> sigTime, fresh |-> fresh, lastUpdated |-> lastUpdated]
Dseep(stop) == [type |-> "dseep", stop |-> stop]
Dseg == [type |-> "dseg"]

NewEntry(sigTime, lastUpdated) ==
    UpdateLastSeen([activeState |-> "ENABLED", lastTimeSeen |-> 0, sigTime |-> sigTime,
                    nScanningErrorCount |-> 0], Now, lastUpdated)

Init ==
    /\ hot \in BOOLEAN /\ confirmed \in BOOLEAN
    /\ status = "NOT_PROCESSED" /\ known = FALSE /\ coinLocked = FALSE
    /\ up = TRUE /\ ibd = TRUE /\ acceptable = TRUE
    /\ entry = [x \in Node |-> NoMasternode]
    /\ asked = [x \in Node |-> 0]
    /\ linked = FALSE /\ net = [x \in Node |-> <<>>]
    /\ due = {} /\ missed = MaxMissed
----------------------------------------------------------------------------
(* CActiveMasternode.                                                      *)

\* Register: the entry is made if there is none, and announced.
Register ==
    /\ status' = "IS_CAPABLE" /\ known' = TRUE /\ coinLocked' = TRUE
    /\ entry' = [entry EXCEPT !["me"] = IF @ = NoMasternode THEN NewEntry(Now, Now) ELSE @]
    /\ net' = Sent("peer", Dsee(Now, TRUE, Now))

\* Nothing but the status is set.
NoChange(newStatus) == status' = newStatus /\ UNCHANGED <<known, coinLocked, entry, net>>

\* Mutant: the ping is not sent.
PingSilent(s) ==
    IF s \notin {"IS_CAPABLE", "REMOTELY_ENABLED"} THEN NoChange(s)
    ELSE IF ~Listed("me") THEN NoChange("NOT_CAPABLE")
    ELSE /\ status' = s
         /\ entry' = [entry EXCEPT !["me"] = UpdateLastSeen(@, Now, 0)]
         /\ UNCHANGED <<known, coinLocked, net>>

\* Dseep, in status s: without an entry in the own list the masternode gives up.
Ping(s) ==
    IF s \notin {"IS_CAPABLE", "REMOTELY_ENABLED"} THEN NoChange(s)
    ELSE IF ~Listed("me") THEN NoChange("NOT_CAPABLE")
    ELSE /\ status' = s
         /\ entry' = [entry EXCEPT !["me"] = UpdateLastSeen(@, Now, 0)]
         /\ net' = Sent("peer", Dseep(FALSE))
         /\ UNCHANGED <<known, coinLocked>>

\* ManageStatus, in status s.  `ready`: the address and the port are right and
\* the wallet is not locked.
ManageStatus(s, ready) ==
    IF ibd THEN NoChange("SYNC_IN_PROCESS")
    ELSE IF s \notin {"INPUT_TOO_NEW", "NOT_CAPABLE", "SYNC_IN_PROCESS", "NOT_PROCESSED"} THEN Ping(s)
    ELSE IF ~ready THEN NoChange("NOT_CAPABLE")
    ELSE IF ~(hot /\ acceptable /\ ~coinLocked) THEN NoChange("NOT_CAPABLE")
    ELSE IF ~confirmed
         THEN status' = "INPUT_TOO_NEW" /\ known' = TRUE /\ UNCHANGED <<coinLocked, entry, net>>
    ELSE Register

\* ThreadBitPool.
Manage ==
    /\ up /\ "manage" \in due
    /\ due' = due \ {"manage"}
    /\ \E ready \in BOOLEAN : ManageStatus(status, ready)
    /\ UNCHANGED <<hot, up, ibd, chainVars, asked, linked, missed>>

\* The command "masternode start".
Start ==
    /\ up /\ ~Running /\ Quiet
    /\ \E ready \in BOOLEAN : ManageStatus("NOT_PROCESSED", ready)
    /\ UNCHANGED <<hot, up, ibd, chainVars, asked, linked, due, missed>>

\* The command "masternode stop".  Without an entry Dseep changes the status
\* once more.
Stop ==
    /\ up /\ Running /\ Quiet
    /\ coinLocked' = FALSE
    /\ status' = IF Listed("me") THEN "STOPPED" ELSE "NOT_CAPABLE"
    /\ entry' = [entry EXCEPT !["me"] = NoMasternode]
    /\ net' = IF Listed("me") THEN Sent("peer", Dseep(TRUE)) ELSE net
    /\ UNCHANGED <<hot, known, up, ibd, chainVars, asked, linked, due, missed>>
----------------------------------------------------------------------------
(* CMasternodeMan::ProcessMessage at x.                                    *)

Receive(x) == net[x] # <<>> /\ (x = "me" => up /\ ~ibd)

\* The messages left when x has handled one and sends those in ms to the other.
Answered(x, ms) ==
    [net EXCEPT ![x] = Tail(@), ![Other(x)] = IF linked THEN @ \o ms ELSE @]

\* A masternode that does not know its vin takes an announcement for a new one.
Known(x) == Listed(x) /\ (x = "me" => known)

\* "dsee" for an entry in the list.
ProcessDseeKnown(x, locked) ==
    LET m == Head(net[x])
        mn == entry[x]
        seen == UpdateLastSeen(mn, Now, 0)
        newer == Check([seen EXCEPT !.sigTime = m.sigTime], Now, acceptable, locked)
        taken == m.fresh /\ ~UpdatedWithin(mn, Now, MASTERNODE_MIN_DSEE_SECONDS)
    IN  /\ Receive(x) /\ m.type = "dsee" /\ Known(x)
        /\ IF taken /\ mn.sigTime < m.sigTime
           THEN /\ entry' = [entry EXCEPT ![x] = newer]
                /\ net' = Answered(x, IF IsEnabled(newer) THEN <<m>> ELSE <<>>)
           ELSE /\ entry' = [entry EXCEPT ![x] = IF taken THEN seen ELSE mn]
                /\ net' = Answered(x, <<>>)
        /\ missed' = IF x = "peer" /\ taken THEN 0 ELSE missed
        /\ UNCHANGED <<meVars, chainVars, asked, linked, due>>

\* "dsee" for a new one; EnableHotColdMasterNode if it is the own.
ProcessDseeNew(x) ==
    LET m == Head(net[x])
        accepted == acceptable /\ confirmed
    IN  /\ Receive(x) /\ m.type = "dsee" /\ ~Known(x)
        /\ entry' = IF accepted /\ ~Listed(x)
                    THEN [entry EXCEPT ![x] = NewEntry(m.sigTime, m.lastUpdated)] ELSE entry
        /\ IF accepted /\ x = "me" THEN status' = "REMOTELY_ENABLED" /\ known' = TRUE
           ELSE UNCHANGED <<status, known>>
        /\ net' = Answered(x, IF accepted /\ m.fresh THEN <<m>> ELSE <<>>)
        /\ missed' = IF x = "peer" /\ accepted THEN Least(Now - entry'[x].lastTimeSeen, MaxMissed) ELSE missed
        /\ UNCHANGED <<hot, coinLocked, up, ibd, chainVars, asked, linked, due>>

\* Mutant: a ping counts only when the entry is about to expire.
PingTakenLate(mn) == ~UpdatedWithin(mn, Now, MASTERNODE_EXPIRATION_SECONDS)

\* One ping in MASTERNODE_MIN_DSEEP_SECONDS counts.
PingTaken(mn) == ~UpdatedWithin(mn, Now, MASTERNODE_MIN_DSEEP_SECONDS)

\* "dseep" for an entry in the list.
ProcessDseep(x, locked) ==
    LET m == Head(net[x])
        mn == entry[x]
        pinged == IF m.stop THEN Disable(mn)
                  ELSE Check(UpdateLastSeen(mn, Now, 0), Now, acceptable, locked)
        taken == PingTaken(mn)
    IN  /\ Receive(x) /\ m.type = "dseep" /\ Listed(x)
        /\ entry' = [entry EXCEPT ![x] = IF taken THEN pinged ELSE mn]
        /\ net' = Answered(x, IF taken /\ (m.stop \/ IsEnabled(pinged)) THEN <<m>> ELSE <<>>)
        /\ missed' = IF x = "peer" /\ ~m.stop THEN 0 ELSE missed
        /\ UNCHANGED <<meVars, chainVars, asked, linked, due>>

\* What is left of the time until x may ask for the entry again.
AskAgain(t) == IF t > 0 THEN t - 1 ELSE 0

\* "dseep" for none: x asks for the entry, once in MASTERNODE_MIN_DSEEP_SECONDS.
ProcessDseepUnknown(x) ==
    /\ Receive(x) /\ Head(net[x]).type = "dseep" /\ ~Listed(x)
    /\ net' = Answered(x, IF asked[x] = 0 THEN <<Dseg>> ELSE <<>>)
    /\ asked' = [asked EXCEPT ![x] = IF @ = 0 THEN MASTERNODE_MIN_DSEEP_SECONDS ELSE @]
    /\ UNCHANGED <<meVars, chainVars, entry, linked, due, missed>>

\* "dseg" for the entry.
ProcessDseg(x) ==
    /\ Receive(x) /\ Head(net[x]).type = "dseg"
    /\ net' = Answered(x, IF Enabled(x) THEN <<Dsee(entry[x].sigTime, FALSE, entry[x].lastTimeSeen)>>
                          ELSE <<>>)
    /\ UNCHANGED <<meVars, chainVars, entry, asked, linked, due, missed>>

\* During initial download "me" ignores them all.
Ignore ==
    /\ net["me"] # <<>> /\ up /\ ibd
    /\ net' = Answered("me", <<>>)
    /\ UNCHANGED <<meVars, chainVars, entry, asked, linked, due, missed>>
----------------------------------------------------------------------------
(* The list, the connection, time and the rest.                            *)

\* Mutant: the list is not swept.
SweepNone(mn, locked) == mn

Sweep(mn, locked) ==
    IF mn = NoMasternode THEN mn
    ELSE LET checked == Check(mn, Now, acceptable, locked) IN
         IF checked.activeState \in {"REMOVE", "VIN_SPENT"} THEN NoMasternode ELSE checked

CheckAndRemove(x) ==
    /\ x = "me" => up
    /\ entry' = [entry EXCEPT ![x] = Sweep(@, TRUE)]
    /\ due' = due \ {x}
    /\ UNCHANGED <<meVars, chainVars, netVars, missed>>

\* The operator's wallet elsewhere announces the masternode ("start-alias"),
\* and the peer hears of it.
RemoteStart ==
    /\ ~hot /\ acceptable /\ Quiet
    /\ net' = [net EXCEPT !["peer"] = Append(@, Dsee(Now, TRUE, Now))]
    /\ UNCHANGED <<meVars, chainVars, entry, asked, linked, due, missed>>

Connect ==
    /\ up /\ ~linked /\ linked' = TRUE
    /\ UNCHANGED <<meVars, chainVars, entry, asked, net, due, missed>>

Lose ==
    /\ linked /\ linked' = FALSE
    /\ net' = [x \in Node |-> <<>>]
    /\ UNCHANGED <<meVars, chainVars, entry, asked, due, missed>>

\* The process ends, with the list saved in mncache.dat or lost ...
Shutdown ==
    /\ up /\ up' = FALSE
    /\ \/ UNCHANGED <<entry, asked>>
       \/ entry' = [entry EXCEPT !["me"] = NoMasternode] /\ asked' = [asked EXCEPT !["me"] = 0]
    /\ linked' = FALSE /\ net' = [x \in Node |-> <<>>]
    /\ due' = due \ {"me", "manage"}
    /\ UNCHANGED <<hot, status, known, coinLocked, ibd, chainVars, missed>>

\* ... and starts again.
Restart ==
    /\ ~up /\ up' = TRUE /\ ibd' = TRUE
    /\ status' = "NOT_PROCESSED" /\ known' = FALSE /\ coinLocked' = FALSE
    /\ \E locked \in BOOLEAN : entry' = [entry EXCEPT !["me"] = Sweep(@, locked)]
    /\ UNCHANGED <<hot, chainVars, netVars, due, missed>>

FinishIBD ==
    /\ up /\ ibd /\ ibd' = FALSE
    /\ UNCHANGED <<hot, status, known, coinLocked, up, chainVars, entry, netVars, due, missed>>

\* The collateral is confirmed; it is spent.
Confirm ==
    /\ ~confirmed /\ confirmed' = TRUE
    /\ UNCHANGED <<meVars, acceptable, entry, netVars, due, missed>>

Spend ==
    /\ acceptable /\ acceptable' = FALSE
    /\ UNCHANGED <<meVars, confirmed, entry, netVars, due, missed>>

\* Five minutes pass.  A sigTime is only compared with those of this tick, so
\* that all earlier ones are alike.
Tick ==
    /\ due = {} /\ \A x \in Node : net[x] = <<>>
    /\ entry' = [x \in Node |-> IF ~Listed(x) THEN NoMasternode
                                ELSE [entry[x] EXCEPT !.lastTimeSeen = Back(@), !.sigTime = 1]]
    /\ asked' = [x \in Node |-> AskAgain(asked[x])]
    /\ due' = IF up THEN {"manage", "me", "peer"} ELSE {"peer"}
    /\ missed' = Least(missed + 1, MaxMissed)
    /\ UNCHANGED <<meVars, chainVars, linked, net>>

Process(x) ==
    \/ \E locked \in BOOLEAN : ProcessDseeKnown(x, locked) \/ ProcessDseep(x, locked)
    \/ ProcessDseeNew(x) \/ ProcessDseepUnknown(x) \/ ProcessDseg(x)

Next ==
    \/ Manage \/ Start \/ Stop \/ RemoteStart
    \/ \E x \in Node : Process(x) \/ CheckAndRemove(x)
    \/ Ignore \/ Connect \/ Lose \/ Shutdown \/ Restart \/ FinishIBD \/ Confirm \/ Spend \/ Tick

Spec == Init /\ [][Next]_vars

\* The threads of both nodes run, and time passes.
Fairness ==
    /\ WF_vars(Manage) /\ WF_vars(Ignore) /\ WF_vars(Tick)
    /\ \A x \in Node : WF_vars(Process(x)) /\ WF_vars(CheckAndRemove(x) /\ x \in due)

FairSpec == Spec /\ Fairness
----------------------------------------------------------------------------
Message == {Dsee(t, fresh, u) : t \in 1 .. Now, fresh \in BOOLEAN, u \in 0 .. Now}
           \cup {Dseep(stop) : stop \in BOOLEAN} \cup {Dseg}

(* Every variable keeps its type: times stay in the past, and however the  *)
(* two nodes relay to each other what each sends to all, including the one *)
(* it came from, their number does not grow: a handler sends at most one   *)
(* for the one it takes, so no more are on the way than commands and the   *)
(* ping of this tick have put there.                                       *)
TypeOK ==
    /\ {hot, known, coinLocked, up, ibd, acceptable, confirmed, linked} \subseteq BOOLEAN
    /\ status \in {"NOT_PROCESSED", "IS_CAPABLE", "NOT_CAPABLE", "STOPPED", "INPUT_TOO_NEW",
                   "REMOTELY_ENABLED", "SYNC_IN_PROCESS"}
    /\ entry \in [Node -> Entry \cup {NoMasternode}]
    /\ asked \in [Node -> 0 .. MASTERNODE_MIN_DSEEP_SECONDS]
    /\ net \in [Node -> Seq(Message)]
    /\ Len(net["me"]) + Len(net["peer"]) <= MaxNet + 1
    /\ due \subseteq {"manage", "me", "peer"}
    /\ missed \in 0 .. MaxMissed

(* A masternode whose collateral is not spent and which is not stopped     *)
(* loses its place at the peer only after a silence of more than           *)
(* MASTERNODE_EXPIRATION_SECONDS less MASTERNODE_MIN_DSEEP_SECONDS (35     *)
(* minutes).  A ping that comes too early is not counted (dseep), so the   *)
(* entry may already be that old when the connection breaks, or when the   *)
(* masternode restarts; but no order of pings, announcements, echoes and   *)
(* sweeps makes it older than that.                                        *)
SilenceCosts ==
    [][Enabled("peer") /\ ~Enabled("peer")' =>
        \/ missed > MASTERNODE_EXPIRATION_SECONDS - MASTERNODE_MIN_DSEEP_SECONDS
        \/ entry["peer"].lastTimeSeen = 0
        \/ ~acceptable]_vars

Expired(x) == Listed(x) /\ entry[x].activeState = "EXPIRED"

(* A masternode that runs and stays connected is in the end enabled at the *)
(* peer, also when the peer missed its announcement or dropped its entry:  *)
(* the ping makes the peer ask (dseep, dseg, dsee), and it asks again when *)
(* an answer is lost.  Entries that are EXPIRED are excepted: nothing      *)
(* enables one again, and dseg does not send one.                          *)
Recovers ==
    <>[](Running /\ up /\ linked /\ acceptable /\ ~Expired("me") /\ ~Expired("peer"))
        => <>[]Enabled("peer")

(* A masternode that stays stopped leaves the peer's list in the end,      *)
(* whether the ping that says so arrives, is lost, or comes too early to   *)
(* count (StopMasterNode, dseep, CheckAndRemove).                          *)
StopTakesEffect == <>[](hot /\ status = "STOPPED") => <>[]~Listed("peer")

(* "stop - Stop masternode configured in straks.conf" (the help of the     *)
(* command): a stopped masternode with its own collateral stays stopped    *)
(* until it is started or the process is.                                  *)
StopHolds == [][hot /\ status = "STOPPED" /\ status' # "STOPPED" => Start \/ Restart]_vars
=============================================================================
