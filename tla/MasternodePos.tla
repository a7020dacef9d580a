---------------------------- MODULE MasternodePos ----------------------------
(***************************************************************************)
(* Masternode proof of service (masternode-pos.cpp) between masternodes    *)
(* that have each other on their lists, with SPORK_7 active.  On every     *)
(* block the masternode that ranks first tries to connect to the one that  *)
(* ranks last but one and signs reports ("mnse") about it; a node that     *)
(* takes a report counts it in its own entry for the masternode scanned.   *)
(*                                                                         *)
(* Reports are relayed by inv and getdata: any node may get any of them,   *)
(* late, in any order or never.                                            *)
(***************************************************************************)
EXTENDS Integers, FiniteSets

CONSTANTS
    Vin,            \* the masternodes, each a node of its own
    Position,       \* Position[h][vin]: place in the ranking at height h
    UpAtStart,      \* masternodes that are reachable at first
    Start,          \* every node's first height
    Lag,            \* scans rank by the block this far below the tip (5)
    MaxAge,         \* a report for a block further below is too old (10)
    MaxTip,         \* bound: height of the chain
    MaxReports,     \* bound: no scan once this many reports are signed
    MaxSideBlocks,  \* bound: blocks on side branches
    MaxRestarts,    \* bound: restarts in a run
    MaxOutages      \* bound: times a masternode goes or comes

MN == INSTANCE Masternode WITH
    MASTERNODE_MIN_DSEE_SECONDS <- 600, MASTERNODE_MIN_DSEEP_SECONDS <- 1800,
    MASTERNODE_EXPIRATION_SECONDS <- 3900, MASTERNODE_REMOVAL_SECONDS <- 4200

ASSUME PosAssumption ==
    /\ IsFiniteSet(Vin) /\ UpAtStart \subseteq Vin
    /\ {Start, Lag, MaxAge, MaxTip, MaxReports, MaxSideBlocks, MaxRestarts, MaxOutages} \subseteq Nat
    /\ Start > Lag
    /\ \A h \in 1 .. MaxTip, vin \in Vin : Position[h][vin] \in Nat

\* nExpiration tells two reports of one scanner at one height apart.
Report == [vinMasternodeA : Vin, vinMasternodeB : Vin, nBlockHeight : Nat,
           success : BOOLEAN, nExpiration : Nat]

VARIABLES
    online,         \* masternodes that are up and reachable
    connected,      \* pairs {a, b} of nodes with a connection
    tip,            \* tip[n]: height of n's chain
    reports,        \* reports signed so far
    mapMasternodeScanningErrors, \* reports n has seen
    entry,          \* entry[n][vin]: the scanning fields of n's entry for vin
    offline,        \* masternodes that were ever unreachable
    sideBlocks, restarts, outages \* counters for the bounds

nodeVars == <<mapMasternodeScanningErrors, entry>>
boundVars == <<sideBlocks, restarts, outages>>
vars == <<online, connected, tip, reports, nodeVars, offline, boundVars>>

Init ==
    /\ online = UpAtStart
    /\ offline = Vin \ online
    /\ connected = {}
    /\ tip = [n \in Vin |-> Start]
    /\ reports = {}
    /\ mapMasternodeScanningErrors = [n \in Vin |-> {}]
    /\ entry = [n \in Vin |-> [vin \in Vin |->
          [nScanningErrorCount |-> 0, nLastScanningErrorBlockHeight |-> 0]]]
    /\ sideBlocks = 0 /\ restarts = 0 /\ outages = 0
----------------------------------------------------------------------------
Outage(n) ==
    /\ outages < MaxOutages
    /\ outages' = outages + 1
    /\ online' = IF n \in online THEN online \ {n} ELSE online \cup {n}
    /\ offline' = offline \cup {n}
    /\ connected' = {c \in connected : n \notin c}
    /\ UNCHANGED <<tip, reports, nodeVars, sideBlocks, restarts>>

\* An orderly restart: the list is saved, the reports seen are not.
Restart(n) ==
    /\ n \in online /\ restarts < MaxRestarts
    /\ restarts' = restarts + 1
    /\ mapMasternodeScanningErrors' = [mapMasternodeScanningErrors EXCEPT ![n] = {}]
    /\ connected' = {c \in connected : n \notin c}
    /\ UNCHANGED <<online, tip, reports, entry, offline, sideBlocks, outages>>

Disconnect(c) ==
    /\ connected' = connected \ {c}
    /\ UNCHANGED <<online, tip, reports, nodeVars, offline, boundVars>>

PosError(n, vin) ==
    entry[n][vin].nScanningErrorCount >= MN!MASTERNODE_SCANNING_ERROR_THESHOLD

\* The entries Check() leaves ENABLED; nothing else happens to them here.
Active(n) == {vin \in Vin : ~PosError(n, vin)}

\* GetMasternodeRank among the masternodes in S, or -1.
GetMasternodeRank(n, vin, h, S) ==
    IF h > tip[n] + 1 \/ vin \notin S THEN -1
    ELSE Cardinality({o \in S : Position[h][o] <= Position[h][vin]})

CountMasternodes(n) == Cardinality(Active(n))

GetCountScanningPerBlock(n) ==
    IF CountMasternodes(n) \div 100 > 1 THEN CountMasternodes(n) \div 100 ELSE 1

\* Whom n scans when its chain has height t.
Scanned(n, t) ==
    LET h == t - Lag
        a == GetMasternodeRank(n, n, h, Active(n))
    IN IF a = -1 \/ a > GetCountScanningPerBlock(n) THEN {}
       ELSE {vin \in Vin : GetMasternodeRank(n, vin, h, Vin) = CountMasternodes(n) - a}

\* The end of DoMasternodePOSChecks.  OpenNetworkConnection also fails when
\* there is a connection already; a report of success follows a report of
\* an error.
Scan(n, vin, t) ==
    LET fails == vin = n \/ vin \notin online \/ {n, vin} \in connected
        Signed(success) ==
            [vinMasternodeA |-> n, vinMasternodeB |-> vin, nBlockHeight |-> t - Lag,
             success |-> success, nExpiration |-> Cardinality(reports)]
        signed == IF fails THEN {Signed(FALSE), Signed(TRUE)} ELSE {Signed(TRUE)}
    IN /\ Cardinality(reports) < MaxReports
       /\ reports' = reports \cup signed
       /\ mapMasternodeScanningErrors' =
             [mapMasternodeScanningErrors EXCEPT ![n] = @ \cup signed]
       /\ connected' = IF fails THEN connected ELSE connected \cup {{n, vin}}

\* ProcessNewBlock, for a block that extends n's chain or one on a side
\* branch, and its call of DoMasternodePOSChecks.
ProcessNewBlock(n) ==
    /\ n \in online
    /\ \E t \in {tip[n], tip[n] + 1} :
          /\ t <= MaxTip
          /\ sideBlocks' = IF t = tip[n] THEN sideBlocks + 1 ELSE sideBlocks
          /\ sideBlocks' <= MaxSideBlocks
          /\ tip' = [tip EXCEPT ![n] = t]
          /\ \/ /\ Scanned(n, t) = {}
                /\ UNCHANGED <<connected, reports, mapMasternodeScanningErrors>>
             \/ \E vin \in Scanned(n, t) : Scan(n, vin, t)
    /\ UNCHANGED <<online, entry, offline, restarts, outages>>

\* The tests of ProcessMessageMasternodePOS.
Accepted(n, r) ==
    LET a == GetMasternodeRank(n, r.vinMasternodeA, r.nBlockHeight, Active(n))
        b == GetMasternodeRank(n, r.vinMasternodeB, r.nBlockHeight, Vin)
    IN /\ tip[n] - r.nBlockHeight <= MaxAge
       /\ a # -1 /\ a <= GetCountScanningPerBlock(n)
       /\ b # -1 /\ b >= CountMasternodes(n) - GetCountScanningPerBlock(n)

\* Mutant: reports seen before are taken again.
ProcessMnseAgain(n, r) ==
    /\ n \in online
    /\ Accepted(n, r)
    /\ entry' = [entry EXCEPT ![n][r.vinMasternodeB] = MN!ApplyScanningError(@, r)]
    /\ UNCHANGED <<online, connected, tip, reports, mapMasternodeScanningErrors, offline, boundVars>>

\* A report is noted as seen before it is tested.
ProcessMnse(n, r) ==
    /\ n \in online
    /\ r \notin mapMasternodeScanningErrors[n]
    /\ mapMasternodeScanningErrors' = [mapMasternodeScanningErrors EXCEPT ![n] = @ \cup {r}]
    /\ entry' = IF Accepted(n, r)
                THEN [entry EXCEPT ![n][r.vinMasternodeB] = MN!ApplyScanningError(@, r)]
                ELSE entry
    /\ UNCHANGED <<online, connected, tip, reports, offline, boundVars>>

Next ==
    \/ \E n \in Vin :
          \/ ProcessNewBlock(n) \/ Outage(n) \/ Restart(n)
          \/ \E r \in reports : ProcessMnse(n, r)
    \/ \E c \in connected : Disconnect(c)

Spec == Init /\ [][Next]_vars
----------------------------------------------------------------------------
\* Every variable has the type of what it stands for.
TypeOK ==
    /\ online \subseteq Vin /\ offline \subseteq Vin
    /\ connected \subseteq SUBSET Vin
    /\ tip \in [Vin -> Nat]
    /\ reports \subseteq Report
    /\ mapMasternodeScanningErrors \in [Vin -> SUBSET Report]
    /\ entry \in [Vin -> [Vin -> [nScanningErrorCount : Nat,
                                  nLastScanningErrorBlockHeight : Nat]]]
    /\ sideBlocks \in Nat /\ restarts \in Nat /\ outages \in Nat

ErrorReports(vin) == {r \in reports : r.vinMasternodeB = vin /\ ~r.success}

\* A node counts no error that nobody reported, and none twice between two
\* restarts (mapMasternodeScanningErrors, ApplyScanningError), in whatever
\* order the reports come.
BlameIsReported ==
    \A n, vin \in Vin :
        entry[n][vin].nScanningErrorCount <= (1 + restarts) * Cardinality(ErrorReports(vin))

\* Scanning never takes a masternode off a list: with the count back to 0 on
\* the fourth error (ApplyScanningError), Check() does not find POS_ERROR,
\* however the reports are ordered.
NobodyIsExcluded == \A n \in Vin : Active(n) = Vin

\* "A port is opened from Masternode A to Masternode B, if successful then
\* nothing happens": a masternode that was always reachable has no errors.
ReachableIsNotBlamed ==
    \A n \in Vin, vin \in Vin \ offline : entry[n][vin].nScanningErrorCount = 0
=============================================================================
