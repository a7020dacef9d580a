--------------------------- MODULE MasternodeMan ---------------------------
(***************************************************************************)
(* CMasternodeMan at one node: the list of masternodes, built from signed  *)
(* announcements ("dsee"), kept alive by signed pings ("dseep"), swept by  *)
(* ThreadBitPool, saved in mncache.dat and loaded again at startup.        *)
(*                                                                         *)
(* The network is the set of everything the operators ever signed: peers   *)
(* may deliver any of it to the node, late, repeatedly, in any order or    *)
(* never.  The node's own relays and dseg answers only repeat signed       *)
(* messages, so they add nothing to that set.  Which peer delivered a      *)
(* message is left out, and with it the score Misbehaving() gives a peer.  *)
(* So are the maps of who asked whom for the list: no decision about an    *)
(* entry reads them.  Each handler is one step.                            *)
(***************************************************************************)
EXTENDS Masternode, FiniteSets

CONSTANTS
    Vin,            \* collateral outputs, which identify masternodes
    Addr,           \* service addresses
    Key,            \* keys that own collateral
    Key2,           \* keys the masternodes sign pings with
    Owner,          \* Owner[vin]: the key the collateral transaction pays to
    Misconfigured,  \* announcements made with a key that does not own the collateral
    MyKey,          \* activeMasternode.pubKeyMasternode of this node, or NoKey
    NoKey,
    NoVin,          \* CTxIn()
    NoMasternode,   \* no entry for that vin (Find returns NULL)
    Unstable,       \* the collateral whose transactions come and go
    Vote,           \* values of nVote
    Height,         \* block heights of scanning reports
    Hour,           \* the 60*60 of the signature time checks
    Start,          \* the instant the run starts at
    MaxTime,        \* bound: the last instant
    MaxSkew,        \* bound: how far an operator's clock is ahead
    MaxAnnounced, MaxPinged, MaxVoted,  \* bounds: messages signed in a run
    MaxCrashes,     \* bound: crashes and shutdowns in a run
    Missing, Torn   \* mncache.dat does not exist / fails its checksum

ASSUME ManAssumption ==
    /\ Owner \in [Vin -> Key] /\ Unstable \subseteq Vin
    /\ {Hour, Start, MaxTime, MaxSkew} \subseteq Nat
    /\ {MaxAnnounced, MaxPinged, MaxVoted, MaxCrashes} \subseteq Nat
    /\ Start >= MASTERNODE_REMOVAL_SECONDS /\ Start > 0
    /\ Vote \subseteq Int /\ Height \subseteq Nat \ {0}
    /\ NoVin \notin Vin /\ NoKey \notin Key2 /\ MyKey \in Key2 \cup {NoKey}

Announcement == [vin : Vin, addr : Addr, pubkey : Key, pubkey2 : Key2, sigTime : Nat]
Ping == [vin : Vin, addr : Addr, pubkey2 : Key2, sigTime : Nat, stop : BOOLEAN]
Ballot == [vin : Vin, pubkey2 : Key2, nVote : Vote]
Entry == [addr : Addr, pubkey : Key, pubkey2 : Key2, sigTime : Nat,
          activeState : ActiveState, lastDseep : Nat, lastTimeSeen : Nat,
          nVote : Vote \cup {0}, lastVote : Nat,
          nScanningErrorCount : Nat, nLastScanningErrorBlockHeight : Nat]
List == [Vin -> Entry \cup {NoMasternode}]

ASSUME ModelValues ==
    /\ Misconfigured \subseteq Announcement
    /\ NoMasternode \notin Entry

VARIABLES
    now,                            \* GetAdjustedTime() = GetTime()
    announced, pinged, voted,       \* messages signed so far
    acceptable,                     \* acceptable[vin]: AcceptableInputs, of chain and mempool
    confTime,                       \* confTime[vin]: time of the block that gave the collateral
                                    \* its 15th confirmation, or 0
    vMasternodes,                   \* the list, as a function of vin
    activeVin,                      \* activeMasternode.vin
    up, ibd,                        \* running / in initial block download
    mncache,                        \* mncache.dat: Missing, Torn or a saved list
    writing,                        \* what DumpMasternodes is writing, or Missing
    crashes                         \* crashes so far

envVars == <<now, announced, pinged, voted, acceptable, confTime>>
runVars == <<up, ibd, mncache, writing, crashes>>
vars == <<envVars, vMasternodes, activeVin, runVars>>

Listed(vin) == vMasternodes[vin] # NoMasternode

EmptyList == [vin \in Vin |-> NoMasternode]

Init ==
    /\ now = Start
    /\ announced = Misconfigured /\ pinged = {} /\ voted = {}
    /\ acceptable = [vin \in Vin |-> TRUE]
    /\ confTime \in [Vin -> {0, Start}]
    /\ vMasternodes = EmptyList
    /\ activeVin = NoVin
    /\ up = TRUE /\ ibd \in BOOLEAN
    /\ mncache = Missing /\ writing = Missing
    /\ crashes = 0
----------------------------------------------------------------------------
(* The environment: time, the chain, and the operators. *)

Tick ==
    /\ now < MaxTime
    /\ now' = now + 1
    /\ UNCHANGED <<announced, pinged, voted, acceptable, confTime, vMasternodes, activeVin, runVars>>

\* Blocks and transactions come and go: the collateral is spent, or the spend
\* is undone; it reaches, or a reorganisation takes away, 15 confirmations.
ChainChange(vin) ==
    /\ vin \in Unstable
    /\ \/ /\ acceptable' = [acceptable EXCEPT ![vin] = ~@]
          /\ UNCHANGED confTime
       \/ /\ confTime' = [confTime EXCEPT ![vin] = IF @ = 0 THEN now ELSE 0]
          /\ UNCHANGED acceptable
    /\ UNCHANGED <<now, announced, pinged, voted, vMasternodes, activeVin,
                   runVars>>

\* CActiveMasternode::Register at the operator's wallet.
Announce(d) ==
    /\ Cardinality(announced) < MaxAnnounced
    /\ d.pubkey = Owner[d.vin]
    /\ d.sigTime \in now .. now + MaxSkew
    /\ announced' = announced \cup {d}
    /\ UNCHANGED <<now, pinged, voted, acceptable, confTime, vMasternodes, activeVin, runVars>>

\* CActiveMasternode::Dseep at the masternode, for an entry it announced.
SignPing(m) ==
    /\ Cardinality(pinged) < MaxPinged
    /\ \E d \in announced : d.vin = m.vin /\ d.addr = m.addr /\ d.pubkey2 = m.pubkey2
    /\ m.sigTime \in now .. now + MaxSkew
    /\ pinged' = pinged \cup {m}
    /\ UNCHANGED <<now, announced, voted, acceptable, confTime, vMasternodes, activeVin, runVars>>

\* The command "masternode vote" at the masternode: this version only handles
\* what it sends, earlier ones send it.
SignVote(b) ==
    /\ Cardinality(voted) < MaxVoted
    /\ \E d \in announced : d.vin = b.vin /\ d.pubkey2 = b.pubkey2
    /\ voted' = voted \cup {b}
    /\ UNCHANGED <<now, announced, pinged, acceptable, confTime, vMasternodes, activeVin, runVars>>
----------------------------------------------------------------------------
(* CMasternodeMan::ProcessMessage. *)

\* Messages are ignored during initial block download.
Listening == up /\ ~ibd

\* A masternode that does not know its own vin yet takes an announcement of
\* its own key for a new one, even when the entry is in the list.
AnnouncesUs(d) == activeVin = NoVin /\ d.pubkey2 = MyKey

\* Mutant: the masternode key is not taken over.
UpdateEntryKeepsKey(mn, d, fresh, ok, locked) ==
    IF fresh /\ mn.pubkey = d.pubkey /\ ~UpdatedWithin(mn, now, MASTERNODE_MIN_DSEE_SECONDS)
    THEN LET seen == UpdateLastSeen(mn, now, 0) IN
         IF mn.sigTime < d.sigTime
         THEN Check([seen EXCEPT !.sigTime = d.sigTime, !.addr = d.addr], now, ok, locked)
         ELSE seen
    ELSE mn

\* Mutant: the signing times are not compared.
UpdateEntryAlways(mn, d, fresh, ok, locked) ==
    IF fresh /\ mn.pubkey = d.pubkey /\ ~UpdatedWithin(mn, now, MASTERNODE_MIN_DSEE_SECONDS)
    THEN Check([UpdateLastSeen(mn, now, 0) EXCEPT !.pubkey2 = d.pubkey2, !.sigTime = d.sigTime,
                                                  !.addr = d.addr], now, ok, locked)
    ELSE mn

\* "dsee" for an entry in the list.  `fresh` is count == -1: sent by the
\* masternode or relayed, and not the answer to a list request.
UpdateEntry(mn, d, fresh, ok, locked) ==
    IF fresh /\ mn.pubkey = d.pubkey /\ ~UpdatedWithin(mn, now, MASTERNODE_MIN_DSEE_SECONDS)
    THEN LET seen == UpdateLastSeen(mn, now, 0) IN
         IF mn.sigTime < d.sigTime
         THEN Check([seen EXCEPT !.pubkey2 = d.pubkey2, !.sigTime = d.sigTime,
                                 !.addr = d.addr], now, ok, locked)
         ELSE seen
    ELSE mn

ProcessDseeKnown(d, fresh, locked) ==
    /\ Listening
    /\ d.sigTime <= now + Hour
    /\ Listed(d.vin) /\ ~AnnouncesUs(d)
    /\ vMasternodes' = [vMasternodes EXCEPT ![d.vin] =
                            UpdateEntry(@, d, fresh, acceptable[d.vin], locked)]
    /\ UNCHANGED <<envVars, activeVin, runVars>>

\* What darkSendSigner.IsVinAssociatedWithPubkey may return.  For a
\* transaction without a matching output the function ends without a return.
IsVinAssociatedWithPubkey(vin, pubkey) == IF pubkey = Owner[vin] THEN {TRUE} ELSE BOOLEAN

\* CMasternodeMan::Add.
Add(vin, mn) ==
    vMasternodes' = [vMasternodes EXCEPT ![vin] =
                         IF IsEnabled(mn) /\ @ = NoMasternode THEN mn ELSE @]

\* Mutant: the collateral is not looked at.
ProcessDseeNewUnchecked(d, lastUpdated) ==
    /\ Listening
    /\ d.sigTime <= now + Hour
    /\ Listed(d.vin) => AnnouncesUs(d)
    /\ Add(d.vin, UpdateLastSeen(NewMasternode(d), now, lastUpdated))
    /\ activeVin' = IF d.pubkey2 = MyKey THEN d.vin ELSE activeVin
    /\ UNCHANGED <<envVars, runVars>>

\* "dsee" for a new entry that passes every check.  lastUpdated is the time the
\* message carries, which nobody signs.
ProcessDseeNew(d, lastUpdated) ==
    /\ Listening
    /\ d.sigTime <= now + Hour
    /\ Listed(d.vin) => AnnouncesUs(d)
    /\ TRUE \in IsVinAssociatedWithPubkey(d.vin, d.pubkey)
    /\ acceptable[d.vin]
    /\ confTime[d.vin] # 0 /\ confTime[d.vin] <= d.sigTime
    /\ Add(d.vin, UpdateLastSeen(NewMasternode(d), now, lastUpdated))
    /\ activeVin' = IF d.pubkey2 = MyKey THEN d.vin ELSE activeVin
    /\ UNCHANGED <<envVars, runVars>>

\* The times a "dsee" may carry: Register and relays send the signing time,
\* a dseg answer the time the sender last saw the masternode (0 once stopped).
LastUpdated(d, fresh) == IF fresh THEN {d.sigTime} ELSE {0, d.sigTime} \cup (Start .. now)

VerifyPing(mn, m) == m.addr = mn.addr /\ m.pubkey2 = mn.pubkey2

\* A valid ping that is newer than the last.
TakePing(mn, m, ok, locked) ==
    LET pinged1 == [mn EXCEPT !.lastDseep = m.sigTime] IN
    IF UpdatedWithin(mn, now, MASTERNODE_MIN_DSEEP_SECONDS) THEN pinged1
    ELSE IF m.stop THEN Disable(pinged1)
    ELSE Check(UpdateLastSeen(pinged1, now, 0), now, ok, locked)

ProcessDseep(m, locked) ==
    /\ Listening
    /\ m.sigTime <= now + Hour /\ m.sigTime > now - Hour
    /\ Listed(m.vin)
    /\ vMasternodes[m.vin].lastDseep < m.sigTime
    /\ VerifyPing(vMasternodes[m.vin], m)
    /\ vMasternodes' = [vMasternodes EXCEPT ![m.vin] =
                            TakePing(@, m, acceptable[m.vin], locked)]
    /\ UNCHANGED <<envVars, activeVin, runVars>>

\* Mutant: the vote itself is not stored.
ProcessMvoteTimeOnly(b) ==
    /\ Listening
    /\ Listed(b.vin)
    /\ now - vMasternodes[b.vin].lastVote > Hour
    /\ vMasternodes[b.vin].pubkey2 = b.pubkey2
    /\ vMasternodes' = [vMasternodes EXCEPT ![b.vin].lastVote = now]
    /\ UNCHANGED <<envVars, activeVin, runVars>>

\* "mvote".
ProcessMvote(b) ==
    /\ Listening
    /\ Listed(b.vin)
    /\ now - vMasternodes[b.vin].lastVote > Hour
    /\ vMasternodes[b.vin].pubkey2 = b.pubkey2
    /\ vMasternodes' = [vMasternodes EXCEPT ![b.vin].nVote = b.nVote, ![b.vin].lastVote = now]
    /\ UNCHANGED <<envVars, activeVin, runVars>>

----------------------------------------------------------------------------
(* What the node does by itself. *)

\* Check() of every entry, by any of the queries (CountEnabled, the ranks,
\* GetCurrentMasterNode ...); it has cs_main for those in `locked`.
CheckAll(locked) ==
    /\ up
    /\ vMasternodes' = [vin \in Vin |->
           IF Listed(vin)
           THEN Check(vMasternodes[vin], now, acceptable[vin], vin \in locked)
           ELSE NoMasternode]
    /\ UNCHANGED <<envVars, activeVin, runVars>>

\* An entry after Check() and the removal of the inactive.
Sweep(mn, ok, locked) ==
    IF mn = NoMasternode THEN NoMasternode
    ELSE LET checked == Check(mn, now, ok, locked) IN
         IF checked.activeState \in {"REMOVE", "VIN_SPENT"} THEN NoMasternode ELSE checked

\* CheckAndRemove, from ThreadBitPool, which holds cs_main.
CheckAndRemove ==
    /\ up
    /\ vMasternodes' = [vin \in Vin |-> Sweep(vMasternodes[vin], acceptable[vin], TRUE)]
    /\ UNCHANGED <<envVars, activeVin, runVars>>

\* A scanning report about vin that ProcessMessageMasternodePOS accepts; to
\* rank the two masternodes it first calls Check() for every entry.
ProcessMnse(vin, mnse, locked) ==
    /\ Listening
    /\ Listed(vin)
    /\ LET checked == [v \in Vin |->
              IF Listed(v) THEN Check(vMasternodes[v], now, acceptable[v], v \in locked)
              ELSE NoMasternode]
       IN vMasternodes' = [checked EXCEPT ![vin] = ApplyScanningError(@, mnse)]
    /\ UNCHANGED <<envVars, activeVin, runVars>>
----------------------------------------------------------------------------
(* mncache.dat. *)

\* DumpMasternodes, from ThreadBitPool or Shutdown: the file must be missing
\* or pass Read; the list is serialised and the file opened for writing,
\* which truncates it ...  (Bound: no dump after the last crash.)
DumpMasternodes ==
    /\ up /\ writing = Missing
    /\ crashes < MaxCrashes
    /\ mncache # Torn
    /\ writing' = vMasternodes
    /\ mncache' = Torn
    /\ UNCHANGED <<envVars, vMasternodes, activeVin, up, ibd, crashes>>

\* ... and the data is written.
WriteEnds ==
    /\ up /\ writing # Missing
    /\ mncache' = writing
    /\ writing' = Missing
    /\ UNCHANGED <<envVars, vMasternodes, activeVin, up, ibd, crashes>>

\* The process ends at any point, with or without a dump before.
Crash ==
    /\ up /\ crashes < MaxCrashes
    /\ crashes' = crashes + 1
    /\ up' = FALSE
    /\ writing' = Missing
    /\ vMasternodes' = EmptyList
    /\ activeVin' = NoVin
    /\ UNCHANGED <<envVars, ibd, mncache>>

\* AppInitMain: CMasternodeDB::Read, which ends with CheckAndRemove; its
\* Check() has cs_main for the entries in `locked`.
Restart(locked) ==
    /\ ~up
    /\ up' = TRUE /\ ibd' = TRUE
    /\ IF mncache \in {Missing, Torn}
       THEN UNCHANGED vMasternodes
       ELSE vMasternodes' = [vin \in Vin |->
                                    Sweep(mncache[vin], acceptable[vin],
                                          vin \in locked)]
    /\ UNCHANGED <<envVars, activeVin, mncache, writing, crashes>>

FinishIBD ==
    /\ up /\ ibd
    /\ ibd' = FALSE
    /\ UNCHANGED <<envVars, vMasternodes, activeVin, up, mncache,
                   writing, crashes>>
----------------------------------------------------------------------------
Env ==
    \/ Tick
    \/ \E vin \in Vin : ChainChange(vin)
    \/ \E vin \in Vin, addr \in Addr, k2 \in Key2, t \in now .. now + MaxSkew :
          \/ Announce([vin |-> vin, addr |-> addr, pubkey |-> Owner[vin], pubkey2 |-> k2,
                       sigTime |-> t])
          \/ \E stop \in BOOLEAN :
                SignPing([vin |-> vin, addr |-> addr, pubkey2 |-> k2, sigTime |-> t,
                          stop |-> stop])
    \/ \E b \in Ballot : SignVote(b)

ProcessMessage ==
    \/ \E d \in announced, fresh \in BOOLEAN :
          \/ \E locked \in BOOLEAN : ProcessDseeKnown(d, fresh, locked)
          \/ \E t \in LastUpdated(d, fresh) : ProcessDseeNew(d, t)
    \/ \E m \in pinged, locked \in BOOLEAN : ProcessDseep(m, locked)
    \/ \E b \in voted : ProcessMvote(b)
    \/ \E vin \in Vin, h \in Height, success \in BOOLEAN, locked \in SUBSET Vin :
          ProcessMnse(vin, [nBlockHeight |-> h, success |-> success], locked)

Local ==
    \/ \E locked \in SUBSET Vin : CheckAll(locked)
    \/ CheckAndRemove
    \/ DumpMasternodes \/ WriteEnds \/ Crash \/ FinishIBD
    \/ \E locked \in SUBSET Vin : Restart(locked)

Next == Env \/ ProcessMessage \/ Local

Spec == Init /\ [][Next]_vars

\* Time passes, ThreadBitPool keeps running its loop and the operator
\* restarts the node.
Fairness ==
    /\ WF_vars(Tick) /\ WF_vars(CheckAndRemove)
    /\ WF_vars(\E locked \in SUBSET Vin : Restart(locked))

FairSpec == Spec /\ Fairness
----------------------------------------------------------------------------
\* Every variable has the type of the field it stands for.
TypeOK ==
    /\ now \in Nat
    /\ announced \subseteq Announcement /\ pinged \subseteq Ping /\ voted \subseteq Ballot
    /\ acceptable \in [Vin -> BOOLEAN] /\ confTime \in [Vin -> Nat]
    /\ vMasternodes \in List
    /\ activeVin \in Vin \cup {NoVin}
    /\ up \in BOOLEAN /\ ibd \in BOOLEAN
    /\ mncache \in List \cup {Missing, Torn}
    /\ writing \in List \cup {Missing}
    /\ crashes \in Nat

\* The entry mn of vin mirrors one announcement, and its last ping and vote
\* are of that masternode.
MirrorsSigned(vin, mn) ==
    /\ \E d \in announced : d.vin = vin /\ AnnouncedFields(d) = AnnouncedFields(mn)
    /\ mn.lastDseep # 0 => \E m \in pinged : m.vin = vin /\ m.sigTime = mn.lastDseep
    /\ mn.lastVote # 0 => \E b \in voted : b.vin = vin /\ b.nVote = mn.nVote

ListMirrorsSigned(list) ==
    \A vin \in Vin : list[vin] # NoMasternode => MirrorsSigned(vin, list[vin])

\* However announcements, updates, pings, votes, dumps, crashes and restarts
\* interleave, an entry's address, keys and signing time are those of one and
\* the same signed announcement of that masternode, never a mix of two, and
\* its last ping and vote are ones it signed: in memory, in the write under
\* way and in mncache.dat (ProcessMessage, CMasternodeDB).
EntriesMirrorSigned ==
    /\ ListMirrorsSigned(vMasternodes)
    /\ mncache \notin {Missing, Torn} => ListMirrorsSigned(mncache)
    /\ writing # Missing => ListMirrorsSigned(writing)

Life(vin) == IF Listed(vin) THEN vMasternodes[vin].activeState ELSE "ABSENT"

\* While the node runs, an entry enters the list only ENABLED and with
\* collateral that is unspent and confirmed; one that is no longer ENABLED
\* can only get worse (EXPIRED, then REMOVE or VIN_SPENT, then out), whatever
\* pings and announcements arrive; no entry is ever in POS_ERROR (Check, Add,
\* CheckAndRemove, ApplyScanningError).
Worse == [s \in {"ABSENT", "ENABLED", "EXPIRED", "VIN_SPENT", "REMOVE"} |->
    CASE s = "ABSENT"    -> {"ABSENT", "ENABLED"}
      [] s = "ENABLED"   -> {"ENABLED", "EXPIRED", "VIN_SPENT", "REMOVE", "ABSENT"}
      [] s = "EXPIRED"   -> {"EXPIRED", "VIN_SPENT", "REMOVE", "ABSENT"}
      [] s = "VIN_SPENT" -> {"VIN_SPENT", "ABSENT"}
      [] s = "REMOVE"    -> {"REMOVE", "EXPIRED", "VIN_SPENT", "ABSENT"}]

LifeStep ==
    up /\ up' => \A vin \in Vin :
        /\ Life(vin)' \in Worse[Life(vin)]
        /\ Life(vin) = "ABSENT" /\ Life(vin)' # "ABSENT" =>
              acceptable[vin] /\ confTime[vin] # 0 /\ confTime[vin] <= vMasternodes'[vin].sigTime

LifeCycle == [][LifeStep]_vars

\* While an entry stays in the list its signing time and its last ping never
\* go back, and its address and masternode key only change together with a
\* later signing time: a delayed or repeated announcement or ping never
\* undoes a newer one ("take the newest entry", "take this only if it's
\* newer").
NewestStep ==
    \A vin \in Vin : Listed(vin) /\ Listed(vin)' =>
        LET mn == vMasternodes[vin] IN
        /\ mn.lastDseep <= vMasternodes'[vin].lastDseep
        /\ \/ AnnouncedFields(vMasternodes'[vin]) = AnnouncedFields(mn)
           \/ mn.sigTime < vMasternodes'[vin].sigTime

NewestWins == [][NewestStep]_vars

\* A masternode whose collateral is spent for good leaves the list for good,
\* through replayed announcements, pings and reloads of mncache.dat (Check,
\* CheckAndRemove, Read).  An entry that expired too close to the end of the
\* run to be removed is excepted.
SpentLeaves ==
    \A vin \in Vin : <>[]~acceptable[vin] =>
        <>[](\/ ~Listed(vin)
            \/ /\ now = MaxTime
               /\ ~UpdatedWithin(vMasternodes[vin], now, MASTERNODE_EXPIRATION_SECONDS))
=============================================================================
