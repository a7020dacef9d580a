------------------------ MODULE MasternodeManProofs ------------------------
(***************************************************************************)
(* Proofs about MasternodeMan, for any masternodes, keys, messages (those  *)
(* of misconfigured wallets included), intervals and bounds.               *)
(***************************************************************************)
EXTENDS MasternodeMan, TLAPS

\* An entry as Check leaves it: fewer than four scanning errors, so never in
\* POS_ERROR.
Sane(mn) == mn.nScanningErrorCount < 4 /\ mn.activeState # "POS_ERROR"

\* The fields that Check, UpdateLastSeen and Disable leave alone.
Rest(mn) == [fields |-> AnnouncedFields(mn), lastDseep |-> mn.lastDseep,
             nVote |-> mn.nVote, lastVote |-> mn.lastVote]

LEMMA EntryFields ==
    ASSUME NEW mn \in Entry
    PROVE  /\ mn.addr \in Addr /\ mn.pubkey \in Key /\ mn.pubkey2 \in Key2
           /\ mn.sigTime \in Nat /\ mn.activeState \in ActiveState /\ mn.lastDseep \in Nat
           /\ mn.lastTimeSeen \in Nat /\ mn.nVote \in Vote \cup {0} /\ mn.lastVote \in Nat
           /\ mn.nScanningErrorCount \in Nat /\ mn.nLastScanningErrorBlockHeight \in Nat
BY Zenon DEF Entry

\* Check changes the state only, and only for the worse.
LEMMA CheckStateWorse ==
    ASSUME NEW mn \in Entry, Sane(mn), NEW t \in Nat, NEW ok \in BOOLEAN
    PROVE  CheckState(mn, t, ok) \in Worse[mn.activeState] \ {"ABSENT"}
<1>1. mn.activeState \in {"ENABLED", "EXPIRED", "VIN_SPENT", "REMOVE"}
  BY EntryFields, Zenon DEF Sane, ActiveState
<1>2. mn.nScanningErrorCount \in Nat /\ mn.nScanningErrorCount < 4
  BY EntryFields, Zenon DEF Sane
<1>3. ~(mn.nScanningErrorCount >= MASTERNODE_SCANNING_ERROR_THESHOLD)
  BY <1>2 DEF MASTERNODE_SCANNING_ERROR_THESHOLD
<1>4. CheckState(mn, t, ok) \in {mn.activeState, "VIN_SPENT", "REMOVE", "EXPIRED"}
  BY <1>3, Zenon DEF CheckState
<1>5. mn.activeState = "VIN_SPENT" => CheckState(mn, t, ok) = "VIN_SPENT"
  BY <1>3, Zenon DEF CheckState
<1> HIDE DEF CheckState
<1> QED BY <1>1, <1>4, <1>5, Zenon DEF Worse

LEMMA CheckKeeps ==
    ASSUME NEW mn \in Entry, Sane(mn), NEW t \in Nat, NEW ok \in BOOLEAN, NEW locked
    PROVE  /\ Check(mn, t, ok, locked) \in Entry /\ Sane(Check(mn, t, ok, locked))
           /\ Rest(Check(mn, t, ok, locked)) = Rest(mn)
           /\ Check(mn, t, ok, locked).activeState \in Worse[mn.activeState]
<1>1. mn.activeState \in {"ENABLED", "EXPIRED", "VIN_SPENT", "REMOVE"}
  BY EntryFields, Zenon DEF Sane, ActiveState
<1>2. mn.activeState \in Worse[mn.activeState]
  BY <1>1, Zenon DEF Worse
<1>3. CASE ~locked
  BY <1>2, <1>3, Zenon DEF Check
<1>4. CASE locked
  <2> DEFINE s == CheckState(mn, t, ok)
             new == [mn EXCEPT !.activeState = s]
  <2>1. s \in Worse[mn.activeState] \ {"ABSENT"}
    BY CheckStateWorse, Zenon
  <2> HIDE DEF s
  <2>2. s \in {"ENABLED", "EXPIRED", "VIN_SPENT", "REMOVE"}
    BY <1>1, <2>1, Zenon DEF Worse
  <2>3. new \in Entry /\ new.activeState = s
    BY <2>2, Zenon DEF Entry, ActiveState
  <2>4. new.nScanningErrorCount = mn.nScanningErrorCount /\ Rest(new) = Rest(mn)
    BY Zenon DEF Entry, Rest, AnnouncedFields
  <2>5. Check(mn, t, ok, locked) = new
    BY <1>4, Zenon DEF Check, s
  <2> HIDE DEF new
  <2> QED BY <2>1, <2>2, <2>3, <2>4, <2>5, Zenon DEF Sane
<1> QED BY <1>3, <1>4, Zenon

LEMMA UpdateLastSeenKeeps ==
    ASSUME NEW mn \in Entry, NEW t \in Nat, NEW o \in Nat
    PROVE  /\ UpdateLastSeen(mn, t, o) \in Entry
           /\ Rest(UpdateLastSeen(mn, t, o)) = Rest(mn)
           /\ UpdateLastSeen(mn, t, o).activeState = mn.activeState
           /\ UpdateLastSeen(mn, t, o).nScanningErrorCount = mn.nScanningErrorCount
BY Zenon DEF UpdateLastSeen, Entry, Rest, AnnouncedFields

LEMMA DisableKeeps ==
    ASSUME NEW mn \in Entry
    PROVE  /\ Disable(mn) \in Entry /\ Rest(Disable(mn)) = Rest(mn)
           /\ Disable(mn).activeState = mn.activeState
           /\ Disable(mn).nScanningErrorCount = mn.nScanningErrorCount
BY Zenon DEF Disable, Entry, Rest, AnnouncedFields

\* A report leaves fewer than four errors.
LEMMA ApplyScanningErrorKeeps ==
    ASSUME NEW mn \in Entry, Sane(mn), NEW h \in Nat, NEW success \in BOOLEAN,
           NEW new, new = ApplyScanningError(mn, [nBlockHeight |-> h, success |-> success])
    PROVE  /\ new \in Entry /\ Sane(new) /\ Rest(new) = Rest(mn)
           /\ new.activeState = mn.activeState
<1> DEFINE n == mn.nScanningErrorCount
           count == IF success THEN IF n > 0 THEN n - 1 ELSE 0
                    ELSE IF n + 1 >= 4 THEN 0 ELSE n + 1
           new1 == [mn EXCEPT !.nLastScanningErrorBlockHeight = h, !.nScanningErrorCount = count]
<1>1. count \in Nat /\ count < 4
  BY EntryFields DEF Sane
<1>2. new = mn \/ new = new1
  BY Zenon DEF ApplyScanningError
<1> HIDE DEF count
<1>3. /\ new1 \in Entry /\ Rest(new1) = Rest(mn)
      /\ new1.activeState = mn.activeState /\ new1.nScanningErrorCount = count
  BY <1>1, Zenon DEF Entry, Rest, AnnouncedFields
<1> HIDE DEF new1
<1> QED BY <1>1, <1>2, <1>3, Zenon DEF Sane

----------------------------------------------------------------------------
(* What one step may do to the entry of a masternode. *)

FromAnnouncement(vin, mn) ==
    \E d \in announced : d.vin = vin /\ AnnouncedFields(d) = AnnouncedFields(mn)

\* old is kept, or changed by a newer announcement, a newer ping or a vote.
Changes(vin, old, new) ==
    /\ new \in Entry /\ Sane(new)
    /\ new.activeState \in Worse[old.activeState]
    /\ \/ AnnouncedFields(new) = AnnouncedFields(old)
       \/ old.sigTime < new.sigTime /\ FromAnnouncement(vin, new)
    /\ \/ new.lastDseep = old.lastDseep
       \/ /\ old.lastDseep < new.lastDseep
          /\ \E m \in pinged : m.vin = vin /\ m.sigTime = new.lastDseep
    /\ \/ new.lastVote = old.lastVote /\ new.nVote = old.nVote
       \/ \E b \in voted : b.vin = vin /\ b.nVote = new.nVote

\* new enters the list.
Enters(vin, new) ==
    /\ new \in Entry /\ Sane(new) /\ new.activeState = "ENABLED"
    /\ FromAnnouncement(vin, new)
    /\ new.lastDseep = 0 /\ new.lastVote = 0
    /\ acceptable[vin] /\ confTime[vin] # 0 /\ confTime[vin] <= new.sigTime

Evolves(vin, old, new) ==
    \/ new = old
    \/ new = NoMasternode
    \/ old # NoMasternode /\ Changes(vin, old, new)
    \/ old = NoMasternode /\ Enters(vin, new)

\* An entry whose other fields are those of old.
LEMMA KeptChanges ==
    ASSUME NEW vin, NEW old \in Entry, NEW new \in Entry, Sane(new),
           new.activeState \in Worse[old.activeState], Rest(new) = Rest(old)
    PROVE  Changes(vin, old, new)
BY Zenon DEF Changes, Rest

\* The state of a sane entry is one of the states it may go to.
LEMMA SaneState ==
    ASSUME NEW mn \in Entry, Sane(mn)
    PROVE  mn.activeState \in Worse[mn.activeState]
<1>1. mn.activeState \in {"ENABLED", "EXPIRED", "VIN_SPENT", "REMOVE"}
  BY EntryFields, Zenon DEF Sane, ActiveState
<1> QED BY <1>1, Zenon DEF Worse
LEMMA RestParts ==
    ASSUME NEW x, NEW y, Rest(x) = Rest(y)
    PROVE  /\ AnnouncedFields(x) = AnnouncedFields(y) /\ x.lastDseep = y.lastDseep
           /\ x.nVote = y.nVote /\ x.lastVote = y.lastVote /\ x.sigTime = y.sigTime
<1>1. Rest(x).fields = Rest(y).fields /\ Rest(x).lastDseep = Rest(y).lastDseep
      /\ Rest(x).nVote = Rest(y).nVote /\ Rest(x).lastVote = Rest(y).lastVote
  BY Zenon
<1>2. AnnouncedFields(x) = AnnouncedFields(y) /\ x.lastDseep = y.lastDseep
      /\ x.nVote = y.nVote /\ x.lastVote = y.lastVote
  BY <1>1, Zenon DEF Rest
<1>3. AnnouncedFields(x).sigTime = AnnouncedFields(y).sigTime
  BY <1>2, Zenon
<1> QED BY <1>2, <1>3, Zenon DEF AnnouncedFields

\* "dsee" for an entry in the list.
LEMMA UpdateEntryChanges ==
    ASSUME now \in Nat, announced \subseteq Announcement,
           NEW mn \in Entry, Sane(mn), NEW d \in announced,
           NEW fresh, NEW ok \in BOOLEAN, NEW locked
    PROVE  Changes(d.vin, mn, UpdateEntry(mn, d, fresh, ok, locked))
<1> DEFINE seen == UpdateLastSeen(mn, now, 0)
           newer == [seen EXCEPT !.pubkey2 = d.pubkey2, !.sigTime = d.sigTime, !.addr = d.addr]
           new == Check(newer, now, ok, locked)
<1>1. /\ seen \in Entry /\ Rest(seen) = Rest(mn) /\ seen.activeState = mn.activeState
      /\ seen.nScanningErrorCount = mn.nScanningErrorCount
  BY UpdateLastSeenKeeps
<1>2. Sane(seen)
  BY <1>1, Zenon DEF Sane
<1>3. Changes(d.vin, mn, mn) /\ Changes(d.vin, mn, seen)
  BY <1>1, <1>2, SaneState, KeptChanges, Zenon
<1>4. ASSUME mn.pubkey = d.pubkey, mn.sigTime < d.sigTime
      PROVE  Changes(d.vin, mn, new)
  <2> HIDE DEF seen
  <2>1. d \in Announcement
    BY Zenon
  <2>2. /\ d.addr \in Addr /\ d.pubkey2 \in Key2 /\ d.sigTime \in Nat
    BY <2>1, Zenon DEF Announcement
  <2>3. newer \in Entry
    BY <1>1, <2>2, Zenon DEF Entry
  <2>4. /\ newer.activeState = mn.activeState
        /\ newer.nScanningErrorCount = mn.nScanningErrorCount
        /\ newer.lastDseep = seen.lastDseep /\ newer.nVote = seen.nVote
        /\ newer.lastVote = seen.lastVote
    BY <1>1, Zenon DEF Entry
  <2>5. AnnouncedFields(seen).pubkey = AnnouncedFields(mn).pubkey
    BY <1>1, RestParts, Zenon
  <2>6. seen.pubkey = mn.pubkey
    BY <2>5, Zenon DEF AnnouncedFields
  <2>7. AnnouncedFields(newer) = AnnouncedFields(d)
    BY <1>1, <1>4, <2>6, Zenon DEF AnnouncedFields, Entry
  <2> HIDE DEF newer
  <2>8. Sane(newer)
    BY <2>4, Zenon DEF Sane
  <2>9. /\ new \in Entry /\ Sane(new) /\ Rest(new) = Rest(newer)
        /\ new.activeState \in Worse[mn.activeState]
    BY <2>3, <2>4, <2>8, CheckKeeps
  <2> HIDE DEF new
  <2>10. /\ AnnouncedFields(new) = AnnouncedFields(d) /\ new.lastDseep = mn.lastDseep
         /\ new.nVote = mn.nVote /\ new.lastVote = mn.lastVote
    BY <1>1, <2>4, <2>7, <2>9, RestParts
  <2>11. AnnouncedFields(new).sigTime = AnnouncedFields(d).sigTime
    BY <2>10, Zenon
  <2>12. new.sigTime = d.sigTime
    BY <2>11, Zenon DEF AnnouncedFields
  <2>13. FromAnnouncement(d.vin, new)
    BY <2>10, Zenon DEF FromAnnouncement
  <2> QED BY <1>4, <2>9, <2>10, <2>12, <2>13, Zenon DEF Changes
<1>5. \/ UpdateEntry(mn, d, fresh, ok, locked) = mn
      \/ UpdateEntry(mn, d, fresh, ok, locked) = seen
      \/ /\ mn.pubkey = d.pubkey /\ mn.sigTime < d.sigTime
         /\ UpdateEntry(mn, d, fresh, ok, locked) = new
  BY Zenon DEF UpdateEntry
<1> HIDE DEF seen, new
<1> QED BY <1>3, <1>4, <1>5, Zenon

\* "dseep".
LEMMA TakePingChanges ==
    ASSUME now \in Nat, pinged \subseteq Ping,
           NEW mn \in Entry, Sane(mn), NEW m \in pinged, mn.lastDseep < m.sigTime,
           NEW ok \in BOOLEAN, NEW locked
    PROVE  Changes(m.vin, mn, TakePing(mn, m, ok, locked))
<1> DEFINE p1 == [mn EXCEPT !.lastDseep = m.sigTime]
           seen == UpdateLastSeen(p1, now, 0)
           new == TakePing(mn, m, ok, locked)
<1>1. m.sigTime \in Nat
  BY Zenon DEF Ping
<1>2. /\ p1 \in Entry /\ p1.lastDseep = m.sigTime /\ p1.activeState = mn.activeState
      /\ p1.nScanningErrorCount = mn.nScanningErrorCount
      /\ p1.nVote = mn.nVote /\ p1.lastVote = mn.lastVote
      /\ AnnouncedFields(p1) = AnnouncedFields(mn)
  BY <1>1, Zenon DEF Entry, AnnouncedFields
<1>3. \/ new = p1 \/ new = Disable(p1) \/ new = Check(seen, now, ok, locked)
  BY Zenon DEF TakePing
<1> HIDE DEF p1, new
<1>4. Sane(p1)
  BY <1>2, Zenon DEF Sane
<1>5. /\ seen \in Entry /\ Rest(seen) = Rest(p1) /\ seen.activeState = p1.activeState
      /\ seen.nScanningErrorCount = p1.nScanningErrorCount
  BY <1>2, UpdateLastSeenKeeps
<1> HIDE DEF seen
<1>6. Sane(seen)
  BY <1>4, <1>5, Zenon DEF Sane
<1>7. /\ new \in Entry /\ Sane(new) /\ Rest(new) = Rest(p1)
      /\ new.activeState \in Worse[mn.activeState]
  <2>1. CASE new = p1
    BY <1>2, <1>4, <2>1, SaneState, Zenon
  <2>2. CASE new = Disable(p1)
    <3>1. /\ new \in Entry /\ Rest(new) = Rest(p1) /\ new.activeState = p1.activeState
          /\ new.nScanningErrorCount = p1.nScanningErrorCount
      BY <1>2, <2>2, DisableKeeps, Zenon
    <3> QED BY <1>2, <1>4, <3>1, SaneState, Zenon DEF Sane
  <2>3. CASE new = Check(seen, now, ok, locked)
    BY <1>2, <1>5, <1>6, <2>3, CheckKeeps
  <2> QED BY <1>3, <2>1, <2>2, <2>3, Zenon
<1>8. /\ AnnouncedFields(new) = AnnouncedFields(mn) /\ new.lastDseep = m.sigTime
      /\ new.nVote = mn.nVote /\ new.lastVote = mn.lastVote
  BY <1>2, <1>7, RestParts
<1> QED BY <1>7, <1>8, Zenon DEF Changes, new
----------------------------------------------------------------------------
(* Lists of good entries. *)

\* MirrorsSigned, of any sets of messages.
Mirrors(A, P, V, vin, mn) ==
    /\ \E d \in A : d.vin = vin /\ AnnouncedFields(d) = AnnouncedFields(mn)
    /\ mn.lastDseep # 0 => \E m \in P : m.vin = vin /\ m.sigTime = mn.lastDseep
    /\ mn.lastVote # 0 => \E b \in V : b.vin = vin /\ b.nVote = mn.nVote

Good(A, P, V, list) ==
    /\ list \in List
    /\ \A vin \in Vin : list[vin] # NoMasternode => Mirrors(A, P, V, vin, list[vin]) /\ Sane(list[vin])

\* Messages once signed stay signed.
LEMMA GoodGrows ==
    ASSUME NEW A, NEW P, NEW V, NEW list, Good(A, P, V, list),
           NEW A2, NEW P2, NEW V2, A \subseteq A2, P \subseteq P2, V \subseteq V2
    PROVE  Good(A2, P2, V2, list)
<1>1. ASSUME NEW vin \in Vin, list[vin] # NoMasternode
      PROVE  Mirrors(A2, P2, V2, vin, list[vin])
  <2>1. Mirrors(A, P, V, vin, list[vin])
    BY <1>1, Zenon DEF Good
  <2> QED BY <2>1, Zenon DEF Mirrors
<1> QED BY <1>1, Zenon DEF Good

LEMMA EvolvesGood ==
    ASSUME NEW list, Good(announced, pinged, voted, list),
           NEW new, new = [vin \in Vin |-> new[vin]],
           \A vin \in Vin : Evolves(vin, list[vin], new[vin])
    PROVE  Good(announced, pinged, voted, new)
<1>1. ASSUME NEW vin \in Vin
      PROVE  /\ new[vin] \in Entry \cup {NoMasternode}
             /\ new[vin] # NoMasternode =>
                   Mirrors(announced, pinged, voted, vin, new[vin]) /\ Sane(new[vin])
  <2> DEFINE old == list[vin]
             mn == new[vin]
  <2>1. /\ old \in Entry \cup {NoMasternode}
        /\ old # NoMasternode => Mirrors(announced, pinged, voted, vin, old) /\ Sane(old)
    BY Zenon DEF Good, List
  <2>2. Evolves(vin, old, mn)
    BY Zenon
  <2> HIDE DEF old, mn
  <2>3. CASE mn = old \/ mn = NoMasternode
    BY <2>1, <2>3, Zenon DEF mn
  <2>4. CASE old # NoMasternode /\ Changes(vin, old, mn)
    <3>1. mn \in Entry /\ Sane(mn)
      BY <2>4, Zenon DEF Changes
    <3>2. \E d \in announced : d.vin = vin /\ AnnouncedFields(d) = AnnouncedFields(mn)
      BY <2>1, <2>4, Zenon DEF Changes, Mirrors, FromAnnouncement
    <3>3. mn.lastDseep # 0 => \E m \in pinged : m.vin = vin /\ m.sigTime = mn.lastDseep
      BY <2>1, <2>4, Zenon DEF Changes, Mirrors
    <3>4. mn.lastVote # 0 => \E b \in voted : b.vin = vin /\ b.nVote = mn.nVote
      BY <2>1, <2>4, Zenon DEF Changes, Mirrors
    <3> QED BY <3>1, <3>2, <3>3, <3>4, Zenon DEF Mirrors, mn
  <2>5. CASE Enters(vin, mn)
    BY <2>5, Zenon DEF Enters, FromAnnouncement, Mirrors, mn
  <2> QED BY <2>2, <2>3, <2>4, <2>5, Zenon DEF Evolves
<1>2. new \in List
  BY <1>1, Zenon DEF List
<1> QED BY <1>1, <1>2, Zenon DEF Good

\* A step whose every entry evolves.
AllEvolve ==
    /\ vMasternodes' = [vin \in Vin |-> vMasternodes'[vin]]
    /\ \A vin \in Vin : Evolves(vin, vMasternodes[vin], vMasternodes'[vin])

LEMMA OneEvolves ==
    ASSUME vMasternodes \in List, NEW v \in Vin, NEW mn, Evolves(v, vMasternodes[v], mn),
           vMasternodes' = [vMasternodes EXCEPT ![v] = mn]
    PROVE  AllEvolve
<1>1. vMasternodes' = [vin \in Vin |-> vMasternodes'[vin]]
  BY Zenon DEF List
<1>2. ASSUME NEW vin \in Vin PROVE Evolves(vin, vMasternodes[vin], vMasternodes'[vin])
  <2>1. CASE vin = v
    BY <2>1, Zenon DEF List
  <2>2. CASE vin # v
    BY <2>2, Zenon DEF List, Evolves
  <2> QED BY <2>1, <2>2, Zenon
<1> QED BY <1>1, <1>2, Zenon DEF AllEvolve

LEMMA SameEvolves ==
    ASSUME vMasternodes \in List, UNCHANGED vMasternodes
    PROVE  AllEvolve
BY Zenon DEF AllEvolve, Evolves, List

\* The entries of a good list.
LEMMA GoodEntry ==
    ASSUME NEW A, NEW P, NEW V, NEW list, Good(A, P, V, list),
           NEW vin \in Vin, list[vin] # NoMasternode
    PROVE  list[vin] \in Entry /\ Sane(list[vin])
BY Zenon DEF Good, List

\* An entry changed, unless it is no entry.
LEMMA ChangesEvolves ==
    ASSUME NEW vin, NEW old \in Entry, NEW new, Changes(vin, old, new)
    PROVE  Evolves(vin, old, new)
BY ModelValues, Zenon DEF Evolves
----------------------------------------------------------------------------
(* The inductive invariant, and every action's effect on the list. *)

GoodNow(list) == Good(announced, pinged, voted, list)

IInv ==
    /\ TypeOK
    /\ GoodNow(vMasternodes)
    /\ mncache \notin {Missing, Torn} => GoodNow(mncache)
    /\ writing # Missing => GoodNow(writing)
    /\ ~up => vMasternodes = EmptyList

LEMMA DseeKnownEvolves ==
    ASSUME IInv, NEW d \in announced, NEW fresh, NEW locked, ProcessDseeKnown(d, fresh, locked)
    PROVE  AllEvolve
<1>1. d.vin \in Vin /\ vMasternodes[d.vin] # NoMasternode
  BY Zenon DEF IInv, TypeOK, Announcement, ProcessDseeKnown, Listed
<1>2. vMasternodes[d.vin] \in Entry /\ Sane(vMasternodes[d.vin])
  BY <1>1, GoodEntry, Zenon DEF IInv, GoodNow
<1>3. acceptable[d.vin] \in BOOLEAN
  BY <1>1, Zenon DEF IInv, TypeOK
<1> DEFINE new == UpdateEntry(vMasternodes[d.vin], d, fresh, acceptable[d.vin], locked)
<1>4. Changes(d.vin, vMasternodes[d.vin], new)
  BY <1>2, <1>3, UpdateEntryChanges, Zenon DEF IInv, TypeOK
<1>5. vMasternodes' = [vMasternodes EXCEPT ![d.vin] = new]
  BY Zenon DEF ProcessDseeKnown
<1> HIDE DEF new
<1>6. Evolves(d.vin, vMasternodes[d.vin], new)
  BY <1>2, <1>4, ChangesEvolves, Zenon
<1> QED BY <1>1, <1>5, <1>6, OneEvolves, Zenon DEF IInv, TypeOK

\* A new entry passes the tests that Enters states.
LEMMA DseeNewEvolves ==
    ASSUME IInv, NEW d \in announced, NEW t \in Nat, ProcessDseeNew(d, t)
    PROVE  AllEvolve
<1> DEFINE fresh == NewMasternode(d)
           mn == UpdateLastSeen(fresh, now, t)
           old == vMasternodes[d.vin]
           new == IF IsEnabled(mn) /\ old = NoMasternode THEN mn ELSE old
<1>1. d \in Announcement /\ d.vin \in Vin
  BY Zenon DEF IInv, TypeOK, Announcement
<1>2. /\ fresh \in Entry /\ fresh.activeState = "ENABLED" /\ fresh.nScanningErrorCount = 0
      /\ fresh.lastDseep = 0 /\ fresh.lastVote = 0
      /\ AnnouncedFields(fresh) = AnnouncedFields(d)
  BY <1>1, Zenon DEF NewMasternode, Entry, Announcement, ActiveState, AnnouncedFields
<1> HIDE DEF fresh
<1>3. /\ mn \in Entry /\ Rest(mn) = Rest(fresh) /\ mn.activeState = "ENABLED"
      /\ mn.nScanningErrorCount = 0
  BY <1>2, UpdateLastSeenKeeps, Zenon DEF IInv, TypeOK
<1>4. vMasternodes' = [vMasternodes EXCEPT ![d.vin] = new]
  BY Zenon DEF ProcessDseeNew, Add, fresh
<1> HIDE DEF mn
<1>5. /\ mn.lastDseep = 0 /\ mn.lastVote = 0 /\ AnnouncedFields(mn) = AnnouncedFields(d)
  BY <1>2, <1>3, RestParts, Zenon
<1>6. AnnouncedFields(mn).sigTime = AnnouncedFields(d).sigTime
  BY <1>5, Zenon
<1>7. mn.sigTime = d.sigTime
  BY <1>6, Zenon DEF AnnouncedFields
<1>8. /\ acceptable[d.vin] /\ confTime[d.vin] # 0 /\ confTime[d.vin] <= mn.sigTime
  BY <1>7, Zenon DEF ProcessDseeNew
<1>9. Enters(d.vin, mn)
  BY <1>3, <1>5, <1>8 DEF Enters, FromAnnouncement, Sane
<1>10. Evolves(d.vin, old, new)
  BY <1>9, Zenon DEF Evolves
<1> HIDE DEF new
<1> QED BY <1>1, <1>4, <1>10, OneEvolves, Zenon DEF IInv, TypeOK

LEMMA DseepEvolves ==
    ASSUME IInv, NEW m \in pinged, NEW locked, ProcessDseep(m, locked)
    PROVE  AllEvolve
<1>1. m.vin \in Vin /\ vMasternodes[m.vin] # NoMasternode
  BY Zenon DEF IInv, TypeOK, Ping, ProcessDseep, Listed
<1>2. vMasternodes[m.vin] \in Entry /\ Sane(vMasternodes[m.vin])
  BY <1>1, GoodEntry, Zenon DEF IInv, GoodNow
<1>3. acceptable[m.vin] \in BOOLEAN /\ vMasternodes[m.vin].lastDseep < m.sigTime
  BY <1>1, Zenon DEF IInv, TypeOK, ProcessDseep
<1> DEFINE new == TakePing(vMasternodes[m.vin], m, acceptable[m.vin], locked)
<1>4. Changes(m.vin, vMasternodes[m.vin], new)
  BY <1>2, <1>3, TakePingChanges, Zenon DEF IInv, TypeOK
<1>5. vMasternodes' = [vMasternodes EXCEPT ![m.vin] = new]
  BY Zenon DEF ProcessDseep
<1> HIDE DEF new
<1>6. Evolves(m.vin, vMasternodes[m.vin], new)
  BY <1>2, <1>4, ChangesEvolves, Zenon
<1> QED BY <1>1, <1>5, <1>6, OneEvolves, Zenon DEF IInv, TypeOK

LEMMA MvoteEvolves ==
    ASSUME IInv, NEW b \in voted, ProcessMvote(b)
    PROVE  AllEvolve
<1> DEFINE old == vMasternodes[b.vin]
           new == [old EXCEPT !.nVote = b.nVote, !.lastVote = now]
<1>1. b.vin \in Vin /\ b.nVote \in Vote /\ old # NoMasternode /\ now \in Nat
  BY Zenon DEF IInv, TypeOK, Ballot, ProcessMvote, Listed
<1>2. old \in Entry /\ Sane(old)
  BY <1>1, GoodEntry, Zenon DEF IInv, GoodNow
<1>3. vMasternodes' = [vMasternodes EXCEPT ![b.vin] = new]
  BY <1>1, <1>2, Zenon DEF ProcessMvote, IInv, TypeOK, List, Entry
<1> HIDE DEF old
<1>4. /\ new \in Entry /\ new.activeState = old.activeState
      /\ new.nScanningErrorCount = old.nScanningErrorCount
      /\ new.lastDseep = old.lastDseep /\ new.nVote = b.nVote
      /\ AnnouncedFields(new) = AnnouncedFields(old)
  BY <1>1, <1>2, Zenon DEF Entry, AnnouncedFields
<1> HIDE DEF new
<1>5. Sane(new) /\ new.activeState \in Worse[old.activeState]
  BY <1>2, <1>4, SaneState, Zenon DEF Sane
<1>6. Changes(b.vin, old, new)
  BY <1>4, <1>5, Zenon DEF Changes
<1>7. Evolves(b.vin, old, new)
  BY <1>2, <1>6, ChangesEvolves, Zenon
<1> QED BY <1>1, <1>3, <1>7, OneEvolves, Zenon DEF IInv, TypeOK, old

\* Check() of an entry, or no entry.
LEMMA CheckEvolves ==
    ASSUME NEW mn \in Entry, Sane(mn), now \in Nat, NEW ok \in BOOLEAN, NEW locked, NEW vin
    PROVE  Changes(vin, mn, Check(mn, now, ok, locked))
BY CheckKeeps, KeptChanges

LEMMA CheckAllEvolves ==
    ASSUME IInv, NEW locked, CheckAll(locked)
    PROVE  AllEvolve
<1>1. ASSUME NEW vin \in Vin
      PROVE  Evolves(vin, vMasternodes[vin], vMasternodes'[vin])
  <2>1. CASE vMasternodes[vin] = NoMasternode
    BY <2>1, Zenon DEF CheckAll, Listed, Evolves
  <2>2. CASE vMasternodes[vin] # NoMasternode
    <3>1. vMasternodes[vin] \in Entry /\ Sane(vMasternodes[vin])
      BY <2>2, GoodEntry, Zenon DEF IInv, GoodNow
    <3>2. now \in Nat /\ acceptable[vin] \in BOOLEAN
      BY Zenon DEF IInv, TypeOK
    <3>3. vMasternodes'[vin] = Check(vMasternodes[vin], now, acceptable[vin], vin \in locked)
      BY <2>2, Zenon DEF CheckAll, Listed
    <3>4. Changes(vin, vMasternodes[vin], vMasternodes'[vin])
      BY <3>1, <3>2, <3>3, CheckEvolves, Zenon
    <3> QED BY <3>1, <3>4, ChangesEvolves, Zenon
  <2> QED BY <2>1, <2>2, Zenon
<1>2. vMasternodes' = [vin \in Vin |-> vMasternodes'[vin]]
  BY Zenon DEF CheckAll
<1> QED BY <1>1, <1>2, Zenon DEF AllEvolve

\* A swept list is what is left of it, checked.
LEMMA SweepEvolves ==
    ASSUME NEW mn \in Entry \cup {NoMasternode}, mn # NoMasternode => Sane(mn),
           now \in Nat, NEW ok \in BOOLEAN, NEW locked, NEW vin
    PROVE  Evolves(vin, mn, Sweep(mn, ok, locked))
<1>1. CASE mn = NoMasternode
  BY <1>1, Zenon DEF Sweep, Evolves
<1>2. CASE mn # NoMasternode
  <2>1. Changes(vin, mn, Check(mn, now, ok, locked))
    BY <1>2, CheckEvolves, Zenon
  <2>2. Sweep(mn, ok, locked) \in {NoMasternode, Check(mn, now, ok, locked)}
    BY <1>2, Zenon DEF Sweep
  <2> QED BY <1>2, <2>1, <2>2, Zenon DEF Evolves
<1> QED BY <1>1, <1>2, Zenon

LEMMA CheckAndRemoveEvolves ==
    ASSUME IInv, CheckAndRemove
    PROVE  AllEvolve
<1>1. ASSUME NEW vin \in Vin
      PROVE  Evolves(vin, vMasternodes[vin], vMasternodes'[vin])
  <2>1. /\ vMasternodes[vin] \in Entry \cup {NoMasternode}
        /\ vMasternodes[vin] # NoMasternode => Sane(vMasternodes[vin])
    BY GoodEntry, Zenon DEF IInv, GoodNow, TypeOK, List
  <2>2. now \in Nat /\ acceptable[vin] \in BOOLEAN
    BY Zenon DEF IInv, TypeOK
  <2>3. vMasternodes'[vin] = Sweep(vMasternodes[vin], acceptable[vin], TRUE)
    BY Zenon DEF CheckAndRemove
  <2> QED BY <2>1, <2>2, <2>3, SweepEvolves, Zenon
<1>2. vMasternodes' = [vin \in Vin |-> vMasternodes'[vin]]
  BY Zenon DEF CheckAndRemove
<1> QED BY <1>1, <1>2, Zenon DEF AllEvolve
LEMMA MnseEvolves ==
    ASSUME IInv, NEW vin \in Vin, NEW h \in Height, NEW success \in BOOLEAN, NEW locked,
           ProcessMnse(vin, [nBlockHeight |-> h, success |-> success], locked)
    PROVE  AllEvolve
<1> DEFINE mnse == [nBlockHeight |-> h, success |-> success]
           checked == [v \in Vin |->
              IF Listed(v) THEN Check(vMasternodes[v], now, acceptable[v], v \in locked)
              ELSE NoMasternode]
<1>1. vMasternodes' = [checked EXCEPT ![vin] = ApplyScanningError(checked[vin], mnse)]
  BY Zenon DEF ProcessMnse
<1>2. ASSUME NEW v \in Vin, vMasternodes[v] # NoMasternode
      PROVE  /\ vMasternodes[v] \in Entry /\ checked[v] \in Entry /\ Sane(checked[v])
             /\ Rest(checked[v]) = Rest(vMasternodes[v])
             /\ checked[v].activeState \in Worse[vMasternodes[v].activeState]
  <2>1. vMasternodes[v] \in Entry /\ Sane(vMasternodes[v])
    BY <1>2, GoodEntry, Zenon DEF IInv, GoodNow
  <2>2. now \in Nat /\ acceptable[v] \in BOOLEAN
    BY Zenon DEF IInv, TypeOK
  <2>3. checked[v] = Check(vMasternodes[v], now, acceptable[v], v \in locked)
    BY <1>2, Zenon DEF Listed
  <2> HIDE DEF checked
  <2> QED BY <2>1, <2>2, <2>3, CheckKeeps
<1>3. /\ \A v \in Vin : vMasternodes[v] = NoMasternode => checked[v] = NoMasternode
      /\ checked = [v \in Vin |-> checked[v]]
  BY Zenon DEF Listed
<1>4. vMasternodes[vin] # NoMasternode /\ h \in Nat
  BY ManAssumption, Zenon DEF ProcessMnse, Listed
<1> HIDE DEF checked
<1>5. /\ vMasternodes' = [v \in Vin |-> vMasternodes'[v]]
      /\ \A v \in Vin \ {vin} : vMasternodes'[v] = checked[v]
      /\ vMasternodes'[vin] = ApplyScanningError(checked[vin], mnse)
  <2> DEFINE new == ApplyScanningError(checked[vin], mnse)
  <2> HIDE DEF new
  <2>1. vMasternodes' = [checked EXCEPT ![vin] = new]
    BY <1>1, Zenon DEF new
  <2>2. /\ vMasternodes' = [v \in Vin |-> vMasternodes'[v]]
        /\ \A v \in Vin \ {vin} : vMasternodes'[v] = checked[v]
        /\ vMasternodes'[vin] = new
    BY <1>3, <2>1, Zenon
  <2> QED BY <2>2, Zenon DEF new
<1>6. ASSUME NEW v \in Vin
      PROVE  Evolves(v, vMasternodes[v], vMasternodes'[v])
  <2>1. CASE vMasternodes[v] = NoMasternode
    <3>1. vMasternodes'[v] = NoMasternode
      BY <1>3, <1>4, <1>5, <2>1, Zenon
    <3> QED BY <3>1, <2>1, Zenon DEF Evolves
  <2>2. CASE vMasternodes[v] # NoMasternode /\ v # vin
    <3>1. vMasternodes'[v] = checked[v]
      BY <1>5, <2>2, Zenon
    <3>2. Changes(v, vMasternodes[v], checked[v])
      BY <1>2, <2>2, KeptChanges, Zenon
    <3> QED BY <1>2, <2>2, <3>1, <3>2, ChangesEvolves, Zenon
  <2>3. CASE vMasternodes[v] # NoMasternode /\ v = vin
    <3> DEFINE new == ApplyScanningError(checked[v], mnse)
    <3>1. vMasternodes'[v] = new
      BY <1>5, <2>3, Zenon
    <3>2. checked[v] \in Entry /\ Sane(checked[v])
      BY <1>2, <2>3, Zenon
    <3>3. /\ new \in Entry /\ Sane(new) /\ Rest(new) = Rest(checked[v])
          /\ new.activeState = checked[v].activeState
      BY <1>4, <3>2, ApplyScanningErrorKeeps
    <3> HIDE DEF new
    <3>4. Changes(v, vMasternodes[v], new)
      BY <1>2, <2>3, <3>3, KeptChanges, Zenon
    <3> QED BY <1>2, <2>3, <3>1, <3>4, ChangesEvolves, Zenon
  <2> QED BY <2>1, <2>2, <2>3, Zenon
<1> QED BY <1>5, <1>6, Zenon DEF AllEvolve

\* A handler changes nothing but the list and activeVin.
LEMMA MessageSteps ==
    ASSUME IInv, ProcessMessage
    PROVE  /\ AllEvolve /\ up
           /\ UNCHANGED <<envVars, runVars>> /\ activeVin' \in Vin \cup {NoVin}
<1>1. ASSUME NEW d \in announced, NEW fresh \in BOOLEAN, NEW locked \in BOOLEAN,
             ProcessDseeKnown(d, fresh, locked)
      PROVE  /\ AllEvolve /\ up
             /\ UNCHANGED <<envVars, runVars>> /\ activeVin' \in Vin \cup {NoVin}
  BY <1>1, DseeKnownEvolves, Zenon DEF ProcessDseeKnown, Listening, IInv, TypeOK
<1>2. ASSUME NEW d \in announced, NEW fresh \in BOOLEAN, NEW t \in LastUpdated(d, fresh),
             ProcessDseeNew(d, t)
      PROVE  /\ AllEvolve /\ up
             /\ UNCHANGED <<envVars, runVars>> /\ activeVin' \in Vin \cup {NoVin}
  <2>1. d.vin \in Vin /\ d.sigTime \in Nat /\ now \in Nat
    BY Zenon DEF IInv, TypeOK, Announcement
  <2>2. t \in Nat
    BY <2>1, ManAssumption DEF LastUpdated
  <2>3. AllEvolve
    BY <1>2, <2>2, DseeNewEvolves, Zenon
  <2> QED BY <1>2, <2>1, <2>3, Zenon DEF ProcessDseeNew, Listening, IInv, TypeOK
<1>3. ASSUME NEW m \in pinged, NEW locked \in BOOLEAN, ProcessDseep(m, locked)
      PROVE  /\ AllEvolve /\ up
             /\ UNCHANGED <<envVars, runVars>> /\ activeVin' \in Vin \cup {NoVin}
  BY <1>3, DseepEvolves, Zenon DEF ProcessDseep, Listening, IInv, TypeOK
<1>4. ASSUME NEW b \in voted, ProcessMvote(b)
      PROVE  /\ AllEvolve /\ up
             /\ UNCHANGED <<envVars, runVars>> /\ activeVin' \in Vin \cup {NoVin}
  BY <1>4, MvoteEvolves, Zenon DEF ProcessMvote, Listening, IInv, TypeOK
<1>5. ASSUME NEW vin \in Vin, NEW h \in Height, NEW success \in BOOLEAN,
             NEW locked \in SUBSET Vin,
             ProcessMnse(vin, [nBlockHeight |-> h, success |-> success], locked)
      PROVE  /\ AllEvolve /\ up
             /\ UNCHANGED <<envVars, runVars>> /\ activeVin' \in Vin \cup {NoVin}
  <2>1. AllEvolve
    BY <1>5, MnseEvolves, Zenon
  <2> QED BY <1>5, <2>1, Zenon DEF ProcessMnse, Listening, IInv, TypeOK
<1> QED BY <1>1, <1>2, <1>3, <1>4, <1>5, Zenon DEF ProcessMessage

\* The environment signs more messages and leaves the node alone.
EnvEffect ==
    /\ UNCHANGED <<vMasternodes, activeVin, runVars>>
    /\ now' \in Nat
    /\ announced \subseteq announced' /\ announced' \subseteq Announcement
    /\ pinged \subseteq pinged' /\ pinged' \subseteq Ping
    /\ voted \subseteq voted' /\ voted' \subseteq Ballot
    /\ acceptable' \in [Vin -> BOOLEAN] /\ confTime' \in [Vin -> Nat]

LEMMA EnvSteps ==
    ASSUME TypeOK, Env
    PROVE  EnvEffect
<1>1. CASE Tick
  BY <1>1 DEF Tick, EnvEffect, TypeOK
<1>2. ASSUME NEW vin \in Vin, ChainChange(vin)
      PROVE  EnvEffect
  <2>1. (~acceptable[vin]) \in BOOLEAN
    BY Zenon
  <2>2. CASE /\ acceptable' = [acceptable EXCEPT ![vin] = ~acceptable[vin]]
             /\ UNCHANGED confTime
    <3>1. acceptable' \in [Vin -> BOOLEAN]
      BY <2>1, <2>2, Zenon DEF TypeOK
    <3> QED BY <1>2, <2>2, <3>1, Zenon DEF ChainChange, EnvEffect, TypeOK
  <2>3. CASE /\ confTime' = [confTime EXCEPT ![vin] = IF confTime[vin] = 0 THEN now ELSE 0]
             /\ UNCHANGED acceptable
    <3>1. confTime' \in [Vin -> Nat]
      BY <2>3, Zenon DEF TypeOK
    <3> QED BY <1>2, <2>3, <3>1, Zenon DEF ChainChange, EnvEffect, TypeOK
  <2> QED BY <1>2, <2>2, <2>3, Zenon DEF ChainChange
<1>3. ASSUME NEW vin \in Vin, NEW addr \in Addr, NEW k2 \in Key2,
             NEW t \in now .. now + MaxSkew,
             Announce([vin |-> vin, addr |-> addr, pubkey |-> Owner[vin], pubkey2 |-> k2,
                       sigTime |-> t])
      PROVE  EnvEffect
  <2>1. t \in Nat /\ Owner[vin] \in Key
    BY ManAssumption DEF TypeOK
  <2>2. [vin |-> vin, addr |-> addr, pubkey |-> Owner[vin], pubkey2 |-> k2,
         sigTime |-> t] \in Announcement
    BY <2>1, Zenon DEF Announcement
  <2> QED BY <1>3, <2>2, Zenon DEF Announce, EnvEffect, TypeOK
<1>4. ASSUME NEW vin \in Vin, NEW addr \in Addr, NEW k2 \in Key2,
             NEW t \in now .. now + MaxSkew, NEW stop \in BOOLEAN,
             SignPing([vin |-> vin, addr |-> addr, pubkey2 |-> k2, sigTime |-> t,
                       stop |-> stop])
      PROVE  EnvEffect
  <2>1. t \in Nat
    BY ManAssumption DEF TypeOK
  <2>2. [vin |-> vin, addr |-> addr, pubkey2 |-> k2, sigTime |-> t, stop |-> stop] \in Ping
    BY <2>1, Zenon DEF Ping
  <2> QED BY <1>4, <2>2, Zenon DEF SignPing, EnvEffect, TypeOK
<1>5. ASSUME NEW b \in Ballot, SignVote(b)
      PROVE  EnvEffect
  BY <1>5, Zenon DEF SignVote, EnvEffect, TypeOK
<1> QED BY <1>1, <1>2, <1>3, <1>4, <1>5, Zenon DEF Env

\* What the node does by itself, a restart excepted.
LEMMA LocalSteps ==
    ASSUME IInv, Local, ~ \E locked \in SUBSET Vin : Restart(locked)
    PROVE  /\ AllEvolve /\ UNCHANGED envVars /\ up
           /\ activeVin' \in Vin \cup {NoVin} /\ up' \in BOOLEAN /\ ibd' \in BOOLEAN
           /\ crashes' \in Nat
           /\ ~up' => vMasternodes' = EmptyList
           /\ \/ mncache' = mncache \/ mncache' = Torn
              \/ mncache' = writing /\ writing # Missing
           /\ writing' \in {writing, Missing, vMasternodes}
<1> USE DEF IInv, TypeOK
<1>1. CASE \E locked \in SUBSET Vin : CheckAll(locked)
  BY <1>1, CheckAllEvolves DEF CheckAll, runVars
<1>2. CASE CheckAndRemove
  BY <1>2, CheckAndRemoveEvolves, Zenon DEF CheckAndRemove, runVars
<1>3. CASE DumpMasternodes
  BY <1>3, SameEvolves, Zenon DEF DumpMasternodes
<1>4. CASE WriteEnds
  BY <1>4, SameEvolves, Zenon DEF WriteEnds
<1>5. CASE Crash
  <2>1. AllEvolve
    BY <1>5, Zenon DEF Crash, EmptyList, AllEvolve, Evolves
  <2>2. /\ UNCHANGED envVars /\ up /\ activeVin' = NoVin /\ up' = FALSE /\ ibd' = ibd
        /\ mncache' = mncache /\ writing' = Missing /\ vMasternodes' = EmptyList
    BY <1>5, Zenon DEF Crash
  <2>3. up' \in BOOLEAN /\ ~up'
    BY <2>2, Zenon
  <2>4. crashes' \in Nat
    BY <1>5 DEF Crash
  <2> QED BY <2>1, <2>2, <2>3, <2>4, Zenon
<1>6. CASE FinishIBD
  BY <1>6, SameEvolves, Zenon DEF FinishIBD
<1> QED BY <1>1, <1>2, <1>3, <1>4, <1>5, <1>6, Zenon DEF Local

\* A list that is read again is as good as the one saved.
LEMMA RestartGood ==
    ASSUME IInv, NEW locked, Restart(locked)
    PROVE  Good(announced, pinged, voted, vMasternodes')
<1>1. CASE mncache \in {Missing, Torn}
  BY <1>1, Zenon DEF Restart, IInv, GoodNow
<1>2. CASE mncache \notin {Missing, Torn}
  <2>1. Good(announced, pinged, voted, mncache)
    BY <1>2, Zenon DEF IInv, GoodNow
  <2>2. ASSUME NEW vin \in Vin
        PROVE  Evolves(vin, mncache[vin], vMasternodes'[vin])
    <3>1. /\ mncache[vin] \in Entry \cup {NoMasternode}
          /\ mncache[vin] # NoMasternode => Sane(mncache[vin])
      BY <2>1, Zenon DEF Good, List
    <3>2. now \in Nat /\ acceptable[vin] \in BOOLEAN
      BY Zenon DEF IInv, TypeOK
    <3>3. vMasternodes'[vin] = Sweep(mncache[vin], acceptable[vin], vin \in locked)
      BY <1>2, Zenon DEF Restart
    <3> QED BY <3>1, <3>2, <3>3, SweepEvolves, Zenon
  <2>3. vMasternodes' = [vin \in Vin |-> vMasternodes'[vin]]
    BY <1>2, Zenon DEF Restart
  <2> QED BY <2>1, <2>2, <2>3, EvolvesGood, Zenon
<1> QED BY <1>1, <1>2, Zenon

\* The invariant holds initially and every step keeps it.
LEMMA InitInvariant == Init => IInv
<1> SUFFICES ASSUME Init PROVE IInv
  BY Zenon
<1>1. TypeOK
  BY ManAssumption, ModelValues DEF Init, TypeOK, EmptyList, List
<1>2. GoodNow(vMasternodes)
  BY Zenon DEF Init, GoodNow, Good, EmptyList, List
<1> QED BY <1>1, <1>2, Zenon DEF Init, IInv

LEMMA NextInvariant == IInv /\ [Next]_vars => IInv'
<1> SUFFICES ASSUME IInv, [Next]_vars PROVE IInv'
  BY Zenon
<1>1. CASE Env
  <2>1. EnvEffect
    BY <1>1, EnvSteps, Zenon DEF IInv
  <2>2. TypeOK'
    BY <2>1, Zenon DEF EnvEffect, IInv, TypeOK, runVars
  <2>3. ASSUME NEW list, GoodNow(list)
        PROVE  Good(announced', pinged', voted', list)
    BY <2>1, <2>3, GoodGrows, Zenon DEF EnvEffect, GoodNow
  <2> QED BY <2>1, <2>2, <2>3, Zenon DEF EnvEffect, IInv, GoodNow, runVars
<1>2. CASE ProcessMessage
  <2>1. /\ AllEvolve /\ UNCHANGED envVars /\ UNCHANGED runVars /\ up
        /\ activeVin' \in Vin \cup {NoVin}
    BY <1>2, MessageSteps, Zenon
  <2>2. Good(announced, pinged, voted, vMasternodes')
    BY <2>1, EvolvesGood, Zenon DEF AllEvolve, IInv, GoodNow
  <2> QED BY <2>1, <2>2, Zenon DEF IInv, TypeOK, GoodNow, Good, envVars, runVars
<1>3. CASE \E locked \in SUBSET Vin : Restart(locked)
  <2>1. PICK locked \in SUBSET Vin : Restart(locked)
    BY <1>3, Zenon
  <2>2. Good(announced, pinged, voted, vMasternodes')
    BY <2>1, RestartGood, Zenon
  <2>3. up' = TRUE /\ ibd' = TRUE /\ UNCHANGED <<envVars, activeVin, mncache, writing, crashes>>
    BY <2>1, Zenon DEF Restart
  <2> QED BY <2>2, <2>3, Zenon DEF IInv, TypeOK, GoodNow, Good, envVars
<1>4. CASE Local /\ ~ \E locked \in SUBSET Vin : Restart(locked)
  <2>1. /\ AllEvolve /\ UNCHANGED envVars /\ up
        /\ activeVin' \in Vin \cup {NoVin} /\ up' \in BOOLEAN /\ ibd' \in BOOLEAN
        /\ crashes' \in Nat
        /\ ~up' => vMasternodes' = EmptyList
        /\ \/ mncache' = mncache \/ mncache' = Torn
           \/ mncache' = writing /\ writing # Missing
        /\ writing' \in {writing, Missing, vMasternodes}
    BY <1>4, LocalSteps, Zenon
  <2>2. Good(announced, pinged, voted, vMasternodes')
    BY <2>1, EvolvesGood, Zenon DEF AllEvolve, IInv, GoodNow
  <2>3. mncache' \notin {Missing, Torn} => Good(announced, pinged, voted, mncache')
    BY <2>1, Zenon DEF IInv, GoodNow
  <2>4. writing' # Missing => Good(announced, pinged, voted, writing')
    BY <2>1, Zenon DEF IInv, GoodNow
  <2>5. vMasternodes' \in List
    BY <2>2, Zenon DEF Good
  <2> QED BY <2>1, <2>2, <2>3, <2>4, <2>5, Zenon DEF IInv, TypeOK, GoodNow, envVars
<1>5. CASE UNCHANGED vars
  BY <1>5, Zenon DEF vars, envVars, runVars, IInv, TypeOK, GoodNow
<1> QED BY <1>1, <1>2, <1>3, <1>4, <1>5, Zenon DEF Next, Local

LEMMA Invariance == Spec => []IInv
BY InitInvariant, NextInvariant, PTL DEF Spec

\* A step is a restart, from an empty list, or each entry evolves.
LEMMA NextEvolves ==
    ASSUME IInv, [Next]_vars
    PROVE  AllEvolve \/ (~up /\ vMasternodes = EmptyList)
<1>1. CASE Env
  <2>1. vMasternodes' = vMasternodes
    BY <1>1, EnvSteps, Zenon DEF IInv, EnvEffect
  <2> QED BY <2>1, SameEvolves, Zenon DEF IInv, TypeOK
<1>2. CASE ProcessMessage
  BY <1>2, MessageSteps, Zenon
<1>3. CASE \E locked \in SUBSET Vin : Restart(locked)
  BY <1>3, Zenon DEF Restart, IInv
<1>4. CASE Local /\ ~ \E locked \in SUBSET Vin : Restart(locked)
  BY <1>4, LocalSteps, Zenon
<1>5. CASE UNCHANGED vars
  <2>1. vMasternodes' = vMasternodes
    BY <1>5, Zenon DEF vars
  <2> QED BY <2>1, SameEvolves, Zenon DEF IInv, TypeOK
<1> QED BY <1>1, <1>2, <1>3, <1>4, <1>5, Zenon DEF Next

LEMMA StepLife ==
    ASSUME IInv, [Next]_vars
    PROVE  LifeStep
<1> SUFFICES ASSUME up, up', NEW vin \in Vin
             PROVE  /\ Life(vin)' \in Worse[Life(vin)]
                    /\ Life(vin) = "ABSENT" /\ Life(vin)' # "ABSENT" =>
                          /\ acceptable[vin] /\ confTime[vin] # 0
                          /\ confTime[vin] <= vMasternodes'[vin].sigTime
  BY Zenon DEF LifeStep
<1> DEFINE old == vMasternodes[vin]
           new == vMasternodes'[vin]
<1>1. Evolves(vin, old, new)
  BY NextEvolves, Zenon DEF AllEvolve
<1>2. old # NoMasternode => old \in Entry /\ Sane(old)
  BY Zenon DEF IInv, GoodNow, Good, List
<1>3. /\ Life(vin) = IF old # NoMasternode THEN old.activeState ELSE "ABSENT"
      /\ Life(vin)' = IF new # NoMasternode THEN new.activeState ELSE "ABSENT"
  BY Zenon DEF Life, Listed
<1>4. old # NoMasternode => old.activeState \in {"ENABLED", "EXPIRED", "VIN_SPENT", "REMOVE"}
  BY <1>2, EntryFields, Zenon DEF Sane, ActiveState
<1> HIDE DEF old, new
<1>5. CASE new = old
  BY <1>3, <1>4, <1>5, Zenon DEF Worse
<1>6. CASE new = NoMasternode
  BY <1>3, <1>4, <1>6, Zenon DEF Worse
<1>7. CASE old # NoMasternode /\ Changes(vin, old, new)
  <2>1. new # NoMasternode /\ new.activeState \in Worse[old.activeState]
    BY <1>7, ModelValues, Zenon DEF Changes
  <2> QED BY <1>3, <1>4, <1>7, <2>1, Zenon
<1>8. CASE old = NoMasternode /\ Enters(vin, new)
  <2>1. /\ new # NoMasternode /\ new.activeState = "ENABLED"
        /\ acceptable[vin] /\ confTime[vin] # 0 /\ confTime[vin] <= new.sigTime
    BY <1>8, ModelValues, Zenon DEF Enters
  <2>2. "ENABLED" \in Worse["ABSENT"]
    BY Zenon DEF Worse
  <2> QED BY <1>3, <1>8, <2>1, <2>2, Zenon DEF new
<1> QED BY <1>1, <1>5, <1>6, <1>7, <1>8, Zenon DEF Evolves

LEMMA StepNewest ==
    ASSUME IInv, [Next]_vars
    PROVE  NewestStep
<1> SUFFICES ASSUME NEW vin \in Vin, Listed(vin), Listed(vin)'
             PROVE  /\ vMasternodes[vin].lastDseep <= vMasternodes'[vin].lastDseep
                    /\ \/ AnnouncedFields(vMasternodes'[vin]) = AnnouncedFields(vMasternodes[vin])
                       \/ vMasternodes[vin].sigTime < vMasternodes'[vin].sigTime
  BY Zenon DEF NewestStep
<1> DEFINE old == vMasternodes[vin]
           new == vMasternodes'[vin]
<1>1. old # NoMasternode /\ new # NoMasternode
  BY Zenon DEF Listed
<1>2. Evolves(vin, old, new)
  BY <1>1, NextEvolves, Zenon DEF AllEvolve, EmptyList
<1>3. old \in Entry /\ new \in Entry
  BY <1>1, NextInvariant, Zenon DEF IInv, TypeOK, List
<1>4. old.lastDseep \in Nat /\ new.lastDseep \in Nat
  BY <1>3, EntryFields, Zenon
<1> HIDE DEF old, new
<1>5. new = old \/ Changes(vin, old, new)
  BY <1>1, <1>2, Zenon DEF Evolves
<1>6. /\ old.lastDseep <= new.lastDseep
      /\ AnnouncedFields(new) = AnnouncedFields(old) \/ old.sigTime < new.sigTime
  BY <1>4, <1>5 DEF Changes
<1> QED BY <1>6, Zenon DEF old, new

\* Every variable keeps its type: in particular no message, check or reload
\* leaves a malformed entry in the list or in mncache.dat.
THEOREM TypeCorrect == Spec => []TypeOK
BY Invariance, PTL DEF IInv

\* Entries are never a mix of two announcements, in memory or on disk, for
\* any number of masternodes, messages and crashes.
THEOREM NeverMixed == Spec => []EntriesMirrorSigned
<1>1. ASSUME NEW list, GoodNow(list)
      PROVE  ListMirrorsSigned(list)
  BY <1>1, Zenon DEF GoodNow, Good, Mirrors, ListMirrorsSigned, MirrorsSigned
<1>2. IInv => EntriesMirrorSigned
  BY <1>1, Zenon DEF IInv, EntriesMirrorSigned
<1> QED BY <1>2, Invariance, PTL

\* An entry enters ENABLED with good collateral, only gets worse, and is
\* never in POS_ERROR: ApplyScanningError's early return keeps every counter
\* below the threshold Check tests.
THEOREM OnlyWorse == Spec => LifeCycle
<1>1. IInv /\ [Next]_vars => [LifeStep]_vars
  BY StepLife, Zenon
<1>2. LifeCycle <=> [][LifeStep]_vars
  BY Zenon DEF LifeCycle
<1> QED BY <1>1, <1>2, Invariance, PTL DEF Spec

\* A delayed or repeated announcement or ping never undoes a newer one while
\* the entry stays in the list.
THEOREM NewerNeverUndone == Spec => NewestWins
<1>1. IInv /\ [Next]_vars => [NewestStep]_vars
  BY StepNewest, Zenon
<1>2. NewestWins <=> [][NewestStep]_vars
  BY Zenon DEF NewestWins
<1> QED BY <1>1, <1>2, Invariance, PTL DEF Spec
============================================================================
