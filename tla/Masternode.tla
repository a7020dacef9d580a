----------------------------- MODULE Masternode -----------------------------
(***************************************************************************)
(* CMasternode: one entry of the masternode list, as a record, and the     *)
(* methods that read or change it.  Left out of the record: the signature  *)
(* and the protocol version (an entry is only made from an announcement    *)
(* whose signature and version were accepted), the donation fields, the    *)
(* input age cache and the fields of the disabled darksend code.           *)
(***************************************************************************)
EXTENDS Integers

CONSTANTS
    MASTERNODE_MIN_DSEE_SECONDS,    \* least time between two announcements
    MASTERNODE_MIN_DSEEP_SECONDS,   \* least time between two pings
    MASTERNODE_EXPIRATION_SECONDS,  \* silence that expires an entry
    MASTERNODE_REMOVAL_SECONDS      \* silence that removes it

\* masternode.h defines 10, 30, 65 and 70 minutes.
ASSUME SecondsAssumption ==
    /\ MASTERNODE_MIN_DSEE_SECONDS \in Nat \ {0}
    /\ MASTERNODE_MIN_DSEEP_SECONDS \in Nat
    /\ MASTERNODE_EXPIRATION_SECONDS \in Nat
    /\ MASTERNODE_REMOVAL_SECONDS \in Nat
    /\ MASTERNODE_MIN_DSEE_SECONDS < MASTERNODE_MIN_DSEEP_SECONDS
    /\ MASTERNODE_MIN_DSEEP_SECONDS < MASTERNODE_EXPIRATION_SECONDS
    /\ MASTERNODE_EXPIRATION_SECONDS < MASTERNODE_REMOVAL_SECONDS

\* Mutant: one error is enough.
ThresholdOne == 1

MASTERNODE_SCANNING_ERROR_THESHOLD == 6

ActiveState == {"ENABLED", "EXPIRED", "VIN_SPENT", "REMOVE", "POS_ERROR"}

\* The fields an announcement (dsee) signs, for the entry or message x.
AnnouncedFields(x) ==
    [addr |-> x.addr, pubkey |-> x.pubkey, pubkey2 |-> x.pubkey2, sigTime |-> x.sigTime]

\* The constructor.
NewMasternode(d) ==
    [addr |-> d.addr, pubkey |-> d.pubkey, pubkey2 |-> d.pubkey2, sigTime |-> d.sigTime,
     activeState |-> "ENABLED", lastDseep |-> 0, lastTimeSeen |-> 0,
     nVote |-> 0, lastVote |-> 0,
     nScanningErrorCount |-> 0, nLastScanningErrorBlockHeight |-> 0]

\* An override of 0 stands for "no override".
UpdateLastSeen(mn, now, override) ==
    [mn EXCEPT !.lastTimeSeen = IF override = 0 THEN now ELSE override]

UpdatedWithin(mn, now, seconds) == now - mn.lastTimeSeen < seconds

\* Mutant: -1 for "never".
DisableMinusOne(mn) == [mn EXCEPT !.lastTimeSeen = -1]

Disable(mn) == [mn EXCEPT !.lastTimeSeen = 0]

IsEnabled(mn) == mn.activeState = "ENABLED"

\* Mutant: the count may go below 0.
ApplyScanningErrorNoFloor(mn, mnse) ==
    IF mnse.nBlockHeight = mn.nLastScanningErrorBlockHeight THEN mn
    ELSE LET n == mn.nScanningErrorCount
             count == IF mnse.success THEN n - 1 ELSE IF n + 1 >= 4 THEN 0 ELSE n + 1
         IN [mn EXCEPT !.nLastScanningErrorBlockHeight = mnse.nBlockHeight,
                       !.nScanningErrorCount = count]

\* One report per block height counts.  The count returns to 0 on the fourth
\* error in excess of the successes.
ApplyScanningError(mn, mnse) ==
    IF mnse.nBlockHeight = mn.nLastScanningErrorBlockHeight THEN mn
    ELSE LET n == mn.nScanningErrorCount
             count == IF mnse.success THEN IF n > 0 THEN n - 1 ELSE 0
                      ELSE IF n + 1 >= 4 THEN 0 ELSE n + 1
         IN [mn EXCEPT !.nLastScanningErrorBlockHeight = mnse.nBlockHeight,
                       !.nScanningErrorCount = count]

\* Mutant: the last assignment is reached.
CheckStateEnables(mn, now, acceptable) ==
    IF mn.nScanningErrorCount >= MASTERNODE_SCANNING_ERROR_THESHOLD THEN "POS_ERROR"
    ELSE IF mn.activeState = "VIN_SPENT" THEN "VIN_SPENT"
    ELSE IF ~UpdatedWithin(mn, now, MASTERNODE_REMOVAL_SECONDS) THEN "REMOVE"
    ELSE IF ~UpdatedWithin(mn, now, MASTERNODE_EXPIRATION_SECONDS) THEN "EXPIRED"
    ELSE IF ~acceptable THEN "VIN_SPENT"
    ELSE "ENABLED"

\* Mutant: the collateral is not looked at.
CheckStateNoInputs(mn, now, acceptable) ==
    IF mn.nScanningErrorCount >= MASTERNODE_SCANNING_ERROR_THESHOLD THEN "POS_ERROR"
    ELSE IF ~UpdatedWithin(mn, now, MASTERNODE_REMOVAL_SECONDS) THEN "REMOVE"
    ELSE IF ~UpdatedWithin(mn, now, MASTERNODE_EXPIRATION_SECONDS) THEN "EXPIRED"
    ELSE mn.activeState

\* Check(), once it has cs_main.  `acceptable` is the verdict of
\* AcceptableInputs on a transaction that spends the collateral.  Nothing
\* leads back to ENABLED: the code returns before that assignment.
CheckState(mn, now, acceptable) ==
    IF mn.nScanningErrorCount >= MASTERNODE_SCANNING_ERROR_THESHOLD THEN "POS_ERROR"
    ELSE IF mn.activeState = "VIN_SPENT" THEN "VIN_SPENT"
    ELSE IF ~UpdatedWithin(mn, now, MASTERNODE_REMOVAL_SECONDS) THEN "REMOVE"
    ELSE IF ~UpdatedWithin(mn, now, MASTERNODE_EXPIRATION_SECONDS) THEN "EXPIRED"
    ELSE IF ~acceptable THEN "VIN_SPENT"
    ELSE mn.activeState

\* Check() gives up when it cannot have cs_main at once.
Check(mn, now, acceptable, locked) ==
    IF locked THEN [mn EXCEPT !.activeState = CheckState(mn, now, acceptable)] ELSE mn
=============================================================================
