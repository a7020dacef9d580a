CONSTANTS
    MASTERNODE_MIN_DSEE_SECONDS = 1
    MASTERNODE_MIN_DSEEP_SECONDS = 2
    Hour = 3
    MASTERNODE_EXPIRATION_SECONDS = 4
    MASTERNODE_REMOVAL_SECONDS = 5
    v1 = v1  k1 = k1  k2 = k2  a1 = a1  h1 = h1  h2 = h2  h3 = h3
    Vin = {v1}
    Addr = {a1}
    Key = {k1, k2}
    Key2 = {h1, h2, h3}
    Owner <- MCOwner
    Misconfigured = {}
    MyKey = h1
    NoKey = NoKey
    NoVin = NoVin
    NoMasternode = NoMasternode
    Unstable = {v1}
    Vote = {1}
    Height = {1}
    Start = 5
    MaxTime = 10
    MaxSkew = 0
    MaxAnnounced = 2
    MaxPinged = 2
    MaxVoted = 1
    MaxCrashes = 1
    Missing = Missing
    Torn = Torn
SPECIFICATION MCSpec
INVARIANTS TypeOK 
PROPERTIES LifeCycle NewestWins SpentLeaves
CHECK_DEADLOCK FALSE
