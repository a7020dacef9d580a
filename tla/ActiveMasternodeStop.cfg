CONSTANTS
    NoMasternode = NoMasternode
    MaxMissed = 3
    MaxNet = 1
    MASTERNODE_MIN_DSEE_SECONDS = 1
    MASTERNODE_MIN_DSEEP_SECONDS = 2
    MASTERNODE_EXPIRATION_SECONDS = 4
    MASTERNODE_REMOVAL_SECONDS = 5
SPECIFICATION Spec
PROPERTY StopHolds
