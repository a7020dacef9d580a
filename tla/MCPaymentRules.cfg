SPECIFICATION MCSpec
CONSTANTS
    nodeA = nodeA
    nodeB = nodeB
    mnP = mnP
    mnQ = mnQ
    minerA = minerA
    minerB = minerB
    Treasury = Treasury
    Commitment = Commitment
    NoPayee = NoPayee
    NoBlock = NoBlock
    Node <- MCNode
    Payee <- MCPayee
    Score <- MCScore
    Miner <- MCMiner
    Share <- MCShare
    Base = {0, 1, 2, 3, 4, 5, 6, 7, 8, 9}
    Fees = {0, 10, 60}
    Premine = 8250
    Subsidy = 200
    PRE_SUBSIDY_HEIGHT = 2
    StartHeight = 4
    AssuredHeight = 5
    BandHeight = 7
    LastSubsidyHeight = 9
    MaxHeight = 11
    MaxLength = 2
    MaxBlocks = 3
    MaxVotes = 2
    MaxChanges = 1
INVARIANTS TypeOK  Agreement WinnersPaid
CHECK_DEADLOCK FALSE
