CONSTANTS
    g = g  a1 = a1  a2 = a2  b1 = b1  b2 = b2  b3 = b3
    Block = {g, a1, a2, b1, b2, b3}
    Genesis = g
    Path <- MCPath
    Work <- MCWork
    Doubtful = {b2}
    net = net  rpc = rpc
    Thread = {net, rpc}
    StartThread = net
    NoBlock = NoBlock
    NoStep = NoStep
    MaxCommands = 1
    MaxWrites = 2
    MaxCrashes = 1
SPECIFICATION MCSpec
INVARIANTS DiskContinues  BestChainActive NeverAborts
 
CHECK_DEADLOCK FALSE
