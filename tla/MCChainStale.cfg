CONSTANTS
    g = g  a1 = a1  a2 = a2  b1 = b1  b2 = b2  b3 = b3
    Block = {g, b1, b2, b3}
    Genesis = g
    Path <- MCPath
    Work <- MCWork
    Doubtful = {}
    net = net  rpc = rpc
    Thread = {net, rpc}
    StartThread = net
    NoBlock = NoBlock
    NoStep = NoStep
    MaxCommands = 0
    MaxWrites = 0
    MaxCrashes = 0
SPECIFICATION MCSpec
INVARIANTS BestChainResult
CHECK_DEADLOCK FALSE
