CONSTANTS
    a = a  b = b  c = c
    NoSpork = NoSpork
    Node = {a, b, c}
    Signer = {a}
    Lite = {}
    Link <- LineLink
    SporkID = {10000}
    Value = {1, 2}
    Foreign <- OneForeign
    Pad = {0, 1}
    Skew <- NoSkew
    MaxTime = 1
    MaxUpdates = 2
    MaxRequested = 3
SPECIFICATION MCSpec
INVARIANTS TypeOK ActiveIsSignedAndServed QuietIsSettled
PROPERTIES NeverBackInTime Convergence
CHECK_DEADLOCK FALSE
