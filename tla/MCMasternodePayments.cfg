CONSTANTS
    m1 = m1  m2 = m2  m3 = m3  s1 = s1  s2 = s2  s3 = s3  donation = donation
    Vin = {m1, m2, m3}
    Script = {s1, s2, s3, donation}
    Payees <- MCPayees
    Score <- MCScore
    Born <- MCBorn
    Master = TRUE
    Others <- MCOthers
    Ahead = 2
    Back = 2
    Forward = 4
    NoPayee = NoPayee
    Limit = 3
    MaxTip = 7
    MaxRestarts = 1
    MaxToggles = 1
SPECIFICATION MCSpec
INVARIANTS TypeOK  BestSeenWins OneWinnerPerHeight
PROPERTIES ImplementsRegister
CHECK_DEADLOCK FALSE
