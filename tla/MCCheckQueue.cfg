CONSTANTS
    w1 = w1  w2 = w2  master = master
    Worker = {w1, w2}
    Master = master
    Check = {1, 2, 3, 4}
    nBatchSize = 2
SPECIFICATION MCSpec
INVARIANTS AssertIdle VerdictIsRight BatchesAreDisjoint WakeUpIsNotLost
PROPERTIES VerdictComes
