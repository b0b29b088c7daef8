SPECIFICATION LiveSpec
CONSTANTS
    t1 = t1  t2 = t2  t3 = t3  t4 = t4
    chanop = chanop  seen = seen
    NoTimer = NoTimer
    Timer = {t1, t2, t3}
    Module = {chanop, seen}
    MaxTime = 2
    MaxLate = 1
INVARIANTS
    TailSorted
    LoopPointersListed
    DueWaitsForHead
PROPERTY EveryTimerGoes
