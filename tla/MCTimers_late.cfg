SPECIFICATION Spec
CONSTANTS
    t1 = t1  t2 = t2  t3 = t3  t4 = t4
    chanop = chanop  seen = seen
    NoTimer = NoTimer
    Timer = {t1, t2}
    Module = {chanop, seen}
    MaxTime = 8
    MaxLate = 5
SYMMETRY Interchangeable
INVARIANT SecondsLate
