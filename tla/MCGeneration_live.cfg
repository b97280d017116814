\* Progress, under fair scheduling of coroutines and restarts.
CONSTANTS
    Gens = {g1, g2}
    Threads = {t1}
    Requests = {r1}
    Keys = {k1, k2}
    None = None
    MaxAttempts = 2
    MaxFaults = 1
    MaxRestarts = 1
SPECIFICATION FairSpec
PROPERTIES EventuallyFinal StopTakesEffect
CHECK_DEADLOCK FALSE
