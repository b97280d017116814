\* Two requests in flight: both may pass _is_retryable before either inserts.
CONSTANTS
    Gens = {g1, g2, g3}
    Threads = {t1}
    Requests = {r1, r2}
    Keys = {k1, k2, k3}
    None = None
    MaxAttempts = 1
    MaxFaults = 0
    MaxRestarts = 0
SPECIFICATION Spec
SYMMETRY Symmetric
INVARIANTS OneAnswerPerTurn
CHECK_DEADLOCK FALSE
