\* Two requests in flight against one conversation, with failing and
\* unacknowledged writes.
CONSTANTS
    Gens = {g1, g2}
    Threads = {t1}
    Requests = {r1, r2}
    Keys = {k1, k2}
    None = None
    MaxAttempts = 2
    MaxFaults = 2
    MaxRestarts = 1
SPECIFICATION Spec
SYMMETRY Symmetric
INVARIANTS AnswerIffCompleted MessagesAccounted ContextIsCurrent NoSilentOrphan
PROPERTIES LifecycleSpec
\* Generation ids run out, so a bounded run ends.
CHECK_DEADLOCK FALSE
