\* Two attempts at an account and an unknown name, a reset, an expiring window.
SPECIFICATION FairSpec
CONSTANTS
    Attempts = {a1, a2}
    Accounts = {charles}
    Strangers = {nobody}
    Clients = {c1}
    LoginAttempts = 2
    Window = 2
    LockTime = 2
    SessionTime = 1
    ClientLimit = 2
    GlobalLimit = 3
    MaxTracked = 1
    MaxWaiting = 2
    MaxPending = 1
    MaxVersion = 2
    MaxTime = 3
INVARIANTS CounterIsExact GuessesBounded ResetEndsOldSessions
PROPERTY AttemptsEnd
CHECK_DEADLOCK FALSE
