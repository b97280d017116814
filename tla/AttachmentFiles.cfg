\* Two documents, two conversations, a crash, two backups, a lost file and an
\* unacknowledged commit.
CONSTANTS
    Uploads = {u1, u2}
    Threads = {t1, t2}
    None = None
    MaxCrashes = 1
    MaxBackups = 2
    MaxDamage = 1
    MaxUnacknowledged = 1
SPECIFICATION Spec
INVARIANTS RowHasFile BackupIsComplete
CHECK_DEADLOCK FALSE
