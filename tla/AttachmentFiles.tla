--------------------------- MODULE AttachmentFiles ---------------------------
(***************************************************************************)
(* Uploaded documents live in two places: a row of `attachments' and a     *)
(* file named after it.  Four actors keep the two together without a       *)
(* common transaction: a submission stages the file inside its write       *)
(* transaction, a deletion unlinks files after its commit, startup sweeps  *)
(* files no row names, and the host's backup copies both while it holds    *)
(* SQLite's write lock.  The process may end between any two steps, and a  *)
(* commit may report an error (or be cancelled) after it took effect.      *)
(*                                                                         *)
(* Each submission uploads one document of its own into a conversation.    *)
(***************************************************************************)
EXTENDS Naturals, FiniteSets

CONSTANTS
    Uploads,      \* submissions with a document; also its storage name
    Threads,      \* conversations
    None,         \* nobody
    MaxCrashes,   \* bound: ends of the process
    MaxBackups,   \* bound: backups taken
    MaxDamage,    \* bound: files lost to something else
    MaxUnacknowledged  \* bound: submissions whose commit took effect and raised

ASSUME FilesAssumption ==
    /\ None \notin Uploads \cup Threads /\ "backup" \notin Uploads \cup {None}
    /\ MaxCrashes \in Nat /\ MaxBackups \in Nat /\ MaxDamage \in Nat
    /\ MaxUnacknowledged \in Nat

VARIABLES
    open,       \* conversations that exist
    rows,       \* committed attachment rows: [Uploads -> Threads \cup {None}]
    files,      \* files in the attachments directory
    upload,     \* where a submission is, and its conversation
    delete,     \* where the deletion of a conversation is, and the names it read
    boot,       \* "sweep" (with the rows it read) or "up"
    writer,     \* who holds the database's write lock
    backup,     \* the running backup, or the last one
    damaged,    \* history: files that were lost
    unacknowledged,  \* history: uploads whose commit took effect and raised
    crashes, backups

history == <<damaged, unacknowledged>>
bounds == <<history, crashes, backups>>
vars == <<open, rows, files, upload, delete, boot, writer, backup, bounds>>

Committed == {u \in Uploads : rows[u] # None}
RowsOf(t) == {u \in Uploads : rows[u] = t}
NoUpload == [pc |-> "new", thread |-> None]
NoDelete == [pc |-> "idle", names |-> {}]
NoBackup == [pc |-> "idle", rows |-> {}, linked |-> {}, todo |-> {}]
Up == [pc |-> "up", referenced |-> {}]

Init ==
    /\ open = Threads
    /\ rows = [u \in Uploads |-> None]
    /\ files = {}
    /\ upload = [u \in Uploads |-> NoUpload]
    /\ delete = [t \in Threads |-> NoDelete]
    /\ boot = Up /\ writer = None /\ backup = NoBackup
    /\ damaged = {} /\ unacknowledged = {} /\ crashes = 0 /\ backups = 0

-----------------------------------------------------------------------------
(* submit_turn                                                             *)

\* The INSERT of the message takes the write lock.
UploadBegin(u, t) ==
    /\ boot.pc = "up" /\ upload[u].pc = "new" /\ t \in open /\ writer = None
    /\ writer' = u
    /\ upload' = [upload EXCEPT ![u] = [pc |-> "inserted", thread |-> t]]
    /\ UNCHANGED <<open, rows, files, delete, boot, backup, bounds>>

\* persist_attachment
UploadStage(u) ==
    /\ upload[u].pc = "inserted"
    /\ files' = files \cup {u}
    /\ upload' = [upload EXCEPT ![u].pc = "staged"]
    /\ UNCHANGED <<open, rows, delete, boot, writer, backup, bounds>>

\* The commit takes effect: the row is there and the lock is free.
Inserted(u) ==
    /\ upload[u].pc = "staged"
    /\ rows' = [rows EXCEPT ![u] = upload[u].thread]
    /\ writer' = None
    /\ UNCHANGED <<open, files, delete, boot, backup, damaged, crashes, backups>>

UploadCommit(u) ==
    /\ Inserted(u)
    /\ upload' = [upload EXCEPT ![u].pc = "done"]
    /\ UNCHANGED unacknowledged

\* The commit takes effect and raises, or the request is cancelled in it:
\* staged_files is never cleared, so the finally will unlink the file.
UploadCommitUnacknowledged(u) ==
    /\ Cardinality(unacknowledged) < MaxUnacknowledged
    /\ Inserted(u)
    /\ upload' = [upload EXCEPT ![u].pc = "discard"]
    /\ unacknowledged' = unacknowledged \cup {u}

\* An error before the commit rolls back and frees the lock; the file is
\* removed afterwards.
UploadRollback(u) ==
    /\ upload[u].pc \in {"inserted", "staged"}
    /\ writer' = None
    /\ upload' = [upload EXCEPT ![u].pc = "discard"]
    /\ UNCHANGED <<open, rows, files, delete, boot, backup, bounds>>

\* submit_turn's finally: whatever is still staged is unlinked, also the file
\* of a row that was committed without the submission learning of it.
UploadDiscard(u) ==
    /\ upload[u].pc = "discard"
    /\ files' = files \ {u}
    /\ upload' = [upload EXCEPT ![u].pc = "done"]
    /\ UNCHANGED <<open, rows, delete, boot, writer, backup, bounds>>

-----------------------------------------------------------------------------
(* delete_thread                                                           *)

DeleteRead(t) ==
    /\ boot.pc = "up" /\ delete[t].pc = "idle" /\ t \in open
    /\ delete' = [delete EXCEPT ![t] = [pc |-> "read", names |-> RowsOf(t)]]
    /\ UNCHANGED <<open, rows, files, upload, boot, writer, backup, bounds>>

\* Mutant: files are removed before the rows are.
DeleteCommitUnlinkFirst(t) ==
    /\ delete[t].pc = "read" /\ delete[t].names # {}
    /\ files' = files \ delete[t].names
    /\ delete' = [delete EXCEPT ![t].pc = "unlink"]
    /\ UNCHANGED <<open, rows, upload, boot, writer, backup, bounds>>

\* The DELETE, its cascade and the commit.
Removed(t) ==
    /\ writer = None
    /\ open' = open \ {t}
    /\ rows' = [u \in Uploads |-> IF rows[u] = t THEN None ELSE rows[u]]

DeleteCommit(t) ==
    /\ delete[t].pc = "read"
    /\ Removed(t)
    /\ delete' = [delete EXCEPT ![t].pc = "unlink"]
    /\ UNCHANGED <<files, upload, boot, writer, backup, bounds>>

\* The write or its commit raises, with or without effect: no file is unlinked.
DeleteFails(t) ==
    /\ delete[t].pc = "read"
    /\ \/ Removed(t) /\ delete' = [delete EXCEPT ![t] = [NoDelete EXCEPT !.pc = "done"]]
       \/ delete' = [delete EXCEPT ![t] = NoDelete] /\ UNCHANGED <<open, rows>>
    /\ UNCHANGED <<files, upload, boot, writer, backup, bounds>>

\* One file after the other; one that cannot be removed is left to the sweep.
DeleteUnlink(t) ==
    /\ delete[t].pc = "unlink"
    /\ \/ \E u \in delete[t].names :
             /\ \E gone \in {{u}, {}} : files' = files \ gone
             /\ delete' = [delete EXCEPT ![t].names = @ \ {u}]
       \/ /\ delete[t].names = {}
          /\ delete' = [delete EXCEPT ![t].pc = "done"]
          /\ UNCHANGED files
    /\ UNCHANGED <<open, rows, upload, boot, writer, backup, bounds>>

-----------------------------------------------------------------------------
(* The process ends; startup sweeps before the first request.              *)

Crash ==
    /\ crashes < MaxCrashes /\ crashes' = crashes + 1
    /\ upload' = [u \in Uploads |->
                    IF upload[u].pc = "new" THEN NoUpload ELSE [upload[u] EXCEPT !.pc = "done"]]
    /\ delete' = [t \in Threads |-> IF t \in open THEN NoDelete ELSE [NoDelete EXCEPT !.pc = "done"]]
    /\ writer' = IF writer = "backup" THEN writer ELSE None
    /\ boot' = [pc |-> "select", referenced |-> {}]
    /\ UNCHANGED <<open, rows, files, backup, history, backups>>

SweepSelect ==
    /\ boot.pc = "select"
    /\ boot' = [pc |-> "sweep", referenced |-> Committed]
    /\ UNCHANGED <<open, rows, files, upload, delete, writer, backup, bounds>>

SweepUnlink(u) ==
    /\ boot.pc = "sweep" /\ u \in files \ boot.referenced
    /\ files' = files \ {u}
    /\ UNCHANGED <<open, rows, upload, delete, boot, writer, backup, bounds>>

\* Also with files it could not remove.
SweepDone ==
    /\ boot.pc = "sweep"
    /\ boot' = Up
    /\ UNCHANGED <<open, rows, files, upload, delete, writer, backup, bounds>>

\* A file is lost (a disk error, a stray rm).
Damage(u) ==
    /\ u \in files \cap Committed
    /\ Cardinality(damaged) < MaxDamage
    /\ files' = files \ {u} /\ damaged' = damaged \cup {u}
    /\ UNCHANGED <<open, rows, upload, delete, boot, writer, backup, unacknowledged, crashes,
                   backups>>

-----------------------------------------------------------------------------
(* backup_tool.py create                                                   *)

\* Mutant: the lock only covers the copy of the database.
BackupLockBriefly ==
    /\ backup.pc \in {"idle", "done"} /\ backups < MaxBackups /\ writer = None
    /\ backups' = backups + 1
    /\ backup' = [pc |-> "linking", rows |-> Committed, linked |-> {}, todo |-> Committed]
    /\ UNCHANGED <<open, rows, files, upload, delete, boot, writer, history, crashes>>

\* BEGIN IMMEDIATE and the copy of the database.
BackupLock ==
    /\ backup.pc \in {"idle", "done"} /\ backups < MaxBackups /\ writer = None
    /\ backups' = backups + 1
    /\ writer' = "backup"
    /\ backup' = [pc |-> "linking", rows |-> Committed, linked |-> {}, todo |-> Committed]
    /\ UNCHANGED <<open, rows, files, upload, delete, boot, history, crashes>>

BackupLink(u) ==
    /\ backup.pc = "linking" /\ u \in backup.todo
    /\ backup' = [backup EXCEPT !.todo = @ \ {u},
                                !.linked = IF u \in files THEN @ \cup {u} ELSE @]
    /\ UNCHANGED <<open, rows, files, upload, delete, boot, writer, bounds>>

BackupUnlock ==
    /\ backup.pc = "linking" /\ backup.todo = {}
    /\ backup' = [backup EXCEPT !.pc = "done"]
    /\ writer' = None
    /\ UNCHANGED <<open, rows, files, upload, delete, boot, bounds>>

Next ==
    \/ \E u \in Uploads :
         \/ \E t \in Threads : UploadBegin(u, t)
         \/ UploadStage(u) \/ UploadCommit(u) \/ UploadCommitUnacknowledged(u)
         \/ UploadRollback(u) \/ UploadDiscard(u) \/ SweepUnlink(u) \/ Damage(u) \/ BackupLink(u)
    \/ \E t \in Threads : DeleteRead(t) \/ DeleteCommit(t) \/ DeleteFails(t) \/ DeleteUnlink(t)
    \/ Crash \/ SweepSelect \/ SweepDone \/ BackupLock \/ BackupUnlock

Spec == Init /\ [][Next]_vars
-----------------------------------------------------------------------------
\* Every variable keeps its type.
TypeOK ==
    /\ open \subseteq Threads /\ files \subseteq Uploads
    /\ rows \in [Uploads -> Threads \cup {None}]
    /\ upload \in [Uploads -> [pc : {"new", "inserted", "staged", "discard", "done"},
                               thread : Threads \cup {None}]]
    /\ delete \in [Threads -> [pc : {"idle", "read", "unlink", "done"}, names : SUBSET Uploads]]
    /\ boot \in [pc : {"select", "sweep", "up"}, referenced : SUBSET Uploads]
    /\ writer \in Uploads \cup {None, "backup"}
    /\ backup \in [pc : {"idle", "linking", "done"}, rows : SUBSET Uploads,
                   linked : SUBSET Uploads, todo : SUBSET Uploads]
    /\ damaged \subseteq Uploads /\ unacknowledged \subseteq Uploads

\* A committed attachment has its file, whatever the order of uploads,
\* deletions, crashes and sweeps (submit_turn's finally, sweep_orphan_attachments).
\* The exceptions are files something else lost, and submissions whose commit
\* took effect and raised: those the finally itself takes the file from.
RowHasFile == Committed \subseteq files \cup damaged \cup unacknowledged

\* A backup taken at any moment holds the file of every row it copied, with the
\* same two exceptions: the lock is held until the last link, so nothing that
\* removes files by the rules comes between the copy and the links.
BackupIsComplete ==
    backup.pc = "done" => backup.rows \subseteq backup.linked \cup damaged \cup unacknowledged
=============================================================================
