-------------------------- MODULE AttachmentProofs --------------------------
(***************************************************************************)
(* AttachmentFiles, proved for every set of uploads and conversations and  *)
(* any number of crashes, backups and unacknowledged commits: a committed  *)
(* attachment has its file, and a finished backup has the file of every    *)
(* row it copied, unless the file was lost otherwise or its submission's   *)
(* commit took effect and raised.                                          *)
(***************************************************************************)
EXTENDS AttachmentFiles, TLAPS

\* What a submission knows: its file is there until its row is, and it holds
\* the write lock meanwhile; none survives the end of the process.
UploadInv(u) ==
    /\ rows[u] # None => upload[u].pc = "done" \/ (upload[u].pc = "discard" /\ u \in unacknowledged)
    /\ upload[u].pc = "staged" => u \in files
    /\ upload[u].pc \in {"inserted", "staged"} => writer = u /\ upload[u].thread \in Threads
    /\ boot.pc # "up" => upload[u].pc \in {"new", "done"}

\* A deletion only unlinks files whose rows are gone for good.
DeleteInv(t) ==
    /\ delete[t].pc \in {"idle", "done"} => delete[t].names = {}
    /\ \A u \in delete[t].names : upload[u].pc \in {"done", "discard"} /\ rows[u] \in {t, None}
    /\ delete[t].pc = "unlink" => \A u \in delete[t].names : rows[u] = None
    /\ boot.pc # "up" => delete[t].pc \in {"idle", "done"}

\* No row is added between the sweep's SELECT and its last unlink.
SweepInv == boot.pc = "sweep" => Committed \subseteq boot.referenced

\* The rows a backup copied stay the committed ones while it holds the lock.
BackupInv ==
    /\ backup.pc = "linking" =>
         /\ writer = "backup" /\ backup.rows = Committed
         /\ backup.rows \subseteq backup.linked \cup backup.todo \cup damaged \cup unacknowledged
    /\ backup.pc = "done" => backup.rows \subseteq backup.linked \cup damaged \cup unacknowledged

\* The inductive invariant.
IInv ==
    /\ TypeOK
    /\ RowHasFile
    /\ \A u \in Uploads : UploadInv(u)
    /\ \A t \in Threads : DeleteInv(t)
    /\ SweepInv
    /\ BackupInv
-----------------------------------------------------------------------------
USE FilesAssumption DEF Committed, RowsOf, NoUpload, NoDelete, NoBackup, Up, bounds, history

\* The empty installation satisfies the invariant.
LEMMA InitInv == Init => IInv
<1> SUFFICES ASSUME Init PROVE IInv
  OBVIOUS
<1>1. TypeOK
  BY DEF Init, TypeOK
<1> QED
  BY <1>1 DEF Init, IInv, RowHasFile, UploadInv, DeleteInv, SweepInv, BackupInv

\* The steps of submit_turn, whether it commits or rolls back.
LEMMA UploadPreserves ==
    ASSUME IInv, NEW u \in Uploads,
           \/ \E t \in Threads : UploadBegin(u, t)
           \/ UploadStage(u) \/ UploadCommit(u) \/ UploadCommitUnacknowledged(u)
           \/ UploadRollback(u) \/ UploadDiscard(u)
    PROVE  IInv'
<1>1. ASSUME NEW t \in Threads, UploadBegin(u, t) PROVE IInv'
  BY <1>1 DEF IInv, TypeOK, UploadBegin, RowHasFile, UploadInv, DeleteInv, SweepInv, BackupInv
<1>2. CASE UploadStage(u)
  BY <1>2 DEF IInv, TypeOK, UploadStage, RowHasFile, UploadInv, DeleteInv, SweepInv, BackupInv
<1>3. CASE UploadCommit(u)
  BY <1>3 DEF IInv, TypeOK, UploadCommit, Inserted, RowHasFile, UploadInv, DeleteInv, SweepInv, BackupInv
<1>4. CASE UploadRollback(u)
  BY <1>4 DEF IInv, TypeOK, UploadRollback, RowHasFile, UploadInv, DeleteInv, SweepInv, BackupInv
<1>5. CASE UploadDiscard(u)
  BY <1>5 DEF IInv, TypeOK, UploadDiscard, RowHasFile, UploadInv, DeleteInv, SweepInv, BackupInv
<1>6. CASE UploadCommitUnacknowledged(u)
  BY <1>6 DEF IInv, TypeOK, UploadCommitUnacknowledged, Inserted, RowHasFile, UploadInv, DeleteInv,
     SweepInv, BackupInv
<1> QED
  BY <1>1, <1>2, <1>3, <1>4, <1>5, <1>6

\* The steps of delete_thread.
LEMMA DeletePreserves ==
    ASSUME IInv, NEW t \in Threads, DeleteRead(t) \/ DeleteCommit(t) \/ DeleteFails(t) \/ DeleteUnlink(t)
    PROVE  IInv'
<1>1. CASE DeleteRead(t)
  BY <1>1 DEF IInv, TypeOK, DeleteRead, RowHasFile, UploadInv, DeleteInv, SweepInv, BackupInv
<1>2. CASE DeleteCommit(t)
  BY <1>2 DEF IInv, TypeOK, DeleteCommit, Removed, RowHasFile, UploadInv, DeleteInv, SweepInv, BackupInv
<1>3. CASE DeleteUnlink(t)
  \* What a deletion unlinks is no longer committed; nothing else changes but `delete'.
  <2>1. UNCHANGED <<open, rows, upload, boot, writer, backup, history>>
    BY <1>3 DEF DeleteUnlink, bounds
  <2>2. PICK gone \in SUBSET delete[t].names : files' = files \ gone
    BY <1>3 DEF DeleteUnlink
  <2>3. gone \cap Committed = {}
    BY <1>3, <2>2 DEF IInv, TypeOK, DeleteInv, DeleteUnlink, Committed
  <2>4. RowHasFile'
    BY <2>1, <2>2, <2>3 DEF IInv, RowHasFile, Committed
  <2>5. /\ delete' \in [Threads -> [pc : {"idle", "read", "unlink", "done"}, names : SUBSET Uploads]]
        /\ \A s \in Threads \ {t} : delete'[s] = delete[s]
        /\ delete'[t].names \subseteq delete[t].names
        /\ \/ delete'[t].pc = "unlink"
           \/ delete'[t].pc = "done" /\ delete'[t].names = {}
    BY SMTT(30), <1>3 DEF IInv, TypeOK, DeleteUnlink
  <2>6. TypeOK'
    BY <2>1, <2>2, <2>5 DEF IInv, TypeOK
  <2>7. ASSUME NEW u \in Uploads PROVE UploadInv(u)'
    <3>1. upload[u].pc = "staged" => u \notin gone
      BY <1>3, <2>2 DEF IInv, TypeOK, DeleteInv, DeleteUnlink
    <3> QED
      BY <2>1, <2>2, <3>1 DEF IInv, UploadInv
  <2>8. ASSUME NEW s \in Threads PROVE DeleteInv(s)'
    BY <1>3, <2>1, <2>5 DEF IInv, TypeOK, DeleteInv, DeleteUnlink
  <2>9. SweepInv' /\ BackupInv'
    BY <2>1 DEF IInv, SweepInv, BackupInv, Committed
  <2> QED
    BY <2>1, <2>4, <2>6, <2>7, <2>8, <2>9 DEF IInv
<1>4. CASE DeleteFails(t)
  <2>1. CASE Removed(t) /\ delete' = [delete EXCEPT ![t] = [NoDelete EXCEPT !.pc = "done"]]
    BY <1>4, <2>1 DEF IInv, TypeOK, DeleteFails, Removed, RowHasFile, UploadInv, DeleteInv, SweepInv,
       BackupInv
  <2>2. CASE delete' = [delete EXCEPT ![t] = NoDelete] /\ UNCHANGED <<open, rows>>
    BY <1>4, <2>2 DEF IInv, TypeOK, DeleteFails, RowHasFile, UploadInv, DeleteInv, SweepInv, BackupInv
  <2> QED
    BY <1>4, <2>1, <2>2 DEF DeleteFails
<1> QED
  BY <1>1, <1>2, <1>3, <1>4

\* The end of the process, the sweep of the next start, and lost files.
LEMMA ProcessPreserves ==
    ASSUME IInv,
           \/ Crash \/ SweepSelect \/ SweepDone
           \/ \E u \in Uploads : SweepUnlink(u) \/ Damage(u)
    PROVE  IInv'
<1>1. CASE Crash
  BY <1>1 DEF IInv, TypeOK, Crash, RowHasFile, UploadInv, DeleteInv, SweepInv, BackupInv
<1>2. CASE SweepSelect
  BY <1>2 DEF IInv, TypeOK, SweepSelect, RowHasFile, UploadInv, DeleteInv, SweepInv, BackupInv
<1>3. CASE SweepDone
  BY <1>3 DEF IInv, TypeOK, SweepDone, RowHasFile, UploadInv, DeleteInv, SweepInv, BackupInv
<1>4. ASSUME NEW u \in Uploads, SweepUnlink(u) PROVE IInv'
  BY <1>4 DEF IInv, TypeOK, SweepUnlink, RowHasFile, UploadInv, DeleteInv, SweepInv, BackupInv
<1>5. ASSUME NEW u \in Uploads, Damage(u) PROVE IInv'
  BY <1>5 DEF IInv, TypeOK, Damage, RowHasFile, UploadInv, DeleteInv, SweepInv, BackupInv
<1> QED
  BY <1>1, <1>2, <1>3, <1>4, <1>5

\* The steps of the host's backup.
LEMMA BackupPreserves ==
    ASSUME IInv, BackupLock \/ BackupUnlock \/ \E u \in Uploads : BackupLink(u)
    PROVE  IInv'
<1>1. CASE BackupLock
  BY <1>1 DEF IInv, TypeOK, BackupLock, RowHasFile, UploadInv, DeleteInv, SweepInv, BackupInv
<1>2. CASE BackupUnlock
  BY <1>2 DEF IInv, TypeOK, BackupUnlock, RowHasFile, UploadInv, DeleteInv, SweepInv, BackupInv
<1>3. ASSUME NEW u \in Uploads, BackupLink(u) PROVE IInv'
  <2>1. UNCHANGED <<open, rows, files, upload, delete, boot, writer, history>>
    BY <1>3 DEF BackupLink, bounds
  <2>2. /\ backup'.pc = "linking" /\ backup.pc = "linking"
        /\ backup'.rows = backup.rows
        /\ backup'.todo = backup.todo \ {u}
        /\ backup'.linked = IF u \in files THEN backup.linked \cup {u} ELSE backup.linked
        /\ backup' \in [pc : {"idle", "linking", "done"}, rows : SUBSET Uploads,
                        linked : SUBSET Uploads, todo : SUBSET Uploads]
    BY <1>3 DEF IInv, TypeOK, BackupLink
  <2>3. TypeOK'
    BY <2>1, <2>2 DEF IInv, TypeOK
  \* A row whose file the link does not find lost it.
  <2>4. BackupInv'
    BY <2>1, <2>2 DEF IInv, BackupInv, RowHasFile, Committed
  <2> QED
    BY <2>1, <2>3, <2>4 DEF IInv, RowHasFile, UploadInv, DeleteInv, SweepInv, Committed
<1> QED
  BY <1>1, <1>2, <1>3

\* Every step preserves the invariant.
LEMMA NextInv == IInv /\ [Next]_vars => IInv'
<1> SUFFICES ASSUME IInv, [Next]_vars PROVE IInv'
  OBVIOUS
<1>1. CASE UNCHANGED vars
  BY <1>1 DEF vars, IInv, TypeOK, RowHasFile, UploadInv, DeleteInv, SweepInv, BackupInv
<1> QED
  BY <1>1, UploadPreserves, DeletePreserves, ProcessPreserves, BackupPreserves DEF Next

\* The invariant holds in every reachable state.
THEOREM Invariance == Spec => []IInv
  BY InitInv, NextInv, PTL DEF Spec

\* No order of uploads, deletions, crashes and sweeps separates a committed
\* attachment from its file (submit_turn, delete_thread, sweep_orphan_attachments),
\* with one exception in Oveo: a submission whose commit took effect and raised.
THEOREM AttachmentsKeepTheirFiles == Spec => []RowHasFile
<1>1. IInv => RowHasFile
  BY DEF IInv
<1> QED
  BY <1>1, Invariance, PTL

\* A finished backup holds the file of every row in its copy of the database
\* (create_archive links under the write lock), with the same exception.
THEOREM BackupsAreComplete == Spec => []BackupIsComplete
<1>1. IInv => BackupIsComplete
  BY DEF IInv, BackupInv, BackupIsComplete
<1> QED
  BY <1>1, Invariance, PTL
=============================================================================
