--------------------------- MODULE HostMaintenance ---------------------------
(***************************************************************************)
(* The host scripts that move the data of a running Oveo: oveo-deploy.sh   *)
(* (with its snapshot and undo of a migrating release), oveo-restore.sh,   *)
(* oveo-backup.sh, and the write gate (MaintenanceGate) they put in front  *)
(* of the application.                                                     *)
(*                                                                         *)
(* One command of a script that changes the host is one step; a script may *)
(* be killed, the host rebooted, or the next command fail, between any     *)
(* two.  The scripts take one lock, so at most one runs; install-host.sh   *)
(* does not take it.  A data directory is the user writes in its database, *)
(* the schema revision, and whether it holds the marker file; revisions    *)
(* are numbered along the single line of migrations.  An image is known by *)
(* the newest revision it lists.                                           *)
(***************************************************************************)
EXTENDS Naturals, Sequences, FiniteSets

CONSTANTS
    Images,      \* immutable image digests
    HeadOf,        \* [Images -> Nat]: the newest revision an image lists
    None,        \* no image recorded
    Faults,      \* what may go wrong: "kill", "reboot", "stop", "error"
    MaxFaults,   \* bound: how often (StopFails uses it up)
    MaxWrites,   \* bound: user writes
    MaxRuns      \* bound: scripts started

ASSUME HostAssumption ==
    /\ HeadOf \in [Images -> Nat \ {0}] /\ None \notin Images
    /\ Faults \subseteq {"kill", "reboot", "stop", "error"}
    /\ MaxFaults \in Nat /\ MaxWrites \in Nat /\ MaxRuns \in Nat

VARIABLES
    dirs,        \* the directories /var/lib/oveo and /var/lib/oveo.KIND.STAMP
    env,         \* OVEO_IMAGE in deploy.env
    app,         \* the container: state, image, and the directory it mounted
    inflight,    \* a write that passed the gate and is not committed yet
    script,      \* the running script: pc and its shell variables
    backups,     \* stored backups
    written,     \* history: number of acknowledged user writes
    expected,    \* history: the writes users must find
    leftBy,      \* history: the last script that did not run to its end
    startedEmpty,  \* history: a failed restore put a directory without a database
                 \* back and started Oveo on it
    runs, faults

host == <<dirs, env, app, inflight>>
history == <<written, expected, leftBy, startedEmpty>>
vars == <<host, script, backups, history, runs, faults>>

Live == <<"live", 0>>
Sibling(kind) == <<kind, runs>>
Kinds == {"predeploy", "failed-deploy", "restore", "pre-restore", "failed-restore"}

Empty == [db |-> FALSE, writes |-> {}, rev |-> 0, marker |-> FALSE]
NoScript == [pc |-> "none", name |-> "none", image |-> None, previous |-> None,
             migrating |-> FALSE, backup |-> Empty]

Exists(n) == n \in DOMAIN dirs
Put(n, dir) == [m \in DOMAIN dirs \cup {n} |-> IF m = n THEN dir ELSE dirs[m]]
Remove(n) == [m \in DOMAIN dirs \ {n} |-> dirs[m]]
Marked(n, on) == [dirs EXCEPT ![n].marker = on]

\* Oveo serves on an installed host.
Init ==
    /\ \E i \in Images :
         /\ env = i
         /\ app = [state |-> "serving", image |-> i, on |-> Live]
         /\ dirs = [n \in {Live} |-> [Empty EXCEPT !.db = TRUE, !.rev = HeadOf[i]]]
    /\ inflight = FALSE /\ script = NoScript /\ backups = <<>>
    /\ written = 0 /\ expected = {} /\ leftBy = "none" /\ startedEmpty = FALSE
    /\ runs = 0 /\ faults = 0

-----------------------------------------------------------------------------
(* The application and docker.                                             *)

Gated(n) == dirs[n].marker
Stops == app' = [app EXCEPT !.state = "stopped"] /\ inflight' = FALSE

\* compose up: a container that already runs this image is left alone; else
\* one is started on what is now called /var/lib/oveo.
Up(i) ==
    IF app.state # "stopped" /\ app.image = i THEN UNCHANGED <<app, inflight>>
    ELSE app' = [state |-> "starting", image |-> i, on |-> Live] /\ inflight' = FALSE

\* container-entrypoint.sh migrates (or creates) the database, then serves.
AppMigrates ==
    LET dir == dirs[app.on] IN
    /\ app.state = "starting" /\ (~dir.db \/ dir.rev < HeadOf[app.image])
    /\ dirs' = [dirs EXCEPT ![app.on].db = TRUE, ![app.on].rev = HeadOf[app.image]]
    /\ UNCHANGED <<env, app, inflight, script, backups, history, runs, faults>>

AppServes ==
    LET dir == dirs[app.on] IN
    /\ app.state = "starting" /\ dir.db /\ dir.rev = HeadOf[app.image]
    /\ app' = [app EXCEPT !.state = "serving"]
    /\ UNCHANGED <<dirs, env, inflight, script, backups, history, runs, faults>>

\* MaintenanceGate looks at the marker before the request is handled.
WritePasses ==
    /\ app.state = "serving" /\ ~Gated(app.on) /\ ~inflight /\ written < MaxWrites
    /\ inflight' = TRUE
    /\ UNCHANGED <<dirs, env, app, script, backups, history, runs, faults>>

WriteCommits ==
    /\ inflight
    /\ written' = written + 1
    /\ dirs' = [dirs EXCEPT ![app.on].writes = @ \cup {written + 1}]
    /\ expected' = expected \cup {written + 1}
    /\ inflight' = FALSE
    /\ UNCHANGED <<env, app, script, backups, leftBy, startedEmpty, runs, faults>>

-----------------------------------------------------------------------------
(* Scripts: what they have in common.                                      *)

\* The lock is free.
Begin(s) == script.pc = "none" /\ runs < MaxRuns /\ runs' = runs + 1 /\ script' = s
Goto(pc) == script' = [script EXCEPT !.pc = pc]
Done == script' = NoScript

\* One command of the running script; nothing else of the host changes.
Command(pc) == script.pc = pc /\ UNCHANGED <<backups, runs, faults>>

\* mv -T: the directory, and a container that mounted it, under a new name.  It
\* does not replace one that install-host.sh has filled with subdirectories.
Rename(from, to) ==
    /\ Exists(from) /\ ~Exists(to)
    /\ dirs' = [n \in (DOMAIN dirs \ {from}) \cup {to} |-> IF n = to THEN dirs[from] ELSE dirs[n]]
    /\ app' = IF app.on = from THEN [app EXCEPT !.on = to] ELSE app
    /\ UNCHANGED <<env, inflight>>

-----------------------------------------------------------------------------
(* oveo-deploy.sh                                                          *)

\* Mutant: an empty data directory beside renamed ones is deployed to.
SafeToDeployAnyway == Exists(Live) => ~dirs[Live].marker

\* Data under another name, or an unfinished deployment, is for a person.
SafeToDeploy ==
    /\ Exists(Live) => ~dirs[Live].marker
    /\ (Exists(Live) /\ dirs[Live].db) \/ DOMAIN dirs \subseteq {Live}

\* Checks; an image that cannot list its revisions counts as migrating.
DeployBegin(i) ==
    LET dir == IF Exists(Live) THEN dirs[Live] ELSE Empty IN
    /\ SafeToDeploy
    /\ \E lists \in BOOLEAN :
         LET migrating == dir.db /\ (~lists \/ dir.rev # HeadOf[i]) IN
         /\ dir.db /\ lists => dir.rev <= HeadOf[i]
         /\ Begin([NoScript EXCEPT !.pc = (IF migrating THEN "mark" ELSE "start"),
                     !.name = "deploy", !.image = i, !.previous = env, !.migrating = migrating])
    /\ dirs' = Put(Live, dir)
    /\ UNCHANGED <<env, app, inflight, backups, history, faults>>

DeployMark ==
    /\ Command("mark") /\ Goto("stop")
    /\ dirs' = Marked(Live, TRUE)
    /\ UNCHANGED <<env, app, inflight, history>>

DeployStop ==
    /\ Command("stop") /\ Goto("snapshot")
    /\ Stops
    /\ UNCHANGED <<dirs, env, history>>

\* backup_tool.py snapshot: the marker is left out.
DeploySnapshot ==
    /\ Command("snapshot") /\ Goto("copy")
    /\ dirs' = Put(Sibling("predeploy"), Empty)
    /\ UNCHANGED <<env, app, inflight, history>>

DeploySnapshotDone ==
    /\ Command("copy") /\ Goto("start")
    /\ dirs' = Put(Sibling("predeploy"), [dirs[Live] EXCEPT !.marker = FALSE])
    /\ UNCHANGED <<env, app, inflight, history>>

\* Mutant: the gate stays closed after a failed snapshot.
DeploySnapshotFailsMarked ==
    /\ Command("copy") /\ Goto("restart")
    /\ dirs' = Remove(Sibling("predeploy"))
    /\ UNCHANGED <<env, app, inflight, history>>

\* The gate is opened and the running release started again, if it starts.
DeploySnapshotFails ==
    /\ Command("copy") /\ Goto("restart")
    /\ dirs' = [Remove(Sibling("predeploy")) EXCEPT ![Live].marker = FALSE]
    /\ UNCHANGED <<env, app, inflight, history>>

DeployRestart ==
    /\ Command("restart") /\ Done
    /\ Up(env) \/ UNCHANGED <<app, inflight>>
    /\ UNCHANGED <<dirs, env, history>>

\* start_candidate: the image is recorded, then started.
DeployRecord ==
    /\ Command("start") /\ Goto("up")
    /\ env' = script.image
    /\ UNCHANGED <<dirs, app, inflight, history>>

DeployStart ==
    /\ Command("up") /\ Goto("ready")
    /\ Up(script.image)
    /\ UNCHANGED <<dirs, env, history>>

\* Every check passed: the gate is opened.
DeployReady ==
    /\ Command("ready") /\ Done
    /\ app.state = "serving" /\ app.image = script.image
    /\ dirs' = Marked(Live, FALSE)
    /\ UNCHANGED <<env, app, inflight, history>>

DeployCheckFails ==
    /\ Command(script.pc) /\ script.pc \in {"start", "up", "ready"}
    /\ Goto(IF script.migrating THEN "undo" ELSE "rollback")
    /\ UNCHANGED <<host, history>>

UndoStop ==
    /\ Command("undo") /\ Goto("undoAside")
    /\ Stops
    /\ UNCHANGED <<dirs, env, history>>

UndoAside ==
    /\ Command("undoAside") /\ Goto("undoBack")
    /\ Rename(Live, Sibling("failed-deploy"))
    /\ UNCHANGED history

UndoBack ==
    /\ Command("undoBack") /\ Goto("rollback")
    /\ Rename(Sibling("predeploy"), Live)
    /\ UNCHANGED history

\* The preceding image is recorded, unless it cannot be had any more.
Rollback ==
    /\ Command("rollback")
    /\ \/ env' = script.previous /\ Goto("rollbackUp")
       \/ Done /\ UNCHANGED env
    /\ UNCHANGED <<dirs, app, inflight, history>>

RollbackUp ==
    /\ Command("rollbackUp") /\ Done
    /\ Up(script.previous) \/ UNCHANGED <<app, inflight>>
    /\ UNCHANGED <<dirs, env, history>>

-----------------------------------------------------------------------------
(* oveo-backup.sh: the archive is made under SQLite's write lock.          *)

BackupBegin ==
    /\ Exists(Live) /\ dirs[Live].db
    /\ Begin([NoScript EXCEPT !.pc = "archive", !.name = "backup",
                              !.backup = [dirs[Live] EXCEPT !.marker = FALSE]])
    /\ UNCHANGED <<host, backups, history, faults>>

BackupStore ==
    /\ script.pc = "archive" /\ Done
    /\ backups' = Append(backups, script.backup)
    /\ UNCHANGED <<host, history, runs, faults>>

-----------------------------------------------------------------------------
(* oveo-restore.sh --live                                                  *)

RestoreBegin(b) ==
    /\ Begin([NoScript EXCEPT !.pc = "extract", !.name = "restore", !.backup = backups[b]])
    /\ dirs' = Put(<<"restore", runs + 1>>, Empty)
    /\ UNCHANGED <<env, app, inflight, backups, history, faults>>

\* The restored directory is complete and marked; an archive that does not
\* verify, or a revision the running image does not list, ends the restore.
RestoreExtract ==
    /\ Command("extract")
    /\ \/ /\ dirs' = Put(Sibling("restore"), [script.backup EXCEPT !.marker = TRUE])
          /\ Goto("restoreStop")
       \/ /\ dirs' = Remove(Sibling("restore"))
          /\ Done
    /\ UNCHANGED <<env, app, inflight, history>>

RestoreStop ==
    /\ Command("restoreStop") /\ Goto("restoreAside")
    /\ Stops
    /\ UNCHANGED <<dirs, env, history>>

\* Mutant: the live data is removed instead of kept.
RestoreAsideRemoves ==
    /\ Command("restoreAside") /\ Goto("restoreSwap")
    /\ Exists(Live)
    /\ dirs' = Remove(Live)
    /\ UNCHANGED <<env, app, inflight, history>>

RestoreAside ==
    /\ Command("restoreAside")
    /\ \/ Rename(Live, Sibling("pre-restore")) /\ Goto("restoreSwap")
       \/ ~Exists(Live) /\ Done /\ UNCHANGED host
    /\ UNCHANGED history

RestoreSwap ==
    /\ Command("restoreSwap") /\ Goto("restoreUp")
    /\ Rename(Sibling("restore"), Live)
    /\ UNCHANGED history

RestoreUp ==
    /\ Command("restoreUp") /\ Goto("restoreReady")
    /\ Up(env)
    /\ UNCHANGED <<dirs, env, history>>

\* From here on users find the restored data.
RestoreReady ==
    /\ Command("restoreReady") /\ Done
    /\ app.state = "serving"
    /\ dirs' = Marked(Live, FALSE)
    /\ expected' = dirs[Live].writes /\ startedEmpty' = FALSE
    /\ UNCHANGED <<env, app, inflight, written, leftBy>>

RestoreCheckFails ==
    /\ Command(script.pc) /\ script.pc \in {"restoreUp", "restoreReady"}
    /\ Goto("revert")
    /\ UNCHANGED <<host, history>>

RevertStop ==
    /\ Command("revert") /\ Goto("revertAside")
    /\ Stops
    /\ UNCHANGED <<dirs, env, history>>

RevertAside ==
    /\ Command("revertAside") /\ Goto("revertBack")
    /\ Rename(Live, Sibling("failed-restore"))
    /\ UNCHANGED history

RevertBack ==
    /\ Command("revertBack") /\ Goto("revertUp")
    /\ Rename(Sibling("pre-restore"), Live)
    /\ UNCHANGED history

\* A directory without a database is put back, and started, as well: what users
\* were promised then stays under another name.
RevertUp ==
    /\ Command("revertUp") /\ Done
    /\ Up(env)
    /\ startedEmpty' = (startedEmpty \/ ~dirs[Live].db)
    /\ UNCHANGED <<dirs, env, written, expected, leftBy>>

-----------------------------------------------------------------------------
(* Faults.                                                                 *)

Fault(kind) == kind \in Faults /\ faults < MaxFaults /\ faults' = faults + 1

\* docker cannot stop the container: the two undo paths go on all the same,
\* a deployment opens the gate again and ends, a restore just ends.  Bound: it
\* is the only fault of a behaviour.
StopFails ==
    /\ "stop" \in Faults /\ faults = 0 /\ MaxFaults > 0 /\ faults' = MaxFaults
    /\ app.state # "stopped"
    /\ \/ script.pc = "stop" /\ Done /\ dirs' = Marked(Live, FALSE)
       \/ script.pc = "restoreStop" /\ Done /\ UNCHANGED dirs
       \/ script.pc = "undo" /\ Goto("undoAside") /\ UNCHANGED dirs
       \/ script.pc = "revert" /\ Goto("revertAside") /\ UNCHANGED dirs
    /\ UNCHANGED <<env, app, inflight, backups, history, runs>>

\* The script ends before its end.
Interrupted == script.pc # "none" /\ script' = NoScript /\ leftBy' = script.name

Killed ==
    /\ Fault("kill") /\ Interrupted
    /\ UNCHANGED <<host, backups, written, expected, startedEmpty, runs>>

\* The commands whose failure ends the script at once (set -e, or `|| die').
Fatal == {"mark", "stop", "ready", "undoAside", "undoBack", "archive", "extract", "restoreAside",
          "restoreSwap", "restoreReady", "revertAside", "revertBack", "revertUp"}
MovesBack == {"undoBack", "restoreSwap", "revertBack"}

\* A command fails and the script ends by itself there, with the host as it is:
\* a mv, the creation or the removal of the marker (at "copy", after a snapshot
\* that failed and was removed), the compose up of a revert.  A mv back fails
\* for sure once install-host.sh has made a /var/lib/oveo in the meantime.
CommandFails ==
    /\ Interrupted
    /\ \/ Fault("error") /\ script.pc \in Fatal /\ UNCHANGED dirs
       \/ Fault("error") /\ script.pc = "copy" /\ dirs' = Remove(Sibling("predeploy"))
       \/ script.pc \in MovesBack /\ Exists(Live) /\ UNCHANGED <<faults, dirs>>
    /\ UNCHANGED <<env, app, inflight, backups, written, expected, startedEmpty, runs>>

\* restart: unless-stopped.  Docker makes a missing directory to mount.
Reboot ==
    /\ Fault("reboot")
    /\ (IF script.pc = "none" THEN UNCHANGED <<script, leftBy>> ELSE Interrupted)
    /\ inflight' = FALSE
    /\ IF app.state = "stopped" THEN UNCHANGED <<app, dirs>>
       ELSE /\ app' = [app EXCEPT !.state = "starting", !.on = Live]
            /\ dirs' = IF Exists(Live) THEN dirs ELSE Put(Live, Empty)
    /\ UNCHANGED <<env, backups, written, expected, startedEmpty, runs>>

\* install-host.sh run by hand, also while a script runs, makes an empty
\* /var/lib/oveo when there is none.
InstallHost ==
    /\ ~Exists(Live)
    /\ dirs' = Put(Live, Empty)
    /\ UNCHANGED <<env, app, inflight, script, backups, history, runs, faults>>

-----------------------------------------------------------------------------
DeployStep ==
    \/ DeployMark \/ DeployStop \/ DeploySnapshot \/ DeploySnapshotDone \/ DeploySnapshotFails
    \/ DeployRestart \/ DeployRecord \/ DeployStart \/ DeployReady \/ DeployCheckFails
    \/ UndoStop \/ UndoAside \/ UndoBack \/ Rollback \/ RollbackUp

RestoreStep ==
    \/ RestoreExtract \/ RestoreStop \/ RestoreAside \/ RestoreSwap \/ RestoreUp \/ RestoreReady
    \/ RestoreCheckFails \/ RevertStop \/ RevertAside \/ RevertBack \/ RevertUp

Next ==
    \/ \E i \in Images : DeployBegin(i)
    \/ \E b \in 1 .. Len(backups) : RestoreBegin(b)
    \/ BackupBegin \/ BackupStore \/ DeployStep \/ RestoreStep
    \/ AppMigrates \/ AppServes \/ WritePasses \/ WriteCommits
    \/ StopFails \/ CommandFails \/ Killed \/ Reboot \/ InstallHost

Spec == Init /\ [][Next]_vars
-----------------------------------------------------------------------------

\* Whenever Oveo accepts writes, users find every write it acknowledged, the
\* ones a restore they asked for replaced excepted: no undo of a candidate, no
\* interruption or failing command of a script and no later run loses or
\* resurrects one.  The code has one exception, which takes a script that did
\* not run to its end first: a restore begun on the empty directory it left, and
\* failing, reverts to that directory and starts Oveo on it (RevertUp).
ServedDataComplete ==
    /\ app.state = "serving" /\ ~Gated(app.on) /\ ~startedEmpty => dirs[app.on].writes = expected
    /\ startedEmpty => leftBy # "none"

\* Whatever happens, every acknowledged write is still in some directory.
NothingDestroyed ==
    1 .. written = UNION {dirs[n].writes : n \in DOMAIN dirs}

\* A script that is not killed, cut by a reboot or ended by a failing command
\* leaves the gate open, also when it undoes what it did: after every check
\* that fails, a failing snapshot and a container that does not stop.
GateOnlyAfterUnfinishedScript ==
    script.pc = "none" /\ leftBy = "none" /\ Exists(Live) => ~Gated(Live)
=============================================================================
