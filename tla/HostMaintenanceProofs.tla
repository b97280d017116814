------------------------ MODULE HostMaintenanceProofs ------------------------
(***************************************************************************)
(* Proofs about HostMaintenance, for every set of images, every number of *)
(* user writes and of scripts run one after the other, and every number of *)
(* interruptions and failing commands: what Oveo serves behind an open     *)
(* gate, that no acknowledged write is destroyed, and when the gate stays  *)
(* closed.                                                                 *)
(*                                                                         *)
(* The three properties are not inductive.  IInv adds the types, that the  *)
(* names beside the live directory are those of earlier runs (so a rename  *)
(* never falls on data), and, for every command of a script, which         *)
(* directories exist and what is in them at that point: a copy taken       *)
(* before a trial is complete and no write can pass while it is the only   *)
(* way back; data moved aside for a restore is still there when the        *)
(* restore is reverted, with a database unless an earlier script was cut   *)
(* short; a container that docker could not stop keeps its own, gated,     *)
(* directory.  (In the model that failure of docker uses up the faults of  *)
(* a behaviour; the other faults are not bounded.)                         *)
(***************************************************************************)
EXTENDS HostMaintenance, TLAPS

-----------------------------------------------------------------------------
(* The inductive invariant.                                                *)

Names == {Live} \cup (Kinds \X Nat)
Dirs == [db : BOOLEAN, writes : SUBSET Nat, rev : Nat, marker : BOOLEAN]

DeployPcs == {"mark", "stop", "snapshot", "copy", "restart", "start", "up", "ready", "undo",
              "undoAside", "undoBack", "rollback", "rollbackUp"}
RestorePcs == {"extract", "restoreStop", "restoreAside", "restoreSwap", "restoreUp",
               "restoreReady", "revert", "revertAside", "revertBack", "revertUp"}
ScriptType == [pc : {"none", "archive"} \cup DeployPcs \cup RestorePcs,
               name : {"none", "deploy", "backup", "restore"}, image : Images \cup {None},
               previous : Images \cup {None}, migrating : BOOLEAN, backup : Dirs]
AppType == [state : {"stopped", "starting", "serving"}, image : Images, on : Names]

ScriptOk ==
    /\ script \in ScriptType
    /\ script.pc \in DeployPcs => script.image \in Images /\ script.previous \in Images
    /\ script.pc # "none" => script.name # "none"

HostType ==
    /\ app \in AppType /\ env \in Images /\ inflight \in BOOLEAN
    /\ ScriptOk
    /\ runs \in Nat /\ faults \in 0 .. MaxFaults /\ written \in Nat /\ startedEmpty \in BOOLEAN

\* A directory holds acknowledged writes, and none without a database.
DirOk(d, w) == d \in Dirs /\ d.writes \subseteq 1 .. w /\ (~d.db => d.writes = {})

\* The directories ds after r runs and w writes: they have the names of these
\* runs, and hold the writes, all of them.
Kept(ds, r, w) ==
    /\ ds = [n \in DOMAIN ds |-> ds[n]]
    /\ DOMAIN ds \subseteq {Live} \cup (Kinds \X (0 .. r))
    /\ \A n \in DOMAIN ds : DirOk(ds[n], w)
    /\ \A x \in 1 .. w : \E n \in DOMAIN ds : x \in ds[n].writes

DirsInv == Kept(dirs, runs, written)

\* Backups, stored or in the making, hold acknowledged writes as well.
BackupInv ==
    /\ expected \subseteq 1 .. written
    /\ backups \in Seq(Dirs) /\ \A b \in 1 .. Len(backups) : DirOk(backups[b], written)
    /\ DirOk(script.backup, written)

\* The live directory has what users must find.
LiveGood == Exists(Live) /\ (startedEmpty \/ dirs[Live].writes = expected)

\* A container that runs uses the live directory, or one that is gated for
\* good after docker failed to stop it.
AppInv ==
    /\ app.state # "stopped" /\ app.on = Live =>
         Exists(Live) /\ (~dirs[Live].marker => startedEmpty \/ dirs[Live].writes = expected)
    /\ app.state # "stopped" /\ app.on # Live =>
         faults = MaxFaults /\ Exists(app.on) /\ dirs[app.on].marker
    /\ app.state = "serving" => dirs[app.on].db
    /\ inflight => app.state = "serving" /\ app.on = Live
    /\ Exists(Live) /\ dirs[Live].db /\ ~dirs[Live].marker => LiveGood

Trial ==
    \/ script.pc \in {"start", "up", "ready"} /\ script.migrating
    \/ script.pc \in {"undo", "undoAside"}

\* Where oveo-deploy.sh stands.
DeployInv ==
    /\ script.pc \in {"mark", "stop", "snapshot"} => ~Exists(Sibling("predeploy"))
    /\ script.pc \in {"mark", "stop", "snapshot", "copy"} => script.migrating
    /\ script.pc \in {"stop", "snapshot", "copy"} => dirs[Live].marker
    /\ script.pc \in {"snapshot", "copy"} => app.state = "stopped"
    /\ script.pc = "copy" => Exists(Sibling("predeploy")) /\ dirs[Sibling("predeploy")] = Empty
    /\ script.pc \in DeployPcs \ {"undoBack"} => LiveGood
    /\ script.pc \in {"mark", "stop", "snapshot", "copy", "start", "up", "ready", "undo", "undoAside"} =>
         ~Exists(Sibling("failed-deploy"))
    /\ Trial \/ script.pc = "undoBack" =>
         /\ Exists(Sibling("predeploy")) /\ ~dirs[Sibling("predeploy")].marker
         /\ startedEmpty \/ dirs[Sibling("predeploy")].writes = expected
         /\ ~inflight
    /\ Trial => dirs[Live].marker
    /\ script.pc \in {"start", "up", "ready"} /\ ~script.migrating => ~dirs[Live].marker
    /\ script.pc \in {"restart", "rollback", "rollbackUp"} => ~dirs[Live].marker

\* Where oveo-restore.sh stands.
RestoreInv ==
    /\ script.pc = "extract" => Exists(Sibling("restore")) /\ dirs[Sibling("restore")] = Empty
    /\ script.pc \in {"extract", "restoreStop", "restoreAside"} => ~Exists(Sibling("pre-restore"))
    /\ script.pc \in RestorePcs \ {"revertBack", "revertUp"} => ~Exists(Sibling("failed-restore"))
    /\ script.pc \in {"restoreStop", "restoreAside", "restoreSwap"} =>
         Exists(Sibling("restore")) /\ dirs[Sibling("restore")].marker
    /\ script.pc \in {"restoreSwap", "restoreUp", "restoreReady", "revert", "revertAside",
                     "revertBack"} =>
         LET old == Sibling("pre-restore") IN
         /\ Exists(old)
         /\ dirs[old].db /\ ~dirs[old].marker => startedEmpty \/ dirs[old].writes = expected
         /\ leftBy = "none" => ~dirs[old].marker
    /\ script.pc \in {"restoreUp", "restoreReady", "revert", "revertAside"} =>
         Exists(Live) /\ dirs[Live].marker
    /\ script.pc \in {"restoreAside", "restoreSwap", "restoreUp"} => app.state = "stopped"
    /\ script.pc \in RestorePcs \ {"extract", "restoreStop", "revertUp"} => ~inflight
    /\ script.pc = "revertUp" => Exists(Live)

\* The live directory is out of place, and docker uses another.
GapInv ==
    /\ script.pc \in {"undoBack", "restoreSwap", "revertBack"} =>
         /\ app.state = "stopped" \/ app.on # Live
         /\ Exists(Live) => dirs[Live] = Empty
    /\ script.pc \in {"undoAside", "undoBack", "revertAside", "revertBack"} =>
         app.state = "stopped" \/ faults = MaxFaults

\* Without an unfinished script only a running script keeps the gate closed.
GateInv ==
    leftBy = "none" /\ Exists(Live)
        /\ script.pc \in {"none", "archive", "extract", "restoreStop", "restoreAside", "revertUp"} =>
            ~dirs[Live].marker

PlaceInv == AppInv /\ DeployInv /\ RestoreInv /\ GapInv /\ GateInv

\* Between the two renames of an undo, a restore or a revert.
Gap == script.pc \in {"undoBack", "restoreSwap", "revertBack"}

\* What may become the live directory has a database, unless a script before
\* did not run to its end.
CutInv ==
    /\ \A b \in 1 .. Len(backups) : backups[b].db
    /\ script.pc \in {"archive", "extract"} => script.backup.db
    /\ script.pc \in {"restoreStop", "restoreAside", "restoreSwap"} => dirs[Sibling("restore")].db
    /\ leftBy = "none" =>
         /\ ~startedEmpty
         /\ ~Gap => Exists(Live) /\ dirs[Live].db
         /\ Trial \/ script.pc = "undoBack" => dirs[Sibling("predeploy")].db
         /\ script.pc \in {"restoreSwap", "restoreUp", "restoreReady", "revert", "revertAside",
                           "revertBack"} => dirs[Sibling("pre-restore")].db

IInv == HostType /\ DirsInv /\ BackupInv /\ PlaceInv /\ CutInv

-----------------------------------------------------------------------------
(* What the commands do to directories.                                    *)

\* The names a script uses differ from each other and from the live name.
LEMMA NamesDiffer ==
    ASSUME NEW r \in Nat
    PROVE  /\ Live \notin Kinds \X Nat
           /\ \A k \in Kinds : <<k, r>> # Live
           /\ \A k \in Kinds : <<k, r>> \in Kinds \X (0 .. r)
           /\ \A k \in Kinds : <<k, r + 1>> \notin Kinds \X (0 .. r)
           /\ \A j, k \in Kinds : j # k => <<j, r>> # <<k, r>>
BY DEF Live, Kinds

\* Removing a directory without writes keeps every write.
LEMMA RemoveKeeps ==
    ASSUME NEW ds, NEW r \in Nat, NEW w \in Nat, Kept(ds, r, w), NEW n, n \in DOMAIN ds,
           ds[n].writes = {}
    PROVE  Kept([m \in DOMAIN ds \ {n} |-> ds[m]], r, w)
<1> DEFINE new == [m \in DOMAIN ds \ {n} |-> ds[m]]
<1>1. /\ DOMAIN new = DOMAIN ds \ {n} /\ \A m \in DOMAIN new : new[m] = ds[m]
      /\ new = [m \in DOMAIN new |-> new[m]]
  OBVIOUS
<1> HIDE DEF new
<1>2. Kept(new, r, w)
  BY <1>1 DEF Kept
<1> QED BY <1>2 DEF new

\* A directory may be rewritten in place when no write is lost.
LEMMA RewriteKeeps ==
    ASSUME NEW ds, NEW r \in Nat, NEW w \in Nat, NEW v \in Nat, Kept(ds, r, w), w <= v,
           NEW n, n \in DOMAIN ds, NEW d, DirOk(d, v),
           ds[n].writes \cup ((w + 1) .. v) \subseteq d.writes
    PROVE  Kept([ds EXCEPT ![n] = d], r, v)
<1> DEFINE new == [ds EXCEPT ![n] = d]
<1>1. /\ DOMAIN new = DOMAIN ds /\ new[n] = d
      /\ \A m \in DOMAIN ds : m # n => new[m] = ds[m]
      /\ new = [m \in DOMAIN new |-> new[m]]
  OBVIOUS
<1> HIDE DEF new
<1>2. \A m \in DOMAIN ds : DirOk(ds[m], v)
  BY DEF Kept, DirOk
<1>3. \A m \in DOMAIN new : DirOk(new[m], v)
  BY <1>1, <1>2
<1>4. \A x \in 1 .. v : x \in 1 .. w \/ x \in (w + 1) .. v
  OBVIOUS
<1>5. \A x \in 1 .. v : \E m \in DOMAIN new : x \in new[m].writes
  BY <1>1, <1>4 DEF Kept
<1>6. Kept(new, r, v)
  BY <1>1, <1>3, <1>5 DEF Kept
<1> QED BY <1>6 DEF new

\* Opening or closing the gate is such a rewriting.
LEMMA MarkedKeeps ==
    ASSUME NEW ds, NEW r \in Nat, NEW w \in Nat, Kept(ds, r, w), NEW n, n \in DOMAIN ds,
           NEW on \in BOOLEAN
    PROVE  /\ Kept([ds EXCEPT ![n].marker = on], r, w)
           /\ DirOk([ds[n] EXCEPT !.marker = on], w)
<1>1. DirOk(ds[n], w)
  BY DEF Kept
<1>2. ds[n] \in Dirs
  BY <1>1 DEF DirOk
<1> DEFINE d == [ds[n] EXCEPT !.marker = on]
<1>3. d \in Dirs /\ d.writes = ds[n].writes /\ d.db = ds[n].db
  BY <1>2 DEF Dirs
<1> HIDE DEF d
<1>4. DirOk(d, w)
  BY <1>1, <1>3 DEF DirOk
<1>5. Kept([ds EXCEPT ![n] = d], r, w)
  BY <1>3, <1>4, RewriteKeeps
<1> QED BY <1>4, <1>5 DEF d

\* mv keeps every write when nothing, or a directory without writes, has the
\* new name.
LEMMA RenameKeeps ==
    ASSUME NEW ds, NEW r \in Nat, NEW w \in Nat, Kept(ds, r, w), NEW from, from \in DOMAIN ds,
           NEW to, to \in {Live} \cup (Kinds \X (0 .. r)), from # to,
           to \in DOMAIN ds => ds[to].writes = {}
    PROVE  Kept([n \in (DOMAIN ds \ {from}) \cup {to} |-> IF n = to THEN ds[from] ELSE ds[n]], r, w)
<1> DEFINE new == [n \in (DOMAIN ds \ {from}) \cup {to} |-> IF n = to THEN ds[from] ELSE ds[n]]
<1>1. /\ DOMAIN new = (DOMAIN ds \ {from}) \cup {to} /\ new[to] = ds[from]
      /\ \A n \in DOMAIN ds : n # from /\ n # to => new[n] = ds[n]
      /\ new = [n \in DOMAIN new |-> new[n]]
  OBVIOUS
<1> HIDE DEF new
<1>2. \A n \in DOMAIN new : DirOk(new[n], w)
  BY <1>1 DEF Kept
<1>3. \A x \in 1 .. w : \E n \in DOMAIN new : x \in new[n].writes
  BY <1>1 DEF Kept
<1>4. Kept(new, r, w)
  BY <1>1, <1>2, <1>3 DEF Kept
<1> QED BY <1>4 DEF new

\* An empty directory holds what it must: nothing.
LEMMA EmptyOk ==
    ASSUME NEW w \in Nat
    PROVE  DirOk(Empty, w) /\ Empty \in Dirs /\ ~Empty.db /\ ~Empty.marker /\ Empty.writes = {}
BY DEF DirOk, Empty, Dirs

-----------------------------------------------------------------------------
(* Types.                                                                  *)

\* A script that ended.
LEMMA NoScriptOk ==
    NoScript \in ScriptType /\ NoScript.pc = "none" /\ NoScript.backup = Empty
<1>1. Empty \in Dirs
  BY EmptyOk
<1> QED BY <1>1 DEF NoScript, ScriptType

\* A script that goes on keeps its variables.
LEMMA GotoOk ==
    ASSUME NEW pc \in {"none", "archive"} \cup DeployPcs \cup RestorePcs, script \in ScriptType,
           Goto(pc)
    PROVE  /\ script' \in ScriptType /\ script'.pc = pc /\ script'.migrating = script.migrating
           /\ script'.image = script.image /\ script'.previous = script.previous
           /\ script'.name = script.name /\ script'.backup = script.backup
BY DEF Goto, ScriptType

\* compose up leaves a container in one of its states.
LEMMA UpType ==
    ASSUME NEW i \in Images, Up(i), app \in AppType, inflight \in BOOLEAN
    PROVE  app' \in AppType /\ inflight' \in BOOLEAN
<1>1. Live \in Names
  BY DEF Names
<1>2. [state |-> "starting", image |-> i, on |-> Live] \in AppType
  BY <1>1 DEF AppType
<1> QED BY <1>2 DEF Up

\* So does docker stop.
LEMMA StopsType ==
    ASSUME Stops, app \in AppType
    PROVE  app' \in AppType /\ inflight' \in BOOLEAN
BY DEF Stops, AppType

\* So does a rename of the directory it mounted.
LEMMA RenameType ==
    ASSUME NEW from, NEW to \in Names, Rename(from, to), app \in AppType
    PROVE  app' \in AppType
<1>1. [app EXCEPT !.on = to] \in AppType
  BY DEF AppType
<1> QED BY <1>1 DEF Rename

\* Every step keeps the types.
LEMMA TypeStep ==
    ASSUME IInv, Next
    PROVE  HostType'
<1>0. /\ app \in AppType /\ env \in Images /\ inflight \in BOOLEAN /\ script \in ScriptType
      /\ script.pc \in DeployPcs => script.image \in Images /\ script.previous \in Images
      /\ script.pc # "none" => script.name # "none"
      /\ runs \in Nat /\ faults \in 0 .. MaxFaults /\ written \in Nat /\ startedEmpty \in BOOLEAN
  BY DEF IInv, HostType, ScriptOk
<1>n. Live \in Names /\ \A k \in Kinds : Sibling(k) \in Names
  BY <1>0 DEF Names, Sibling
<1>d. ASSUME NEW pc \in {"none", "archive"} \cup DeployPcs \cup RestorePcs, Goto(pc),
             script.pc # "none", script.pc \in DeployPcs \/ pc \notin DeployPcs
      PROVE  ScriptOk'
  BY <1>0, <1>d, GotoOk DEF ScriptOk
<1>e. ASSUME Done
      PROVE  ScriptOk'
  BY <1>e, NoScriptOk DEF Done, ScriptOk, DeployPcs
<1>1. ASSUME NEW i \in Images, DeployBegin(i)
      PROVE  HostType'
  <2>1. PICK m \in BOOLEAN :
          script' = [NoScript EXCEPT !.pc = (IF m THEN "mark" ELSE "start"), !.name = "deploy",
                                     !.image = i, !.previous = env, !.migrating = m]
    BY <1>1, <1>0 DEF DeployBegin, Begin, IInv, DirsInv, Kept, DirOk, Dirs, Empty, Exists
  <2>2. ScriptOk'
    BY <2>1, <1>0, NoScriptOk DEF ScriptOk, ScriptType, DeployPcs
  <2> QED BY <1>1, <2>2, <1>0 DEF DeployBegin, Begin, HostType, history
<1>2. ASSUME NEW b \in 1 .. Len(backups), RestoreBegin(b)
      PROVE  HostType'
  <2>1. backups[b] \in Dirs
    BY <1>2 DEF IInv, BackupInv
  <2>2. ScriptOk'
    BY <2>1, <1>2, NoScriptOk DEF RestoreBegin, Begin, ScriptOk, ScriptType, DeployPcs, RestorePcs
  <2> QED BY <1>2, <2>2, <1>0 DEF RestoreBegin, Begin, HostType, history
<1>3. CASE BackupBegin
  <2>1. [dirs[Live] EXCEPT !.marker = FALSE] \in Dirs
    BY <1>3 DEF BackupBegin, Exists, IInv, DirsInv, Kept, DirOk, Dirs
  <2>2. ScriptOk'
    BY <2>1, <1>3, NoScriptOk DEF BackupBegin, Begin, ScriptOk, ScriptType, DeployPcs
  <2> QED BY <1>3, <2>2, <1>0 DEF BackupBegin, Begin, HostType, history, host
<1>4. CASE BackupStore
  BY <1>4, <1>e, <1>0 DEF BackupStore, HostType, history, host
<1>5. CASE DeployStep
  <2>1. ScriptOk'
    BY <1>5, <1>d, <1>e DEF DeployStep, DeployMark, DeployStop, DeploySnapshot, DeploySnapshotDone,
       DeploySnapshotFails, DeployRestart, DeployRecord, DeployStart, DeployReady,
       DeployCheckFails, UndoStop, UndoAside, UndoBack, Rollback, RollbackUp, Command, DeployPcs
  <2>2. app' \in AppType /\ inflight' \in BOOLEAN
    <3>1. CASE Stops
      BY <3>1, <1>0, StopsType
    <3>2. CASE \E i \in Images : Up(i)
      BY <3>2, <1>0, UpType
    <3>3. CASE UNCHANGED <<app, inflight>>
      BY <3>3, <1>0
    <3>4. CASE \E from \in Names, to \in Names : Rename(from, to)
      BY <3>4, <1>0, RenameType DEF Rename
    <3> QED
      BY <1>5, <1>0, <1>n, <3>1, <3>2, <3>3, <3>4 DEF DeployStep, DeployMark, DeployStop,
         DeploySnapshot, DeploySnapshotDone, DeploySnapshotFails, DeployRestart, DeployRecord,
         DeployStart, DeployReady, DeployCheckFails, UndoStop, UndoAside, UndoBack, Rollback,
         RollbackUp, Command, DeployPcs, Kinds, host
  <2>3. env' \in Images /\ UNCHANGED <<runs, faults, written, startedEmpty>>
    BY <1>5, <1>0 DEF DeployStep, DeployMark, DeployStop, DeploySnapshot, DeploySnapshotDone,
       DeploySnapshotFails, DeployRestart, DeployRecord, DeployStart, DeployReady,
       DeployCheckFails, UndoStop, UndoAside, UndoBack, Rollback, RollbackUp, Command, DeployPcs,
       Rename, history, host
  <2> QED BY <2>1, <2>2, <2>3, <1>0 DEF HostType
<1>6. CASE RestoreStep
  <2>1. ScriptOk'
    BY <1>6, <1>d, <1>e DEF RestoreStep, RestoreExtract, RestoreStop, RestoreAside, RestoreSwap,
       RestoreUp, RestoreReady, RestoreCheckFails, RevertStop, RevertAside, RevertBack, RevertUp,
       Command, DeployPcs, RestorePcs
  <2>2. app' \in AppType /\ inflight' \in BOOLEAN
    <3>1. CASE Stops
      BY <3>1, <1>0, StopsType
    <3>2. CASE Up(env)
      BY <3>2, <1>0, UpType
    <3>3. CASE UNCHANGED <<app, inflight>>
      BY <3>3, <1>0
    <3>4. CASE \E from \in Names, to \in Names : Rename(from, to)
      BY <3>4, <1>0, RenameType DEF Rename
    <3> QED
      BY <1>6, <1>n, <3>1, <3>2, <3>3, <3>4 DEF RestoreStep, RestoreExtract, RestoreStop,
         RestoreAside, RestoreSwap, RestoreUp, RestoreReady, RestoreCheckFails, RevertStop,
         RevertAside, RevertBack, RevertUp, Kinds, host
  <2>3. UNCHANGED <<env, runs, faults, written>> /\ startedEmpty' \in BOOLEAN
    BY <1>6, <1>0 DEF RestoreStep, RestoreExtract, RestoreStop, RestoreAside, RestoreSwap,
       RestoreUp, RestoreReady, RestoreCheckFails, RevertStop, RevertAside, RevertBack, RevertUp,
       Command, Rename, history, host
  <2> QED BY <2>1, <2>2, <2>3, <1>0 DEF HostType
<1>7. CASE AppMigrates \/ AppServes \/ WritePasses \/ WriteCommits \/ InstallHost
  <2>1. app' \in AppType /\ inflight' \in BOOLEAN
    BY <1>7, <1>0 DEF AppMigrates, AppServes, WritePasses, WriteCommits, InstallHost, AppType
  <2>2. UNCHANGED <<env, script, runs, faults, startedEmpty>> /\ written' \in Nat
    BY <1>7, <1>0 DEF AppMigrates, AppServes, WritePasses, WriteCommits, InstallHost, history
  <2> QED BY <2>1, <2>2, <1>0 DEF HostType, ScriptOk
<1>8. CASE StopFails
  <2>1. ScriptOk'
    BY <1>8, <1>d, <1>e DEF StopFails, DeployPcs, RestorePcs
  <2> QED BY <1>8, <2>1, <1>0, HostAssumption DEF StopFails, HostType, history
<1>9. CASE Killed
  BY <1>9, <1>0, <1>e, HostAssumption DEF Killed, Fault, Interrupted, Done, HostType, host
<1>10. CASE Reboot
  <2>1. ScriptOk'
    BY <1>10, <1>0, <1>e DEF Reboot, Interrupted, Done, ScriptOk
  <2>2. app' \in AppType /\ inflight' \in BOOLEAN
    BY <1>10, <1>0, <1>n DEF Reboot, AppType
  <2> QED BY <1>10, <2>1, <2>2, <1>0, HostAssumption DEF Reboot, Fault, HostType
<1>11. CASE CommandFails
  BY <1>11, <1>0, <1>e, HostAssumption DEF CommandFails, Fault, Interrupted, Done, HostType
<1> QED BY <1>1, <1>2, <1>3, <1>4, <1>5, <1>6, <1>7, <1>8, <1>9, <1>10, <1>11 DEF Next

-----------------------------------------------------------------------------
(* Every acknowledged write is kept.                                       *)

\* Every step keeps every write in some directory.
LEMMA DirsStep ==
    ASSUME IInv, Next
    PROVE  DirsInv'
<1>0. runs \in Nat /\ written \in Nat /\ Kept(dirs, runs, written)
  BY DEF IInv, HostType, DirsInv
<1>n. /\ \A k \in Kinds : Sibling(k) # Live /\ Sibling(k) \in Kinds \X (0 .. runs)
      /\ \A k \in Kinds : <<k, runs + 1>> \in Kinds \X (0 .. runs + 1)
      /\ \A k \in Kinds : <<k, runs + 1>> \notin DOMAIN dirs
  BY <1>0, NamesDiffer DEF Sibling, Kept
<1>a. \A n \in DOMAIN dirs : DirOk(dirs[n], written)
  BY <1>0 DEF Kept
<1>u. ASSUME UNCHANGED <<dirs, written>>, runs' \in {runs, runs + 1}
      PROVE  DirsInv'
  BY <1>0, <1>u DEF Kept, DirsInv
<1>m. ASSUME Exists(Live), NEW on \in BOOLEAN, dirs' = Marked(Live, on), UNCHANGED <<runs, written>>
      PROVE  DirsInv'
  BY <1>0, <1>m, MarkedKeeps DEF DirsInv, Marked, Exists
<1>p. ASSUME NEW n, n \in {Live} \cup (Kinds \X (0 .. runs')), NEW d, DirOk(d, written),
             n \in DOMAIN dirs => dirs[n].writes \subseteq d.writes, dirs' = Put(n, d),
             written' = written, runs' \in {runs, runs + 1}
      PROVE  DirsInv'
  <2>1. PICK s : s = runs' /\ s \in Nat /\ runs <= s
    BY <1>0, <1>p
  <2>2. n \in {Live} \cup (Kinds \X (0 .. s))
    BY <2>1, <1>p
  <2>3. PICK new : new = dirs' /\ new = [m \in DOMAIN dirs \cup {n} |-> IF m = n THEN d ELSE dirs[m]]
    BY <1>p DEF Put
  <2>4. /\ DOMAIN new = DOMAIN dirs \cup {n} /\ new[n] = d
        /\ \A m \in DOMAIN dirs : m # n => new[m] = dirs[m]
        /\ new = [m \in DOMAIN new |-> new[m]]
    BY <2>3
  <2>5. DOMAIN new \subseteq {Live} \cup (Kinds \X (0 .. s))
    BY <2>1, <2>2, <2>4, <1>0 DEF Kept
  <2>6. \A m \in DOMAIN new : DirOk(new[m], written)
    BY <2>4, <1>p, <1>a
  <2>7. \A x \in 1 .. written : \E m \in DOMAIN new : x \in new[m].writes
    BY <2>4, <1>p, <1>0 DEF Kept
  <2>8. Kept(new, s, written)
    BY <2>4, <2>5, <2>6, <2>7 DEF Kept
  <2> QED BY <2>1, <2>3, <2>8, <1>p DEF DirsInv
<1>r. ASSUME NEW from, NEW to, from # to, to \in {Live} \cup (Kinds \X (0 .. runs)),
             Exists(to) => dirs[to].writes = {}, Rename(from, to), UNCHANGED <<runs, written>>
      PROVE  DirsInv'
  BY <1>0, <1>r, RenameKeeps DEF DirsInv, Rename, Exists
<1>e. DirOk(Empty, written) /\ Empty.writes = {}
  BY <1>0, EmptyOk
<1>1. ASSUME NEW i \in Images, DeployBegin(i)
      PROVE  DirsInv'
  <2>1. PICK d : /\ d = IF Exists(Live) THEN dirs[Live] ELSE Empty
                 /\ dirs' = Put(Live, d) /\ runs' = runs + 1 /\ written' = written
    BY <1>1 DEF DeployBegin, Begin, history
  <2> QED BY <2>1, <1>p, <1>a, <1>e DEF Exists
<1>2. ASSUME NEW b \in 1 .. Len(backups), RestoreBegin(b)
      PROVE  DirsInv'
  <2>1. dirs' = Put(<<"restore", runs + 1>>, Empty) /\ runs' = runs + 1 /\ written' = written
    BY <1>2 DEF RestoreBegin, Begin, history
  <2> QED BY <2>1, <1>p, <1>n, <1>e DEF Kinds
<1>3. CASE \/ BackupBegin \/ BackupStore \/ DeployStop \/ DeployRestart \/ DeployRecord
           \/ DeployStart \/ DeployCheckFails \/ UndoStop \/ Rollback \/ RollbackUp
           \/ RestoreStop \/ RestoreUp \/ RestoreCheckFails \/ RevertStop \/ RevertUp
           \/ AppServes \/ WritePasses \/ Killed
  BY <1>3, <1>u DEF BackupBegin, BackupStore, DeployStop, DeployRestart, DeployRecord, DeployStart,
     DeployCheckFails, UndoStop, Rollback, RollbackUp, RestoreStop, RestoreUp, RestoreCheckFails,
     RevertStop, RevertUp, AppServes, WritePasses, Killed, Begin, Command, history, host
<1>4. CASE DeployMark \/ DeployReady \/ RestoreReady
  <2>1. Exists(Live)
    BY <1>4 DEF IInv, PlaceInv, DeployInv, RestoreInv, LiveGood, DeployPcs, DeployMark,
       DeployReady, RestoreReady, Command
  <2> QED BY <2>1, <1>4, <1>m DEF DeployMark, DeployReady, RestoreReady, Command, history
<1>5. CASE DeploySnapshot
  <2>1. ~Exists(Sibling("predeploy"))
    BY <1>5 DEF IInv, PlaceInv, DeployInv, DeploySnapshot, Command
  <2> QED
    BY <2>1, <1>5, <1>p, <1>n, <1>e DEF DeploySnapshot, Command, history, Kinds, Exists
<1>6. CASE DeploySnapshotDone
  <2>1. Exists(Live) /\ dirs[Sibling("predeploy")] = Empty
    BY <1>6 DEF IInv, PlaceInv, DeployInv, LiveGood, DeployPcs, DeploySnapshotDone, Command
  <2>2. DirOk([dirs[Live] EXCEPT !.marker = FALSE], written)
    BY <2>1, <1>0, MarkedKeeps DEF Exists
  <2> QED
    BY <2>1, <2>2, <1>6, <1>p, <1>n, <1>e DEF DeploySnapshotDone, Command, history, Kinds
<1>7. CASE DeploySnapshotFails
  <2>1. Exists(Live) /\ Exists(Sibling("predeploy")) /\ dirs[Sibling("predeploy")].writes = {}
    BY <1>7, <1>e DEF IInv, PlaceInv, DeployInv, LiveGood, DeployPcs, DeploySnapshotFails, Command
  <2>2. Kept(Remove(Sibling("predeploy")), runs, written)
    BY <2>1, <1>0, RemoveKeeps DEF Exists, Remove
  <2>3. Live \in DOMAIN Remove(Sibling("predeploy"))
    BY <2>1, <1>n DEF Exists, Remove, Kinds
  <2>4. /\ dirs' = [Remove(Sibling("predeploy")) EXCEPT ![Live].marker = FALSE]
        /\ UNCHANGED <<runs, written>>
    BY <1>7 DEF DeploySnapshotFails, Command, history
  <2>5. \A ds : Kept(ds, runs, written) /\ Live \in DOMAIN ds =>
          Kept([ds EXCEPT ![Live].marker = FALSE], runs, written)
    BY <1>0, MarkedKeeps
  <2> QED BY <2>2, <2>3, <2>4, <2>5 DEF DirsInv
<1>8. CASE UndoAside \/ RevertAside \/ RestoreAside
  <2>1. PICK k \in Kinds : ~Exists(Sibling(k)) /\ (Rename(Live, Sibling(k)) \/ UNCHANGED host)
    BY <1>8 DEF IInv, PlaceInv, DeployInv, RestoreInv, RestorePcs, UndoAside, RevertAside,
       RestoreAside, Command, Kinds
  <2>2. UNCHANGED <<runs, written>>
    BY <1>8 DEF UndoAside, RevertAside, RestoreAside, Command, history
  <2> QED BY <2>1, <2>2, <1>r, <1>u, <1>n DEF host
<1>9. CASE UndoBack \/ RevertBack \/ RestoreSwap
  <2>1. PICK k \in Kinds : Rename(Sibling(k), Live)
    BY <1>9 DEF UndoBack, RevertBack, RestoreSwap, Kinds
  <2>2. Exists(Live) => dirs[Live].writes = {}
    BY <1>9, <1>e DEF IInv, PlaceInv, GapInv, UndoBack, RevertBack, RestoreSwap, Command
  <2>3. UNCHANGED <<runs, written>>
    BY <1>9 DEF UndoBack, RevertBack, RestoreSwap, Command, history
  <2> QED BY <2>1, <2>2, <2>3, <1>r, <1>n
<1>10. CASE RestoreExtract
  <2>1. Exists(Sibling("restore")) /\ dirs[Sibling("restore")].writes = {}
    BY <1>10, <1>e DEF IInv, PlaceInv, RestoreInv, RestoreExtract, Command
  <2>2. DirOk([script.backup EXCEPT !.marker = TRUE], written)
    BY DEF IInv, BackupInv, DirOk, Dirs
  <2>3. UNCHANGED <<runs, written>>
    BY <1>10 DEF RestoreExtract, Command, history
  <2>4. CASE dirs' = Put(Sibling("restore"), [script.backup EXCEPT !.marker = TRUE])
    BY <2>1, <2>2, <2>3, <2>4, <1>p, <1>n DEF Kinds
  <2>5. CASE dirs' = Remove(Sibling("restore"))
    BY <2>1, <2>3, <2>5, <1>0, RemoveKeeps DEF DirsInv, Remove, Exists
  <2> QED BY <1>10, <2>4, <2>5 DEF RestoreExtract
<1>11. CASE AppMigrates
  <2>1. app.on \in DOMAIN dirs /\ app.image \in Images
    BY <1>11 DEF AppMigrates, IInv, PlaceInv, AppInv, Exists, HostType, AppType
  <2>2. PICK d : d = [dirs[app.on] EXCEPT !.db = TRUE, !.rev = HeadOf[app.image]]
    OBVIOUS
  <2>3. HeadOf[app.image] \in Nat
    BY <2>1, HostAssumption
  <2>4. dirs[app.on] \in Dirs
    BY <2>1, <1>a DEF DirOk
  <2>5. d \in Dirs /\ d.writes = dirs[app.on].writes /\ d.db
    BY <2>2, <2>3, <2>4 DEF Dirs
  <2>6. DirOk(d, written)
    BY <2>1, <2>5, <1>a DEF DirOk
  <2>7. dirs' = [dirs EXCEPT ![app.on] = d] /\ UNCHANGED <<runs, written>>
    BY <1>11, <2>1, <2>2, <2>4 DEF AppMigrates, history, Dirs
  <2>8. (written + 1) .. written = {}
    BY <1>0
  <2>9. Kept([dirs EXCEPT ![app.on] = d], runs, written)
    BY <2>1, <2>5, <2>6, <2>8, <1>0, RewriteKeeps
  <2> QED BY <2>7, <2>9 DEF DirsInv
<1>12. CASE WriteCommits
  <2>1. app.on \in DOMAIN dirs
    BY <1>12 DEF WriteCommits, IInv, PlaceInv, AppInv, Exists
  <2>2. PICK d : d = [dirs[app.on] EXCEPT !.writes = @ \cup {written + 1}]
    OBVIOUS
  <2>3. dirs[app.on] \in Dirs
    BY <2>1, <1>a DEF DirOk
  <2>4. d \in Dirs /\ d.writes = dirs[app.on].writes \cup {written + 1} /\ d.db = dirs[app.on].db
    BY <2>2, <2>3, <1>0 DEF Dirs
  <2>5. d.db
    BY <1>12, <2>4 DEF WriteCommits, IInv, PlaceInv, AppInv
  <2>6. DirOk(d, written + 1)
    BY <2>1, <2>4, <2>5, <1>a, <1>0 DEF DirOk
  <2>7. dirs' = [dirs EXCEPT ![app.on] = d] /\ runs' = runs /\ written' = written + 1
    BY <1>12, <2>1, <2>2, <2>3 DEF WriteCommits, Dirs
  <2>8. (written + 1) .. (written + 1) = {written + 1} /\ written <= written + 1 /\ written + 1 \in Nat
    BY <1>0
  <2>9. Kept([dirs EXCEPT ![app.on] = d], runs, written + 1)
    BY <2>1, <2>4, <2>6, <2>8, <1>0, RewriteKeeps
  <2> QED BY <2>7, <2>9 DEF DirsInv
<1>13. CASE StopFails
  <2>1. script.pc = "stop" => Exists(Live)
    BY DEF IInv, PlaceInv, DeployInv, LiveGood, DeployPcs
  <2> QED BY <2>1, <1>13, <1>m, <1>u DEF StopFails, history
<1>14. CASE Reboot \/ InstallHost
  <2>1. UNCHANGED dirs \/ (~Exists(Live) /\ dirs' = Put(Live, Empty))
    BY <1>14 DEF Reboot, InstallHost
  <2>2. UNCHANGED <<runs, written>>
    BY <1>14 DEF Reboot, InstallHost, history
  <2> QED BY <2>1, <2>2, <1>p, <1>u, <1>e DEF Exists
<1>15. CASE CommandFails
  <2>1. UNCHANGED <<runs, written>>
    BY <1>15 DEF CommandFails
  <2>2. CASE script.pc = "copy" /\ dirs' = Remove(Sibling("predeploy"))
    <3>1. Exists(Sibling("predeploy")) /\ dirs[Sibling("predeploy")].writes = {}
      BY <2>2, <1>e DEF IInv, PlaceInv, DeployInv
    <3> QED BY <2>1, <2>2, <3>1, <1>0, RemoveKeeps DEF Exists, Remove, DirsInv
  <2> QED BY <2>1, <2>2, <1>15, <1>u DEF CommandFails
<1> QED
  BY <1>1, <1>2, <1>3, <1>4, <1>5, <1>6, <1>7, <1>8, <1>9, <1>10, <1>11, <1>12, <1>13, <1>14,
     <1>15 DEF Next, DeployStep, RestoreStep

\* What users must find, and what backups hold, has been acknowledged.
LEMMA BackupStep ==
    ASSUME IInv, Next
    PROVE  BackupInv'
<1>0. /\ written \in Nat /\ expected \subseteq 1 .. written /\ backups \in Seq(Dirs)
      /\ \A b \in 1 .. Len(backups) : DirOk(backups[b], written)
      /\ DirOk(script.backup, written) /\ script \in ScriptType
  BY DEF IInv, HostType, ScriptOk, BackupInv
<1>n. DirOk(NoScript.backup, written)
  BY <1>0, EmptyOk, NoScriptOk
<1>u. ASSUME UNCHANGED <<backups, written>>, expected' \subseteq 1 .. written,
             DirOk(script'.backup, written)
      PROVE  BackupInv'
  BY <1>0, <1>u DEF BackupInv
<1>g. ASSUME NEW pc, Goto(pc)
      PROVE  script'.backup = script.backup
  BY <1>0, <1>g DEF Goto, ScriptType
<1>1. ASSUME NEW i \in Images, DeployBegin(i)
      PROVE  BackupInv'
  <2>1. script'.backup = NoScript.backup /\ UNCHANGED <<backups, written, expected>>
    BY <1>1, NoScriptOk DEF DeployBegin, Begin, history, ScriptType
  <2> QED BY <2>1, <1>0, <1>n, <1>u
<1>2. ASSUME NEW b \in 1 .. Len(backups), RestoreBegin(b)
      PROVE  BackupInv'
  <2>1. script'.backup = backups[b] /\ UNCHANGED <<backups, written, expected>>
    BY <1>2, NoScriptOk DEF RestoreBegin, Begin, history, ScriptType
  <2> QED BY <2>1, <1>0, <1>u
<1>3. CASE BackupBegin
  <2>1. DirOk([dirs[Live] EXCEPT !.marker = FALSE], written)
    BY <1>3, <1>0, MarkedKeeps DEF BackupBegin, Exists, IInv, DirsInv, HostType
  <2>2. script'.backup = [dirs[Live] EXCEPT !.marker = FALSE] /\ UNCHANGED <<backups, written, expected>>
    BY <1>3, NoScriptOk DEF BackupBegin, Begin, history, ScriptType
  <2> QED BY <2>1, <2>2, <1>0, <1>u
<1>4. CASE BackupStore
  <2>1. script.backup \in Dirs
    BY <1>0 DEF DirOk
  <2>2. /\ backups' \in Seq(Dirs)
        /\ \A b \in 1 .. Len(backups') :
             backups'[b] = script.backup \/ (b \in 1 .. Len(backups) /\ backups'[b] = backups[b])
    BY <1>4, <2>1, <1>0 DEF BackupStore
  <2>3. UNCHANGED <<written, expected>> /\ script'.backup = NoScript.backup
    BY <1>4 DEF BackupStore, Done, history
  <2> QED BY <2>2, <2>3, <1>0, <1>n DEF BackupInv
<1>5. CASE DeployStep
  <2>1. UNCHANGED <<backups, written, expected>>
    BY <1>5 DEF DeployStep, DeployMark, DeployStop, DeploySnapshot, DeploySnapshotDone,
       DeploySnapshotFails, DeployRestart, DeployRecord, DeployStart, DeployReady,
       DeployCheckFails, UndoStop, UndoAside, UndoBack, Rollback, RollbackUp, Command, history
  <2>2. Done \/ \E pc : Goto(pc)
    BY <1>5 DEF DeployStep, DeployMark, DeployStop, DeploySnapshot, DeploySnapshotDone,
       DeploySnapshotFails, DeployRestart, DeployRecord, DeployStart, DeployReady,
       DeployCheckFails, UndoStop, UndoAside, UndoBack, Rollback, RollbackUp
  <2> QED BY <2>1, <2>2, <1>0, <1>n, <1>u, <1>g DEF Done
<1>6. CASE RestoreStep
  <2>1. UNCHANGED <<backups, written>>
    BY <1>6 DEF RestoreStep, RestoreExtract, RestoreStop, RestoreAside, RestoreSwap, RestoreUp,
       RestoreReady, RestoreCheckFails, RevertStop, RevertAside, RevertBack, RevertUp,
       Command, history
  <2>2. Done \/ \E pc : Goto(pc)
    BY <1>6 DEF RestoreStep, RestoreExtract, RestoreStop, RestoreAside, RestoreSwap, RestoreUp,
       RestoreReady, RestoreCheckFails, RevertStop, RevertAside, RevertBack, RevertUp
  <2>3. RestoreReady => Exists(Live)
    BY DEF RestoreReady, Command, IInv, PlaceInv, RestoreInv
  <2>4. Exists(Live) => dirs[Live].writes \subseteq 1 .. written
    BY DEF IInv, DirsInv, Kept, DirOk, Exists
  <2>5. \/ expected' = expected
        \/ (RestoreReady /\ expected' = dirs[Live].writes)
    BY <1>6 DEF RestoreStep, RestoreExtract, RestoreStop, RestoreAside, RestoreSwap, RestoreUp,
       RestoreReady, RestoreCheckFails, RevertStop, RevertAside, RevertBack, RevertUp, history
  <2> QED BY <2>1, <2>2, <2>3, <2>4, <2>5, <1>0, <1>n, <1>u, <1>g DEF Done
<1>7. CASE AppMigrates \/ AppServes \/ WritePasses \/ InstallHost
  BY <1>7, <1>0, <1>u DEF AppMigrates, AppServes, WritePasses, InstallHost, history
<1>8. CASE WriteCommits
  <2>1. \A d : DirOk(d, written) => DirOk(d, written + 1)
    BY <1>0 DEF DirOk
  <2>2. UNCHANGED <<backups, script>> /\ written' = written + 1 /\ expected' \subseteq 1 .. (written + 1)
    BY <1>8, <1>0 DEF WriteCommits
  <2> QED BY <2>1, <2>2, <1>0 DEF BackupInv
<1>9. CASE StopFails \/ CommandFails \/ Killed \/ Reboot
  <2>1. UNCHANGED <<backups, written, expected>>
    BY <1>9 DEF StopFails, CommandFails, Killed, Reboot, history
  <2>2. Done \/ UNCHANGED script \/ \E pc : Goto(pc)
    BY <1>9 DEF StopFails, CommandFails, Killed, Reboot, Interrupted, Done
  <2> QED BY <2>1, <2>2, <1>0, <1>n, <1>u, <1>g DEF Done
<1> QED BY <1>1, <1>2, <1>3, <1>4, <1>5, <1>6, <1>7, <1>8, <1>9 DEF Next

-----------------------------------------------------------------------------
(* Where the directories are, command by command.                          *)

\* Every command of oveo-deploy.sh keeps the place invariant.
LEMMA DeployPlace ==
    ASSUME IInv, DeployStep
    PROVE  PlaceInv'
<1> USE DEF IInv, PlaceInv, AppInv, DeployInv, RestoreInv, GapInv, GateInv, Trial, LiveGood, Exists,
           Sibling, Live, DeployPcs, RestorePcs, HostType, AppType, ScriptType, ScriptOk, DirsInv,
           Kept, DirOk, Dirs
<1>1. CASE DeployMark
  <2>1. /\ script.pc = "mark" /\ script'.pc = "stop" /\ script'.migrating = script.migrating
        /\ Live \in DOMAIN dirs /\ dirs[Live] \in Dirs
        /\ dirs' = [dirs EXCEPT ![Live].marker = TRUE]
        /\ UNCHANGED <<app, inflight, expected, startedEmpty, leftBy, runs, faults>>
    BY <1>1 DEF DeployMark, Command, Goto, Marked, history
  <2>2. /\ DOMAIN dirs' = DOMAIN dirs /\ dirs'[Live].writes = dirs[Live].writes
        /\ dirs'[Live].db = dirs[Live].db /\ dirs'[Live].marker
        /\ \A n \in DOMAIN dirs : n # Live => dirs'[n] = dirs[n]
    BY <2>1
  <2> HIDE DEF Kept, HostType
  <2>3. AppInv' /\ GapInv' /\ GateInv'
    BY <2>1, <2>2
  <2>4. DeployInv' /\ RestoreInv'
    BY <2>1, <2>2
  <2> QED BY <2>3, <2>4
<1>2. CASE DeployStop
  BY <1>2 DEF DeployStop, Command, Goto, Stops, history
<1>3. CASE DeploySnapshot
  BY <1>3 DEF DeploySnapshot, Command, Goto, Empty, Put, history
<1>4. CASE DeploySnapshotDone
  <2>1. AppInv' /\ RestoreInv' /\ GapInv' /\ GateInv'
    BY <1>4 DEF DeploySnapshotDone, Command, Goto, Put, history
  <2>2. PICK pre, d : pre = Sibling("predeploy") /\ d = [dirs[Live] EXCEPT !.marker = FALSE]
    OBVIOUS
  <2>3. script.migrating /\ dirs[Live].marker /\ app.state = "stopped" /\ ~inflight
    BY <1>4 DEF DeploySnapshotDone, Command
  <2>4. pre # Live /\ pre # Sibling("failed-deploy") /\ dirs[Live] \in Dirs
    BY <1>4, <2>2 DEF DeploySnapshotDone, Command
  <2>5. ~d.marker /\ d.writes = dirs[Live].writes
    BY <2>2, <2>4
  <2>6. /\ script.pc = "copy" /\ script'.pc = "start" /\ script'.migrating = script.migrating
        /\ DOMAIN dirs' = DOMAIN dirs \cup {pre} /\ dirs'[pre] = d
        /\ \A n \in DOMAIN dirs : n # pre => dirs'[n] = dirs[n]
        /\ UNCHANGED <<app, inflight, expected, startedEmpty, runs>>
    BY <1>4, <2>2 DEF DeploySnapshotDone, Command, Goto, Put, history
  <2>7. DeployInv'
    BY <2>2, <2>3, <2>4, <2>5, <2>6
  <2> QED BY <2>1, <2>7
<1>5. CASE DeploySnapshotFails
  BY <1>5 DEF DeploySnapshotFails, Command, Goto, Remove, history
<1>6. CASE DeployRestart
  BY <1>6 DEF DeployRestart, Command, Done, NoScript, Empty, Up, history
<1>7. CASE DeployRecord
  BY <1>7 DEF DeployRecord, Command, Goto, history
<1>8. CASE DeployStart
  BY <1>8 DEF DeployStart, Command, Goto, Up, history
<1>9. CASE DeployReady
  <2>1. DeployInv' /\ RestoreInv' /\ GapInv' /\ GateInv'
    BY <1>9 DEF DeployReady, Command, Done, NoScript, Marked, history
  <2>2. /\ script.pc = "ready" /\ script'.pc = "none" /\ Live \in DOMAIN dirs
        /\ dirs[Live] \in Dirs /\ dirs' = [dirs EXCEPT ![Live].marker = FALSE]
        /\ UNCHANGED <<app, inflight, expected, startedEmpty, faults>>
    BY <1>9 DEF DeployReady, Command, Done, NoScript, Marked, history
  <2>3. /\ DOMAIN dirs' = DOMAIN dirs /\ dirs'[Live].writes = dirs[Live].writes
        /\ dirs'[Live].db = dirs[Live].db /\ ~dirs'[Live].marker
        /\ \A n \in DOMAIN dirs : n # Live => dirs'[n] = dirs[n]
    BY <2>2
  <2>4. AppInv'
    BY <2>2, <2>3
  <2> QED BY <2>1, <2>4
<1>10. CASE DeployCheckFails
  BY <1>10 DEF DeployCheckFails, Command, Goto, host, history
<1>11. CASE UndoStop
  BY <1>11 DEF UndoStop, Command, Goto, Stops, history
<1>12. CASE UndoAside
  BY <1>12 DEF UndoAside, Command, Goto, Rename, history
<1>13. CASE UndoBack
  BY <1>13 DEF UndoBack, Command, Goto, Rename, history
<1>14. CASE Rollback
  BY <1>14 DEF Rollback, Command, Goto, Done, NoScript, Empty, history
<1>15. CASE RollbackUp
  BY <1>15 DEF RollbackUp, Command, Done, NoScript, Empty, Up, history
<1> QED
  BY <1>1, <1>2, <1>3, <1>4, <1>5, <1>6, <1>7, <1>8, <1>9, <1>10, <1>11, <1>12, <1>13, <1>14,
     <1>15 DEF DeployStep

\* Every command of oveo-restore.sh keeps it.
LEMMA RestorePlace ==
    ASSUME IInv, RestoreStep
    PROVE  PlaceInv'
<1> USE DEF IInv, PlaceInv, AppInv, DeployInv, RestoreInv, GapInv, GateInv, Trial, LiveGood, Exists,
           Sibling, Live, DeployPcs, RestorePcs, HostType, AppType, ScriptType, ScriptOk, DirsInv,
           Kept, DirOk, Dirs
<1>1. CASE RestoreExtract
  <2>1. DeployInv' /\ RestoreInv' /\ GapInv' /\ GateInv'
    BY <1>1 DEF RestoreExtract, Command, Goto, Done, NoScript, Put, Remove, history
  <2>2. PICK new : new = Sibling("restore")
    OBVIOUS
  <2>3. /\ script.pc = "extract" /\ UNCHANGED <<app, inflight, expected, startedEmpty, faults>>
        /\ \/ DOMAIN dirs' = DOMAIN dirs \cup {new}
           \/ DOMAIN dirs' = DOMAIN dirs \ {new}
        /\ \A n \in DOMAIN dirs : n # new => dirs'[n] = dirs[n]
    BY <1>1, <2>2 DEF RestoreExtract, Command, Put, Remove, history
  <2>4. new \in DOMAIN dirs /\ ~dirs[new].marker /\ new # Live
    BY <2>2, <2>3 DEF Empty
  <2>5. PICK on : on = app.on
    OBVIOUS
  <2>6. app.state # "stopped" => on # new
    BY <2>4, <2>5
  <2>7. \A n : n # new => (n \in DOMAIN dirs' <=> n \in DOMAIN dirs)
    BY <2>3
  <2> HIDE DEF Kept, HostType, DirsInv, DeployInv, RestoreInv, GapInv, GateInv, Live, Sibling
  <2>8. AppInv'
    BY <2>3, <2>4, <2>5, <2>6, <2>7
  <2> QED BY <2>1, <2>8
<1>2. CASE RestoreStop
  BY <1>2 DEF RestoreStop, Command, Goto, Stops, history
<1>3. CASE RestoreAside
  BY <1>3 DEF RestoreAside, Command, Goto, Done, NoScript, Empty, Rename, host, history
<1>4. CASE RestoreSwap
  BY <1>4 DEF RestoreSwap, Command, Goto, Rename, history
<1>5. CASE RestoreUp
  BY <1>5 DEF RestoreUp, Command, Goto, Up, history
<1>6. CASE RestoreReady
  <2>1. DeployInv' /\ RestoreInv' /\ GapInv'
    BY <1>6 DEF RestoreReady, Command, Done, NoScript, Marked
  <2>2. /\ script.pc = "restoreReady" /\ script'.pc = "none" /\ Live \in DOMAIN dirs
        /\ dirs[Live] \in Dirs /\ dirs' = [dirs EXCEPT ![Live].marker = FALSE]
        /\ expected' = dirs[Live].writes /\ UNCHANGED <<app, inflight, faults>>
    BY <1>6 DEF RestoreReady, Command, Done, NoScript, Marked
  <2>3. /\ DOMAIN dirs' = DOMAIN dirs /\ dirs'[Live].writes = dirs[Live].writes
        /\ dirs'[Live].db = dirs[Live].db /\ ~dirs'[Live].marker
        /\ \A n \in DOMAIN dirs : n # Live => dirs'[n] = dirs[n]
    BY <2>2
  <2>4. AppInv' /\ GateInv'
    BY <2>2, <2>3
  <2> QED BY <2>1, <2>4
<1>7. CASE RestoreCheckFails
  BY <1>7 DEF RestoreCheckFails, Command, Goto, host, history
<1>8. CASE RevertStop
  BY <1>8 DEF RevertStop, Command, Goto, Stops, history
<1>9. CASE RevertAside
  BY <1>9 DEF RevertAside, Command, Goto, Rename, history
<1>10. CASE RevertBack
  BY <1>10 DEF RevertBack, Command, Goto, Rename, history
<1>11. CASE RevertUp
  <2>1. DeployInv' /\ RestoreInv' /\ GapInv' /\ GateInv'
    BY <1>11 DEF RevertUp, Command, Done, NoScript, Up
  <2>2. /\ Live \in DOMAIN dirs /\ dirs' = dirs /\ UNCHANGED <<expected, faults>>
        /\ startedEmpty' = (startedEmpty \/ ~dirs[Live].db)
        /\ \/ UNCHANGED <<app, inflight>>
           \/ app'.state = "starting" /\ app'.on = Live /\ ~inflight'
    BY <1>11 DEF RevertUp, Command, Up
  <2>3. ~dirs[Live].marker => startedEmpty' \/ dirs[Live].writes = expected'
    BY <2>2
  <2>4. AppInv'
    BY <2>2, <2>3
  <2> QED BY <2>1, <2>4
<1> QED
  BY <1>1, <1>2, <1>3, <1>4, <1>5, <1>6, <1>7, <1>8, <1>9, <1>10, <1>11 DEF RestoreStep

\* A write is committed to the live directory, and changes nothing else there.
LEMMA WriteCommitsIs ==
    ASSUME IInv, WriteCommits
    PROVE  /\ Live \in DOMAIN dirs /\ DOMAIN dirs' = DOMAIN dirs
           /\ dirs'[Live].marker = dirs[Live].marker /\ dirs'[Live].db = dirs[Live].db
           /\ dirs'[Live].writes = dirs[Live].writes \cup {written + 1}
           /\ \A n \in DOMAIN dirs : n # Live => dirs'[n] = dirs[n]
<1>1. app.on = Live /\ Live \in DOMAIN dirs
  BY DEF WriteCommits, IInv, PlaceInv, AppInv, Exists
<1>2. dirs[Live] \in Dirs
  BY <1>1 DEF IInv, DirsInv, Kept, DirOk
<1>3. dirs' = [dirs EXCEPT ![Live].writes = @ \cup {written + 1}]
  BY <1>1 DEF WriteCommits
<1> QED BY <1>1, <1>2, <1>3 DEF Dirs

\* A container that ran before a reboot starts on the live directory.
LEMMA RebootIs ==
    ASSUME Reboot, app \in AppType
    PROVE  \/ app' = app /\ app.state = "stopped"
           \/ app.state # "stopped" /\ app'.state = "starting" /\ app'.on = Live
BY DEF Reboot, AppType

\* So do a backup, the application, and what may go wrong.
LEMMA OtherPlace ==
    ASSUME IInv,
           BackupBegin \/ BackupStore \/ AppMigrates \/ AppServes \/ WritePasses
            \/ WriteCommits \/ StopFails \/ CommandFails \/ Killed \/ Reboot \/ InstallHost
    PROVE  PlaceInv'
<1> USE DEF IInv, PlaceInv, AppInv, DeployInv, RestoreInv, GapInv, GateInv, Trial, LiveGood, Exists,
           Sibling, Live, DeployPcs, RestorePcs, HostType, AppType, ScriptType, ScriptOk, DirsInv,
           Kept, DirOk, Dirs
<1>1. CASE BackupBegin
  BY <1>1 DEF BackupBegin, NoScript, Empty, Begin, host, history
<1>2. CASE BackupStore
  BY <1>2 DEF BackupStore, Done, NoScript, Empty, host, history
<1>3. CASE AppMigrates
  <2>1. GapInv' /\ GateInv'
    BY SMTT(30), <1>3 DEF AppMigrates, history
  <2>2. PICK on : on = app.on
    OBVIOUS
  <2>3. on \in DOMAIN dirs /\ dirs[on] \in Dirs /\ app.state = "starting"
    BY <1>3, <2>2 DEF AppMigrates
  <2>4. /\ dirs' = [dirs EXCEPT ![on].db = TRUE, ![on].rev = HeadOf[app.image]]
        /\ UNCHANGED <<app, inflight, script, expected, startedEmpty, leftBy, runs, faults>>
    BY <1>3, <2>2 DEF AppMigrates, history
  <2>5. /\ DOMAIN dirs' = DOMAIN dirs
        /\ dirs'[on].writes = dirs[on].writes /\ dirs'[on].marker = dirs[on].marker
        /\ \A n \in DOMAIN dirs : n # on => dirs'[n] = dirs[n]
    BY <2>3, <2>4
  <2>6. on = Live \/ dirs[on].marker
    BY <2>2, <2>3
  <2> HIDE DEF Kept, HostType
  <2>7. DeployInv'
    BY <2>2, <2>3, <2>4, <2>5, <2>6 DEF Empty
  <2>8. RestoreInv'
    BY <2>2, <2>3, <2>4, <2>5, <2>6 DEF Empty
  <2>9. AppInv'
    BY <2>2, <2>3, <2>4, <2>5, <2>6
  <2> QED BY <2>1, <2>7, <2>8, <2>9
<1>4. CASE AppServes
  BY <1>4 DEF AppServes, history
<1>5. CASE WritePasses
  <2>1. AppInv' /\ DeployInv' /\ GapInv' /\ GateInv'
    BY <1>5 DEF WritePasses, Gated, history
  <2>2. /\ app.on = Live /\ app.state = "serving" /\ ~dirs[Live].marker
        /\ UNCHANGED <<dirs, app, script, expected, startedEmpty, leftBy, runs>>
    BY <1>5 DEF WritePasses, Gated, history
  <2>3. script.pc \notin RestorePcs \ {"extract", "restoreStop", "revertUp"}
    BY <2>2
  <2>4. RestoreInv'
    BY <2>2, <2>3
  <2> QED BY <2>1, <2>4
<1>6. CASE WriteCommits
  <2>1. app.on = Live /\ app.state = "serving" /\ inflight
    BY <1>6 DEF WriteCommits
  <2>2. /\ expected' = expected \cup {written + 1} /\ ~inflight'
        /\ UNCHANGED <<script, leftBy, startedEmpty, app, runs, faults>>
    BY <1>6 DEF WriteCommits
  <2>3. /\ Live \in DOMAIN dirs /\ DOMAIN dirs' = DOMAIN dirs
        /\ dirs'[Live].marker = dirs[Live].marker /\ dirs'[Live].db = dirs[Live].db
        /\ dirs'[Live].writes = dirs[Live].writes \cup {written + 1}
        /\ \A n \in DOMAIN dirs : n # Live => dirs'[n] = dirs[n]
    BY <1>6, WriteCommitsIs
  <2>4. \A k \in Kinds : Sibling(k) # Live
    BY DEF Kinds
  <2> HIDE DEF Kept, HostType, IInv
  <2>5. PlaceInv
    BY DEF IInv
  <2>6. script.pc \notin RestorePcs \ {"extract", "restoreStop", "revertUp"}
    BY <2>1, <2>5
  <2>7. ~Trial /\ script.pc # "undoBack"
    BY <2>1, <2>5
  <2>8. AppInv' /\ GapInv' /\ GateInv'
    BY <2>1, <2>2, <2>3, <2>5
  <2>9. RestoreInv'
    BY <2>1, <2>2, <2>3, <2>4, <2>5, <2>6 DEF Kinds
  <2>10. DeployInv'
    BY <2>1, <2>2, <2>3, <2>4, <2>5, <2>7 DEF Kinds
  <2> QED BY <2>8, <2>9, <2>10
<1>7. CASE StopFails
  BY SMTT(30), <1>7 DEF StopFails, Goto, Done, NoScript, Empty, Marked, history
<1>8. CASE Killed
  <2>1. AppInv' /\ DeployInv' /\ RestoreInv' /\ GapInv'
    BY <1>8 DEF Killed, Fault, Interrupted, NoScript, host
  <2>2. leftBy' # "none"
    BY <1>8 DEF Killed, Interrupted
  <2> QED BY <2>1, <2>2
<1>9. CASE Reboot
  <2>1. /\ faults # MaxFaults /\ ~inflight' /\ script'.pc = "none" /\ UNCHANGED <<expected, startedEmpty>>
        /\ \/ script.pc = "none" /\ leftBy' = leftBy
           \/ script.pc # "none" /\ leftBy' = script.name
    BY <1>9, HostAssumption DEF Reboot, Fault, Interrupted, NoScript
  <2>2. app.state # "stopped" => app.on = Live /\ Live \in DOMAIN dirs
    BY <2>1
  <2>3. app \in AppType
    OBVIOUS
  <2>4. dirs' = dirs
    BY <1>9, <2>2 DEF Reboot
  <2>5. \/ app' = app /\ app.state = "stopped"
        \/ app.state # "stopped" /\ app'.state = "starting" /\ app'.on = Live
    BY <1>9, <2>3, RebootIs
  <2>6. AppInv'
    BY <2>1, <2>2, <2>4, <2>5
  <2>7. DeployInv' /\ RestoreInv' /\ GapInv' /\ GateInv'
    BY <2>1, <2>4
  <2> QED BY <2>6, <2>7
<1>10. CASE InstallHost
  BY <1>10 DEF InstallHost, Empty, Put, history
<1>11. CASE CommandFails
  <2>1. /\ script'.pc = "none" /\ leftBy' # "none"
        /\ UNCHANGED <<app, inflight, expected, startedEmpty>>
    BY <1>11 DEF CommandFails, Interrupted, NoScript
  <2>2. faults = MaxFaults => faults' = MaxFaults
    BY <1>11 DEF CommandFails, Fault
  <2>3. PICK pre : pre = Sibling("predeploy") /\ pre # Live
    BY DEF Kinds
  <2>4. \/ UNCHANGED dirs
        \/ /\ script.pc = "copy" /\ dirs[pre] = Empty
           /\ DOMAIN dirs' = DOMAIN dirs \ {pre}
           /\ \A n \in DOMAIN dirs : n # pre => dirs'[n] = dirs[n]
    BY <1>11, <2>3 DEF CommandFails, Remove
  <2>5. AppInv'
    BY <2>1, <2>2, <2>3, <2>4 DEF Empty
  <2>6. DeployInv' /\ RestoreInv' /\ GapInv' /\ GateInv'
    BY <2>1
  <2> QED BY <2>5, <2>6
<1> QED
  BY <1>1, <1>2, <1>3, <1>4, <1>5, <1>6, <1>7, <1>8, <1>9, <1>10, <1>11

\* A deployment starts on data that is complete, under names nobody used.
LEMMA DeployBeginPlace ==
    ASSUME IInv, NEW i \in Images, DeployBegin(i)
    PROVE  PlaceInv'
<1>1. runs \in Nat /\ Kept(dirs, runs, written) /\ app \in AppType /\ written \in Nat
  BY DEF IInv, HostType, DirsInv
<1>2. \A k \in Kinds : <<k, runs + 1>> \notin DOMAIN dirs /\ <<k, runs + 1>> # Live
  BY <1>1, NamesDiffer DEF Kept
<1>3. PICK d : /\ d = IF Exists(Live) THEN dirs[Live] ELSE Empty
               /\ dirs' = Put(Live, d) /\ runs' = runs + 1
               /\ UNCHANGED <<app, inflight, expected, startedEmpty, leftBy, faults>>
               /\ script.pc = "none"
  BY DEF DeployBegin, Begin, history
<1>4. /\ Exists(Live) => ~dirs[Live].marker
      /\ (Exists(Live) /\ dirs[Live].db) \/ DOMAIN dirs \subseteq {Live}
  BY DEF DeployBegin, SafeToDeploy
<1>5. PICK m \in BOOLEAN : /\ script'.pc = IF m THEN "mark" ELSE "start"
                           /\ script'.migrating = m /\ (m => d.db)
  <2>1. d.db \in BOOLEAN
    BY <1>1, <1>3 DEF Kept, DirOk, Dirs, Empty, Exists
  <2>2. \E m \in BOOLEAN : /\ m => d.db
          /\ script' = [NoScript EXCEPT !.pc = (IF m THEN "mark" ELSE "start"), !.name = "deploy",
                                     !.image = i, !.previous = env, !.migrating = m]
    BY <1>3, <2>1 DEF DeployBegin, Begin
  <2> QED BY <2>2, NoScriptOk DEF ScriptType
<1>6. /\ DOMAIN dirs' = DOMAIN dirs \cup {Live} /\ dirs'[Live] = d
      /\ \A n \in DOMAIN dirs : dirs'[n] = dirs[n]
  BY <1>3 DEF Put, Exists
<1>7. ~d.marker
  BY <1>3, <1>4, EmptyOk, <1>1
<1>8. startedEmpty \/ d.writes = expected
  <2>1. CASE Exists(Live) /\ dirs[Live].db
    BY <2>1, <1>3, <1>4 DEF IInv, PlaceInv, AppInv, LiveGood
  <2>2. CASE ~(Exists(Live) /\ dirs[Live].db)
    <3>1. d.writes = {} /\ \A n \in DOMAIN dirs : dirs[n].writes = {}
      BY <2>2, <1>1, <1>3, <1>4, EmptyOk DEF Kept, DirOk, Exists
    <3>2. 1 .. written = {}
      BY <3>1, <1>1 DEF Kept
    <3> QED BY <3>1, <3>2 DEF IInv, BackupInv
  <2> QED BY <2>1, <2>2
<1>9. AppInv'
  BY <1>3, <1>6, <1>7, <1>8 DEF IInv, PlaceInv, AppInv, LiveGood, Exists
<1>10. \A k \in Kinds : Sibling(k)' \notin DOMAIN dirs'
  BY <1>2, <1>3, <1>6 DEF Sibling
<1>11. DeployInv'
  BY <1>3, <1>5, <1>6, <1>7, <1>8, <1>10 DEF DeployInv, Trial, LiveGood, Exists, DeployPcs, Kinds
<1>12. RestoreInv' /\ GapInv' /\ GateInv'
  BY <1>5 DEF RestoreInv, GapInv, GateInv, RestorePcs
<1> QED BY <1>9, <1>11, <1>12 DEF PlaceInv

\* A restore starts beside the live data, under names nobody used.
LEMMA RestoreBeginPlace ==
    ASSUME IInv, NEW b \in 1 .. Len(backups), RestoreBegin(b)
    PROVE  PlaceInv'
<1>1. runs \in Nat /\ Kept(dirs, runs, written)
  BY DEF IInv, HostType, DirsInv
<1>2. /\ \A k \in Kinds : <<k, runs + 1>> \notin DOMAIN dirs /\ <<k, runs + 1>> # Live
      /\ \A j, k \in Kinds : j # k => <<j, runs + 1>> # <<k, runs + 1>>
  BY <1>1, NamesDiffer DEF Kept
<1>3. PICK new : /\ new = <<"restore", runs + 1>> /\ dirs' = Put(new, Empty) /\ runs' = runs + 1
                 /\ UNCHANGED <<app, inflight, expected, startedEmpty, leftBy, faults>> /\ script.pc = "none"
  BY DEF RestoreBegin, Begin, history
<1>4. script'.pc = "extract"
  BY NoScriptOk DEF RestoreBegin, Begin, ScriptType
<1>5. /\ DOMAIN dirs' = DOMAIN dirs \cup {new} /\ dirs'[new] = Empty
      /\ \A n \in DOMAIN dirs : dirs'[n] = dirs[n]
  BY <1>2, <1>3 DEF Put, Kinds
<1>6. /\ new # Live /\ Sibling("restore")' = new
      /\ Sibling("pre-restore")' \notin DOMAIN dirs' /\ Sibling("failed-restore")' \notin DOMAIN dirs'
  BY <1>2, <1>3, <1>5 DEF Sibling, Kinds
<1>7. AppInv'
  BY <1>3, <1>5, <1>6 DEF IInv, PlaceInv, AppInv, LiveGood, Exists
<1>8. RestoreInv'
  BY <1>4, <1>5, <1>6 DEF RestoreInv, RestorePcs, Exists
<1>9. DeployInv' /\ GapInv'
  BY <1>4 DEF DeployInv, Trial, GapInv, DeployPcs
<1>10. GateInv'
  BY <1>3, <1>5, <1>6 DEF IInv, PlaceInv, GateInv, Exists
<1> QED BY <1>7, <1>8, <1>9, <1>10 DEF PlaceInv

-----------------------------------------------------------------------------
(* What a directory without a database takes.                              *)

\* Directories keep their databases while nothing else moves.
LEMMA CutKeeps ==
    ASSUME IInv, UNCHANGED <<script, backups, leftBy, startedEmpty, runs>>,
           DOMAIN dirs' = DOMAIN dirs, \A n \in DOMAIN dirs : dirs[n].db => dirs'[n].db
    PROVE  CutInv'
BY DEF IInv, PlaceInv, DeployInv, RestoreInv, CutInv, Gap, Trial, Exists, Sibling

\* Every step keeps a database in what may become the live directory, until a
\* script does not run to its end.
LEMMA CutStep ==
    ASSUME IInv, Next
    PROVE  CutInv'
<1>0. /\ \A b \in 1 .. Len(backups) : backups[b].db
      /\ script \in ScriptType
      /\ script.pc # "none" => script.name # "none"
      /\ leftBy = "none" => ~startedEmpty /\ (~Gap => Exists(Live) /\ dirs[Live].db)
      /\ runs \in Nat /\ backups \in Seq(Dirs) /\ script.backup \in Dirs
      /\ \A n \in DOMAIN dirs : dirs[n] \in Dirs
      /\ \A k \in Kinds : <<k, runs>> # Live /\ <<k, runs + 1>> \notin DOMAIN dirs
  BY NamesDiffer DEF IInv, CutInv, HostType, ScriptOk, BackupInv, DirsInv, Kept, DirOk
<1>n. NoScript.pc = "none"
  BY NoScriptOk
\* A script that does not run to its end leaves the rest of the invariant void.
<1>i. ASSUME Interrupted, backups' = backups
      PROVE  CutInv'
  <2>0. script.name # "none"
    BY <1>i, <1>0 DEF Interrupted
  <2>1. script'.pc = "none" /\ leftBy' # "none"
    BY <2>0, <1>i, <1>n DEF Interrupted
  <2>2. \A b \in 1 .. Len(backups') : backups'[b].db
    BY <1>i, <1>0
  <2> QED BY <2>1, <2>2 DEF CutInv
<1>1. ASSUME NEW i \in Images, DeployBegin(i)
      PROVE  CutInv'
  <2>1. script'.pc \in {"mark", "start"} /\ (script'.pc = "start" => ~script'.migrating)
    BY <1>1, NoScriptOk DEF DeployBegin, Begin, ScriptType
  <2>2. UNCHANGED <<backups, leftBy, startedEmpty>> /\ script.pc = "none"
    BY <1>1 DEF DeployBegin, Begin, history
  <2>3. Exists(Live) /\ dirs[Live].db => Exists(Live)' /\ dirs'[Live].db
    BY <1>1 DEF DeployBegin, Put, Exists
  <2> QED BY <2>1, <2>2, <2>3, <1>0 DEF CutInv, Gap, Trial
<1>2. ASSUME NEW b \in 1 .. Len(backups), RestoreBegin(b)
      PROVE  CutInv'
  <2>1. script'.pc = "extract" /\ script'.backup = backups[b]
    BY <1>2, NoScriptOk DEF RestoreBegin, Begin, ScriptType
  <2>2. UNCHANGED <<backups, leftBy, startedEmpty>> /\ script.pc = "none"
    BY <1>2 DEF RestoreBegin, Begin, history
  <2>3. Exists(Live) => Exists(Live)' /\ dirs'[Live] = dirs[Live]
    BY <1>2, <1>0 DEF RestoreBegin, Put, Exists, Kinds
  <2> QED BY <2>1, <2>2, <2>3, <1>0 DEF CutInv, Gap, Trial
<1>3. CASE BackupBegin
  <2>1. script'.pc = "archive" /\ script'.backup.db
    BY <1>3, <1>0, NoScriptOk DEF BackupBegin, Begin, ScriptType, Dirs, Exists
  <2>2. UNCHANGED <<dirs, backups, leftBy, startedEmpty>> /\ script.pc = "none"
    BY <1>3 DEF BackupBegin, Begin, history, host
  <2> QED BY <2>1, <2>2, <1>0 DEF CutInv, Gap, Trial, Exists
<1>4. CASE BackupStore
  <2>1. \A b \in 1 .. Len(backups') :
          backups'[b] = script.backup \/ (b \in 1 .. Len(backups) /\ backups'[b] = backups[b])
    BY <1>4, <1>0 DEF BackupStore
  <2>2. script'.pc = "none" /\ script.pc = "archive" /\ UNCHANGED <<dirs, leftBy, startedEmpty>>
    BY <1>4, <1>n DEF BackupStore, Done, history, host
  <2>3. script.backup.db
    BY <2>2 DEF IInv, CutInv
  <2> QED BY <2>1, <2>2, <2>3, <1>0 DEF CutInv, Gap, Trial, Exists
<1>k. /\ \A k \in Kinds : Sibling(k) # Live
      /\ \A j, k \in Kinds : j # k => Sibling(j) # Sibling(k)
      /\ {"predeploy", "failed-deploy", "restore", "pre-restore", "failed-restore"} \subseteq Kinds
  BY <1>0, NamesDiffer DEF Sibling, Kinds
<1>g. ASSUME NEW pc, Goto(pc)
      PROVE  /\ script'.pc = pc /\ script'.migrating = script.migrating
             /\ script'.backup = script.backup
  BY <1>g, <1>0 DEF Goto, ScriptType
<1>s. runs' = runs => \A k : Sibling(k)' = Sibling(k)
  BY DEF Sibling
<1>5. CASE DeployStep
  <2>1. UNCHANGED <<backups, leftBy, startedEmpty, runs>>
    BY <1>5 DEF DeployStep, DeployMark, DeployStop, DeploySnapshot, DeploySnapshotDone,
       DeploySnapshotFails, DeployRestart, DeployRecord, DeployStart, DeployReady,
       DeployCheckFails, UndoStop, UndoAside, UndoBack, Rollback, RollbackUp, Command, history
  \* Commands that only start, stop or mark.
  <2>2. CASE \/ DeployMark \/ DeployStop \/ DeployRestart \/ DeployRecord \/ DeployStart \/ DeployReady
             \/ DeployCheckFails \/ UndoStop \/ Rollback \/ RollbackUp
    <3>1. DOMAIN dirs' = DOMAIN dirs /\ \A n \in DOMAIN dirs : dirs'[n].db = dirs[n].db
      BY <2>2, <1>0 DEF DeployMark, DeployStop, DeployRestart, DeployRecord, DeployStart, DeployReady,
         DeployCheckFails, UndoStop, Rollback, RollbackUp, Marked, Dirs, host
    <3>2. /\ script.pc \in DeployPcs \ {"undoBack"}
          /\ script'.pc \in {"none", "stop", "snapshot", "up", "ready", "undo", "rollback",
                            "undoAside", "rollbackUp"}
          /\ Trial' => Trial
      <4>1. script.pc \in DeployPcs \ {"undoBack"}
        BY <2>2 DEF DeployMark, DeployStop, DeployRestart, DeployRecord, DeployStart, DeployReady,
           DeployCheckFails, UndoStop, Rollback, RollbackUp, Command, DeployPcs
      <4>2. \/ Goto("stop") \/ Goto("snapshot") \/ Goto("rollbackUp") \/ Goto("rollback") \/ Done
            \/ Goto("undo") /\ script.migrating /\ script.pc \in {"start", "up", "ready"}
            \/ Goto("up") /\ script.pc = "start"
            \/ Goto("ready") /\ script.pc = "up"
            \/ Goto("undoAside") /\ script.pc = "undo"
        BY <2>2 DEF DeployMark, DeployStop, DeployRestart, DeployRecord, DeployStart, DeployReady,
           DeployCheckFails, UndoStop, Rollback, RollbackUp, Command
      <4> QED BY <4>1, <4>2, <1>0, <1>n DEF Trial, Done, Goto, ScriptType
    <3>3. Trial => Exists(Sibling("predeploy"))
      BY DEF IInv, PlaceInv, DeployInv
    <3>4. script'.pc # "undoBack" /\ ~Gap /\ script'.pc \notin {"archive"} \cup RestorePcs
      BY <3>2 DEF Gap, DeployPcs, RestorePcs
    <3>5. leftBy = "none" /\ Trial' => dirs'[Sibling("predeploy")].db
      BY <3>1, <3>2, <3>3 DEF IInv, CutInv, Exists
    <3>6. leftBy = "none" => Exists(Live)' /\ dirs'[Live].db
      BY <3>1, <3>4, <1>0 DEF Exists
    <3> QED BY <2>1, <3>4, <3>5, <3>6, <1>0, <1>s DEF CutInv, RestorePcs
  <2>3. CASE DeploySnapshot \/ DeploySnapshotFails
    <3>1. Exists(Live) => Exists(Live)' /\ dirs'[Live].db = dirs[Live].db
      <4>1. Live # Sibling("predeploy") /\ (Exists(Live) => dirs[Live] \in Dirs)
        BY <1>0, <1>k DEF Exists
      <4>2. CASE DeploySnapshot
        BY <4>1, <4>2 DEF DeploySnapshot, Put, Exists
      <4>3. CASE DeploySnapshotFails
        <5> DEFINE rest == Remove(Sibling("predeploy"))
        <5>1. dirs' = [rest EXCEPT ![Live].marker = FALSE]
          BY <4>3 DEF DeploySnapshotFails
        <5>2. Exists(Live) => Live \in DOMAIN rest /\ rest[Live] = dirs[Live]
          BY <4>1 DEF Remove, Exists
        <5> HIDE DEF rest
        <5> QED BY <4>1, <5>1, <5>2 DEF Exists, Dirs
      <4> QED BY <2>3, <4>2, <4>3
    <3>2. script.pc \in {"snapshot", "copy"} /\ script'.pc \in {"copy", "restart"}
      BY <2>3, <1>g DEF DeploySnapshot, DeploySnapshotFails, Command
    <3> QED BY <2>1, <3>1, <3>2, <1>0 DEF CutInv, Gap, Trial
  <2>4. CASE DeploySnapshotDone
    <3>1. /\ Exists(Live) => Exists(Live)' /\ dirs'[Live] = dirs[Live]
          /\ Exists(Live) => dirs'[Sibling("predeploy")].db = dirs[Live].db
      BY <2>4, <1>0, <1>k DEF DeploySnapshotDone, Put, Exists, Dirs
    <3>2. script.pc = "copy" /\ script'.pc = "start"
      BY <2>4, <1>g DEF DeploySnapshotDone, Command
    <3> QED BY <2>1, <3>1, <3>2, <1>0, <1>s DEF CutInv, Gap, Trial
  <2>5. CASE UndoAside
    <3>1. script.pc = "undoAside" /\ script'.pc = "undoBack"
      BY <2>5, <1>g DEF UndoAside, Command
    <3>2. Exists(Sibling("predeploy")) => dirs'[Sibling("predeploy")] = dirs[Sibling("predeploy")]
      BY <2>5, <1>k DEF UndoAside, Rename, Exists
    <3>3. Exists(Sibling("predeploy"))
      BY <3>1 DEF IInv, PlaceInv, DeployInv, Trial
    <3> QED BY <2>1, <3>1, <3>2, <3>3, <1>0, <1>s DEF IInv, CutInv, Gap, Trial
  <2>6. CASE UndoBack
    <3>1. script.pc = "undoBack" /\ script'.pc = "rollback"
      BY <2>6, <1>g DEF UndoBack, Command
    <3>2. Exists(Live)' /\ dirs'[Live] = dirs[Sibling("predeploy")]
      BY <2>6 DEF UndoBack, Rename, Exists
    <3> QED BY <2>1, <3>1, <3>2, <1>0 DEF IInv, CutInv, Gap, Trial
  <2> QED BY <1>5, <2>2, <2>3, <2>4, <2>5, <2>6 DEF DeployStep
<1>6. CASE RestoreStep
  <2> DEFINE old == Sibling("pre-restore")
  <2>1. UNCHANGED <<backups, leftBy, runs>>
    BY <1>6 DEF RestoreStep, RestoreExtract, RestoreStop, RestoreAside, RestoreSwap, RestoreUp,
       RestoreReady, RestoreCheckFails, RevertStop, RevertAside, RevertBack, RevertUp, Command, history
  <2>o. script.pc \in {"restoreSwap", "restoreUp", "restoreReady", "revert", "revertAside", "revertBack"}
          => Exists(old)
    BY DEF IInv, PlaceInv, RestoreInv
  \* Commands that only start, stop or mark.
  <2>2. CASE RestoreStop \/ RestoreUp \/ RestoreReady \/ RestoreCheckFails \/ RevertStop
    <3>1. DOMAIN dirs' = DOMAIN dirs /\ \A n \in DOMAIN dirs : dirs'[n].db = dirs[n].db
      BY <2>2, <1>0 DEF RestoreStop, RestoreUp, RestoreReady, RestoreCheckFails, RevertStop, Marked,
         Dirs, host
    <3>2. /\ \/ script.pc = "restoreStop" /\ script'.pc = "restoreAside"
             \/ /\ script.pc \in {"restoreUp", "restoreReady", "revert"}
                /\ script'.pc \in {"none", "restoreReady", "revert", "revertAside"}
          /\ startedEmpty' = startedEmpty \/ ~startedEmpty'
      BY <2>2, <1>g, <1>n DEF RestoreStop, RestoreUp, RestoreReady, RestoreCheckFails, RevertStop,
         Command, Done, history
    <3>3. script.pc = "restoreStop" => Exists(Sibling("restore"))
      BY DEF IInv, PlaceInv, RestoreInv
    <3> QED BY <2>1, <2>o, <3>1, <3>2, <3>3, <1>0, <1>s DEF IInv, CutInv, Gap, Trial, Exists
  <2>3. CASE RestoreExtract
    <3>1. Exists(Live) => Exists(Live)' /\ dirs'[Live] = dirs[Live]
      BY <2>3, <1>k DEF RestoreExtract, Put, Remove, Exists
    <3>2. script.pc = "extract" /\ startedEmpty' = startedEmpty
      BY <2>3 DEF RestoreExtract, Command, history
    <3>3. script.backup.db
      BY <3>2 DEF IInv, CutInv
    <3>4. CASE Done
      <4>1. script'.pc = "none"
        BY <3>4, <1>n DEF Done
      <4> QED BY <2>1, <3>1, <3>2, <4>1, <1>0 DEF CutInv, Gap, Trial
    <3>5. CASE Goto("restoreStop") /\ dirs' = Put(Sibling("restore"), [script.backup EXCEPT !.marker = TRUE])
      <4>1. script'.pc = "restoreStop"
        BY <3>5, <1>g
      <4>2. [script.backup EXCEPT !.marker = TRUE].db
        BY <3>3, <1>0 DEF Dirs
      <4>3. dirs'[Sibling("restore")].db
        BY <3>5, <4>2 DEF Put
      <4> QED BY <2>1, <3>1, <3>2, <4>1, <4>3, <1>0, <1>s DEF CutInv, Gap, Trial
    <3> QED BY <2>3, <3>4, <3>5 DEF RestoreExtract
  <2>4. CASE RestoreAside
    <3>1. /\ script.pc = "restoreAside" /\ startedEmpty' = startedEmpty
          /\ \/ script'.pc = "none" /\ ~Exists(Live)
             \/ script'.pc = "restoreSwap" /\ Rename(Live, old)
      BY <2>4, <1>g, <1>n DEF RestoreAside, Command, Done, history
    <3>2. Exists(Sibling("restore")) /\ dirs[Sibling("restore")].db
      BY <3>1 DEF IInv, PlaceInv, RestoreInv, CutInv
    <3>3. Rename(Live, old) => /\ dirs'[old] = dirs[Live] /\ Exists(Live)
                              /\ dirs'[Sibling("restore")] = dirs[Sibling("restore")]
      BY <3>2, <1>k DEF Rename, Exists
    <3> QED BY <2>1, <3>1, <3>2, <3>3, <1>0, <1>s DEF CutInv, Gap, Trial
  <2>5. CASE RestoreSwap
    <3>1. script.pc = "restoreSwap" /\ script'.pc = "restoreUp" /\ startedEmpty' = startedEmpty
      BY <2>5, <1>g DEF RestoreSwap, Command, history
    <3>2. /\ Exists(Live)' /\ dirs'[Live] = dirs[Sibling("restore")]
          /\ Exists(old) => dirs'[old] = dirs[old]
      BY <2>5, <1>k DEF RestoreSwap, Rename, Exists
    <3> QED BY <2>1, <2>o, <3>1, <3>2, <1>0, <1>s DEF IInv, CutInv, Gap, Trial
  <2>6. CASE RevertAside
    <3>1. script.pc = "revertAside" /\ script'.pc = "revertBack" /\ startedEmpty' = startedEmpty
      BY <2>6, <1>g DEF RevertAside, Command, history
    <3>2. Exists(old) => dirs'[old] = dirs[old]
      BY <2>6, <1>k DEF RevertAside, Rename, Exists
    <3> QED BY <2>1, <2>o, <3>1, <3>2, <1>0, <1>s DEF IInv, CutInv, Gap, Trial
  <2>7. CASE RevertBack
    <3>1. script.pc = "revertBack" /\ script'.pc = "revertUp" /\ startedEmpty' = startedEmpty
      BY <2>7, <1>g DEF RevertBack, Command, history
    <3>2. Exists(Live)' /\ dirs'[Live] = dirs[old]
      BY <2>7 DEF RevertBack, Rename, Exists
    <3> QED BY <2>1, <3>1, <3>2, <1>0 DEF IInv, CutInv, Gap, Trial
  <2>8. CASE RevertUp
    <3>1. /\ script.pc = "revertUp" /\ script'.pc = "none" /\ dirs' = dirs
          /\ startedEmpty' = (startedEmpty \/ ~dirs[Live].db)
      BY <2>8, <1>n DEF RevertUp, Command, Done
    <3> QED BY <2>1, <3>1, <1>0 DEF CutInv, Gap, Trial, Exists
  <2> QED BY <1>6, <2>2, <2>3, <2>4, <2>5, <2>6, <2>7, <2>8 DEF RestoreStep
<1>7. CASE AppMigrates
  <2>1. UNCHANGED <<script, backups, leftBy, startedEmpty, runs>>
    BY <1>7 DEF AppMigrates, history
  <2>2. /\ DOMAIN dirs' = DOMAIN dirs
        /\ \A n \in DOMAIN dirs : dirs[n].db => dirs'[n].db
    BY <1>7, <1>0 DEF AppMigrates, Dirs
  <2> QED BY <2>1, <2>2, CutKeeps
<1>8. CASE WriteCommits
  <2>1. UNCHANGED <<script, backups, leftBy, startedEmpty, runs>>
    BY <1>8 DEF WriteCommits
  <2>2. DOMAIN dirs' = DOMAIN dirs /\ \A n \in DOMAIN dirs : dirs[n].db => dirs'[n].db
    BY <1>8, WriteCommitsIs
  <2> QED BY <2>1, <2>2, CutKeeps
<1>9. CASE AppServes \/ WritePasses
  <2>1. UNCHANGED <<dirs, script, backups, leftBy, startedEmpty, runs>>
    BY <1>9 DEF AppServes, WritePasses, history
  <2> QED BY <2>1, CutKeeps
<1>10. CASE StopFails
  <2>1. UNCHANGED <<backups, leftBy, startedEmpty, runs>>
    BY <1>10 DEF StopFails, history
  <2>2. DOMAIN dirs' = DOMAIN dirs /\ \A n \in DOMAIN dirs : dirs'[n].db = dirs[n].db
    BY <1>10, <1>0 DEF StopFails, Marked, Dirs
  <2>3. \/ script'.pc = "none" /\ script.pc \in {"stop", "restoreStop"}
        \/ script.pc = "undo" /\ script'.pc = "undoAside"
        \/ script.pc = "revert" /\ script'.pc = "revertAside"
    <3>1. \/ script.pc \in {"stop", "restoreStop"} /\ Done
          \/ script.pc = "undo" /\ Goto("undoAside")
          \/ script.pc = "revert" /\ Goto("revertAside")
      BY <1>10 DEF StopFails
    <3>2. Done => script'.pc = "none"
      BY <1>n DEF Done
    <3>3. /\ Goto("undoAside") => script'.pc = "undoAside"
          /\ Goto("revertAside") => script'.pc = "revertAside"
      BY <1>g
    <3> QED BY <3>1, <3>2, <3>3
  <2> QED BY <2>1, <2>2, <2>3 DEF IInv, PlaceInv, DeployInv, RestoreInv, CutInv, Gap, Trial, Exists, Sibling
<1>11. CASE Killed \/ CommandFails
  BY <1>11, <1>i DEF Killed, CommandFails
<1>12. CASE Reboot
  <2>1. script.pc # "none" => Interrupted
    BY <1>12 DEF Reboot
  <2>2. UNCHANGED <<backups, startedEmpty>> /\ (script.pc = "none" => UNCHANGED <<script, leftBy>>)
    BY <1>12 DEF Reboot, Fault
  <2>3. leftBy = "none" /\ script.pc = "none" => dirs' = dirs
    BY <1>12, <1>0 DEF Reboot, Gap
  <2> QED BY <2>1, <2>2, <2>3, <1>0, <1>i DEF CutInv, Gap, Trial, Exists
<1>13. CASE InstallHost
  <2>1. UNCHANGED <<script, backups, leftBy, startedEmpty, runs>> /\ ~Exists(Live)
    BY <1>13 DEF InstallHost, history
  <2>2. \A n \in DOMAIN dirs : n \in DOMAIN dirs' /\ dirs'[n] = dirs[n]
    BY <1>13 DEF InstallHost, Put, Exists
  <2>3. (leftBy = "none" => Gap) /\ Gap' = Gap /\ Trial' = Trial
    BY <2>1, <1>0 DEF Gap, Trial
  <2> QED BY <2>1, <2>2, <2>3 DEF IInv, PlaceInv, DeployInv, RestoreInv, CutInv, Gap, Trial, Exists, Sibling
<1> QED
  BY <1>1, <1>2, <1>3, <1>4, <1>5, <1>6, <1>7, <1>8, <1>9, <1>10, <1>11, <1>12, <1>13 DEF Next

-----------------------------------------------------------------------------
(* The theorems.                                                           *)

\* An installed host that serves satisfies the invariant.
LEMMA InitOk == Init => IInv
<1> SUFFICES ASSUME Init PROVE IInv
  OBVIOUS
<1>1. PICK i \in Images :
        /\ env = i /\ app = [state |-> "serving", image |-> i, on |-> Live]
        /\ dirs = [n \in {Live} |-> [Empty EXCEPT !.db = TRUE, !.rev = HeadOf[i]]]
  BY DEF Init
<1>2. /\ inflight = FALSE /\ script = NoScript /\ backups = <<>> /\ written = 0 /\ expected = {}
      /\ leftBy = "none" /\ startedEmpty = FALSE /\ runs = 0 /\ faults = 0
  BY DEF Init
<1>3. HeadOf[i] \in Nat
  BY HostAssumption
<1>4. /\ DOMAIN dirs = {Live} /\ dirs[Live] \in Dirs /\ dirs[Live].db /\ ~dirs[Live].marker
      /\ dirs[Live].writes = {} /\ dirs = [n \in DOMAIN dirs |-> dirs[n]]
  BY <1>1, <1>3 DEF Empty, Dirs
<1>5. HostType
  <2>1. app \in AppType /\ env \in Images
    BY <1>1 DEF AppType, Names
  <2>2. ScriptOk
    BY <1>2, NoScriptOk DEF ScriptOk, DeployPcs
  <2>3. runs \in Nat /\ faults \in 0 .. MaxFaults /\ written \in Nat
    BY <1>2, HostAssumption
  <2> QED BY <2>1, <2>2, <2>3, <1>2 DEF HostType
<1>6. DirsInv
  BY <1>2, <1>4 DEF DirsInv, Kept, DirOk
<1>7. BackupInv
  BY <1>2, NoScriptOk, EmptyOk DEF BackupInv
<1>8. PlaceInv
  BY <1>1, <1>2, <1>4, NoScriptOk DEF PlaceInv, AppInv, DeployInv, RestoreInv, GapInv, GateInv,
     Trial, LiveGood, Exists, DeployPcs, RestorePcs
<1>9. CutInv
  BY <1>2, <1>4, NoScriptOk DEF CutInv, Gap, Trial, Exists
<1> QED BY <1>5, <1>6, <1>7, <1>8, <1>9 DEF IInv

\* IInv is inductive.
LEMMA Inductive == IInv /\ [Next]_vars => IInv'
<1> SUFFICES ASSUME IInv, [Next]_vars PROVE IInv'
  OBVIOUS
<1>1. CASE Next
  <2>1. PlaceInv'
    BY <1>1, DeployBeginPlace, RestoreBeginPlace, DeployPlace, RestorePlace, OtherPlace DEF Next
  <2> QED BY <1>1, <2>1, TypeStep, DirsStep, BackupStep, CutStep DEF IInv
<1>2. CASE UNCHANGED vars
  BY <1>2 DEF vars, host, history, IInv, HostType, ScriptOk, DirsInv, BackupInv, PlaceInv, AppInv,
     DeployInv, RestoreInv, GapInv, GateInv, Trial, LiveGood, Exists, Sibling, CutInv, Gap
<1> QED BY <1>1, <1>2

\* It is an invariant of the host.
LEMMA AlwaysIInv == Spec => []IInv
BY InitOk, Inductive, PTL DEF Spec

\* Whenever MaintenanceGate lets a write pass, the directory behind it holds
\* exactly what users must find: no undo of a candidate release, no revert of
\* a restore, no kill, reboot or failing command in a script, and no script
\* run after that, puts users before older or partial data.  The one exception
\* of the code, a failed restore that starts Oveo on a directory without a
\* database, takes an earlier script that did not run to its end.
THEOREM ServedDataIsComplete == Spec => []ServedDataComplete
<1>1. IInv => ServedDataComplete
  BY DEF IInv, PlaceInv, AppInv, LiveGood, CutInv, ServedDataComplete, Gated, Exists
<1> QED BY <1>1, AlwaysIInv, PTL

\* Every write that was acknowledged is in some directory under /var/lib, and
\* nothing else is: the scripts only rename what holds data.
THEOREM NothingIsDestroyed == Spec => []NothingDestroyed
<1>1. IInv => NothingDestroyed
  BY DEF IInv, DirsInv, Kept, DirOk, NothingDestroyed
<1> QED BY <1>1, AlwaysIInv, PTL

\* Unless a script was killed, cut by a reboot or ended by a command nothing
\* handles (CommandFails), the gate is open whenever no script runs: after
\* success, and after every failure the scripts handle and undo.
THEOREM GateOpensAgain == Spec => []GateOnlyAfterUnfinishedScript
<1>1. IInv => GateOnlyAfterUnfinishedScript
  BY DEF IInv, PlaceInv, GateInv, GateOnlyAfterUnfinishedScript, Gated
<1> QED BY <1>1, AlwaysIInv, PTL
==============================================================================
