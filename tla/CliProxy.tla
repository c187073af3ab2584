------------------------------- MODULE CliProxy -------------------------------
(***************************************************************************)
(* The takeover of a CLI's configuration (infra/cli_proxy/mod.rs), for the  *)
(* CLI whose direct edits are captured again, Claude (infra/cli_proxy/      *)
(* claude.rs): three files on disk (the CLI's settings.json, the backup of  *)
(* it, the manifest) and the operations that rewrite them one after the     *)
(* other: enable and disable (app/cli_proxy_service.rs), the sync after a   *)
(* gateway start or a change of the settings (app/gateway_service/          *)
(* lifecycle.rs, app/settings_service.rs), the restore at stop and exit     *)
(* (app/cleanup.rs) and the repair at startup (app/startup_settings.rs).    *)
(*                                                                          *)
(* Every write of a file is one step (write_file_atomic renames a temporary *)
(* file), any of those in Failing may fail, and the process may die between *)
(* any two.  Of settings.json the model keeps the two keys the proxy writes *)
(* (the others are carried along unchanged by both directions) and whether  *)
(* it parses.  One operation runs at a time, and the user edits the file    *)
(* between operations; the README says what the code does outside of this.  *)
(***************************************************************************)
CONSTANTS
    Upstreams,          \* direct configurations: a base URL and its own token
    Origins,            \* base origins the gateway may publish
    Loopback,           \* those is_local_gateway_claude_url knows
    Failing,            \* writes that may fail, among those of Writes
    Placeholder,        \* PLACEHOLDER_KEY
    Unset,              \* a key that is not there
    Absent,             \* no such file
    Garbled,            \* a file that does not parse
    None

Writes ==
    {"backup", "record", "apply", "enable", "restore", "disable", "commit", "undo",
     "repair"}

Doc == [url : Upstreams \cup Origins \cup {Unset}, token : Upstreams \cup {Placeholder, Unset}]
Direct(u) == [url |-> u, token |-> u]
NoEnv == [url |-> Unset, token |-> Unset]
Files == Doc \cup {Absent, Garbled}

\* existed: settings.json was there when the backup was taken (its entry names one).
Manifest == [enabled : BOOLEAN, base_origin : Origins, existed : BOOLEAN]

ASSUME CliProxyAssumption ==
    /\ Loopback \subseteq Origins
    /\ Upstreams \cap Origins = {}
    /\ {Placeholder, Unset} \cap (Upstreams \cup Origins) = {}
    /\ Placeholder # Unset
    /\ Failing \subseteq Writes
    /\ Absent # Garbled
    /\ {Absent, Garbled} \cap Doc = {}
    /\ None \notin Files \cup Manifest \cup Origins

VARIABLES
    file,               \* ~/.claude/settings.json
    backup,             \* cli-proxy/claude/files/settings.json
    manifest,           \* cli-proxy/claude/manifest.json
    app,                \* life of the process
    gateway,            \* the origin it serves, or None
    op,                 \* the operation under way, with what it holds in memory
    taken,              \* history: what the proxy last wrote itself over
    slip                \* history: what went wrong since a direct file was last backed up

history == <<taken, slip>>
vars == <<file, backup, manifest, app, gateway, op, history>>

\* recovery: enable_cli_proxy_startup_recovery, as a start has read it.
\* backup_before, file_before: snapshots to roll back to, None when nothing was written.
Operation ==
    [pc : {"idle", "repair", "autostart", "backup", "record", "apply", "enable", "restore",
           "disable", "refresh", "sync", "commit", "undo_file", "undo_backup"},
     manifest : Manifest \cup {None}, origin : Origins \cup {None}, first : BOOLEAN,
     stays_enabled : BOOLEAN, recovery : BOOLEAN, backup_before : Files \cup {None},
     file_before : Files \cup {None}]

Idle ==
    [pc |-> "idle", manifest |-> None, origin |-> None, first |-> FALSE,
     stays_enabled |-> FALSE, recovery |-> FALSE, backup_before |-> None,
     file_before |-> None]

Resting == op.pc = "idle"
Enabled == manifest # None /\ manifest.enabled

------------------------------------------------------------------------------
(* What the file says.                                                     *)

is_proxy_config_applied(f, origin) == f \in Doc /\ f.url = origin

\* Mutant: the token alone decides.
is_proxy_managed_ByToken(f) == f \in Doc /\ f.token = Placeholder

is_proxy_managed(f) == f \in Doc /\ (f.token = Placeholder \/ f.url \in Loopback)

\* The file is ours, whatever address it names; no function of the code tells.
PointsAtGateway(f) == f \in Doc /\ (f.token = Placeholder \/ f.url \in Origins)

build_claude_settings_json(origin) == [url |-> origin, token |-> Placeholder]

\* Mutant: a token the saved file does not have stays as it is.
merge_restore_KeepingToken(current, saved) ==
    LET keys == IF saved \in Doc THEN saved ELSE NoEnv
    IN  IF current \in Doc
        THEN {IF keys.token = Unset THEN [keys EXCEPT !.token = current.token] ELSE keys}
        ELSE {NoEnv}

\* What the file may become.  Only an env gets its two keys back; a file with
\* neither of them may have an env or none.
merge_restore(current, saved) ==
    LET keys == IF saved \in Doc THEN saved ELSE NoEnv
    IN  IF current \in Doc THEN {keys} \cup ({current} \cap {NoEnv}) ELSE {NoEnv}

\* restore_from_manifest
Restored(m) == IF m.existed THEN merge_restore(file, backup) ELSE {Absent}

CanRestore(m) == m.existed => backup # Absent

Fails(write) == write \in Failing

(* What went wrong, for the history.                                       *)

\* unrecorded: the file was left the gateway's under a manifest that says disabled,
\* because the write that was to say enabled failed, or nobody repaired it at the start.
\* lost: the direct configuration may be in no file, through one of
\*   an enable over such a file, which becomes the backup;
\*   a sync over a file of the gateway it cannot know, which becomes the backup;
\*   a repair over a file the user has made direct, which is in no backup;
\*   a rollback that fails on the file and goes on to take the backup back.
Slips == {"none", "unrecorded", "lost"}

Unrecorded ==
    slip' = IF PointsAtGateway(file) /\ ~Enabled /\ slip # "lost" THEN "unrecorded" ELSE slip
Recorded == slip' = IF slip = "unrecorded" THEN "none" ELSE slip
LostIf(mistake) == slip' = IF mistake THEN "lost" ELSE slip

\* The backup of an enable.
StartsOver ==
    slip' = IF \/ PointsAtGateway(file) /\ slip # "none"
               \/ file = Absent /\ slip = "lost" THEN "lost" ELSE "none"

\* The end of a sync that took a direct file into the backup.
SyncedOver ==
    slip' = IF op.backup_before # None /\ ~PointsAtGateway(op.file_before) THEN "none" ELSE slip

\* The token was swapped, and the address is not one a gateway is known by.
Disguised(f) == f \in Doc /\ f.token # Placeholder /\ f.url \in Origins \ Loopback

------------------------------------------------------------------------------
Init ==
    /\ file \in {Direct(u) : u \in Upstreams} \cup {NoEnv, Absent}
    /\ backup = Absent
    /\ manifest = None
    /\ app = "closed"
    /\ gateway = None
    /\ op = Idle
    /\ taken = None
    /\ slip = "none"

(* Enabling.                                                               *)

\* The gateway is started first when it does not run.
Enable(origin) ==
    /\ app = "up" /\ Resting
    /\ gateway \in {None, origin}
    /\ ~Enabled
    /\ gateway' = origin
    /\ op' = [Idle EXCEPT !.pc = "backup", !.origin = origin, !.first = TRUE]
    /\ UNCHANGED <<file, backup, manifest, app, history>>

\* The button shown for an enabled CLI whose file does not name the running gateway.
RepairDrift ==
    /\ app = "up" /\ Resting
    /\ Enabled /\ gateway # None
    /\ ~is_proxy_config_applied(file, gateway)
    /\ op' = [Idle EXCEPT !.pc = "apply", !.origin = gateway, !.manifest = manifest]
    /\ UNCHANGED <<file, backup, manifest, app, gateway, history>>

\* backup_for_enable: an absent file leaves the backup as it is.
BackupForEnable ==
    /\ op.pc = "backup"
    /\ \/ /\ backup' = IF file = Absent THEN backup ELSE file
          /\ op' = [op EXCEPT !.pc = "record",
                              !.manifest = [enabled |-> FALSE, base_origin |-> op.origin,
                                            existed |-> file # Absent]]
          /\ StartsOver
       \/ /\ Fails("backup") /\ file # Absent
          /\ op' = Idle
          /\ UNCHANGED <<backup, slip>>
    /\ UNCHANGED <<file, manifest, app, gateway, taken>>

\* Mutant: the manifest is written once, at the end.
RecordSnapshot_Skipped ==
    /\ op.pc = "record"
    /\ op' = [op EXCEPT !.pc = "apply"]
    /\ UNCHANGED <<file, backup, manifest, app, gateway, history>>

RecordSnapshot ==
    /\ op.pc = "record"
    /\ \/ manifest' = op.manifest /\ op' = [op EXCEPT !.pc = "apply"]
       \/ Fails("record") /\ op' = Idle /\ UNCHANGED manifest
    /\ UNCHANGED <<file, backup, app, gateway, history>>

TakeOver ==
    /\ file' = build_claude_settings_json(op.origin)
    /\ taken' = IF PointsAtGateway(file) THEN taken ELSE file

Apply ==
    /\ op.pc = "apply"
    /\ \/ /\ file # Garbled
          /\ TakeOver
          /\ op' = [op EXCEPT !.pc = "enable", !.manifest.enabled = TRUE,
                              !.manifest.base_origin = op.origin]
          /\ LostIf(~op.first /\ file # Absent /\ ~PointsAtGateway(file))
       \/ /\ file = Garbled
          /\ op' = Idle
          /\ UNCHANGED <<file, history>>
       \* The manifest the code writes then is the one already there.
       \/ /\ Fails("apply") /\ file # Garbled
          /\ file' \in IF op.first /\ CanRestore(op.manifest)
                       THEN {file} \cup Restored(op.manifest) ELSE {file}
          /\ op' = Idle
          /\ UNCHANGED history
    /\ UNCHANGED <<backup, manifest, app, gateway>>

\* The files stay as they are when the write fails.
CommitEnable ==
    /\ op.pc = "enable"
    /\ \/ manifest' = op.manifest /\ UNCHANGED slip
       \/ Fails("enable") /\ Unrecorded /\ UNCHANGED manifest
    /\ op' = Idle
    /\ UNCHANGED <<file, backup, app, gateway, taken>>

(* Disabling, and the restore that keeps the CLI enabled.                  *)

Disable ==
    /\ app = "up" /\ Resting /\ manifest # None
    /\ op' = [Idle EXCEPT !.pc = "restore", !.manifest = manifest]
    /\ UNCHANGED <<file, backup, manifest, app, gateway, history>>

\* restore_enabled_keep_state
KeepState ==
    op' = IF Enabled
          THEN [Idle EXCEPT !.pc = "restore", !.manifest = manifest, !.stays_enabled = TRUE]
          ELSE Idle

Restore ==
    /\ op.pc = "restore"
    /\ \/ /\ CanRestore(op.manifest)
          /\ file' \in Restored(op.manifest)
          /\ op' = IF op.stays_enabled THEN Idle ELSE [op EXCEPT !.pc = "disable"]
       \/ /\ Fails("restore") \/ ~CanRestore(op.manifest)
          /\ op' = Idle
          /\ UNCHANGED file
    /\ UNCHANGED <<backup, manifest, app, gateway, history>>

CommitDisable ==
    /\ op.pc = "disable"
    /\ \/ manifest' = [op.manifest EXCEPT !.enabled = FALSE]
       \/ Fails("disable") /\ UNCHANGED manifest
    /\ op' = Idle
    /\ UNCHANGED <<file, backup, app, gateway, history>>

(* sync_enabled with apply_live.                                           *)

Sync(origin) ==
    op' = IF Enabled /\ ~(manifest.base_origin = origin /\ is_proxy_config_applied(file, origin))
          THEN [Idle EXCEPT !.pc = "refresh", !.manifest = manifest, !.origin = origin]
          ELSE Idle

\* Mutant: the backup of the first enable is kept for good.
RefreshBackup_Never ==
    /\ op.pc = "refresh"
    /\ op' = [op EXCEPT !.pc = "sync"]
    /\ UNCHANGED <<file, backup, manifest, app, gateway, history>>

\* refresh_backup_from_direct_state
RefreshBackup ==
    /\ op.pc = "refresh"
    /\ \/ /\ is_proxy_managed(file)
          /\ op' = [op EXCEPT !.pc = "sync"]
          /\ UNCHANGED <<backup, slip>>
       \/ /\ ~is_proxy_managed(file) /\ file = Absent
          /\ op' = [op EXCEPT !.pc = "sync", !.manifest.existed = FALSE]
          /\ UNCHANGED <<backup, slip>>
       \/ /\ ~is_proxy_managed(file) /\ file # Absent
          /\ backup' = file
          /\ op' = [op EXCEPT !.pc = "sync", !.manifest.existed = TRUE,
                              !.backup_before = backup]
          /\ LostIf(Disguised(file))
       \/ /\ Fails("backup") /\ ~is_proxy_managed(file) /\ file # Absent
          /\ op' = Idle
          /\ UNCHANGED <<backup, slip>>
    /\ UNCHANGED <<file, manifest, app, gateway, taken>>

\* Mutant: a sync that wrote no backup undoes one.
ThenUndoBackup_Always == op' = [op EXCEPT !.pc = "undo_backup"]

\* What is left to roll back once settings.json is as it was.
ThenUndoBackup ==
    op' = IF op.backup_before = None THEN Idle ELSE [op EXCEPT !.pc = "undo_backup"]

ApplySync ==
    /\ op.pc = "sync"
    /\ \/ /\ file # Garbled
          /\ TakeOver
          /\ op' = [op EXCEPT !.pc = "commit", !.file_before = file,
                              !.manifest.base_origin = op.origin]
       \/ /\ file = Garbled \/ Fails("apply")
          /\ ThenUndoBackup
          /\ UNCHANGED <<file, taken>>
    /\ UNCHANGED <<backup, manifest, app, gateway, slip>>

CommitSync ==
    /\ op.pc = "commit"
    /\ \/ manifest' = op.manifest /\ op' = Idle /\ SyncedOver
       \/ /\ Fails("commit")
          /\ op' = [op EXCEPT !.pc = "undo_file"]
          /\ UNCHANGED <<manifest, slip>>
    /\ UNCHANGED <<file, backup, app, gateway, taken>>

\* AppliedProxyConfig::rollback goes on after an error.
UndoFile ==
    /\ op.pc = "undo_file"
    /\ \/ file' = op.file_before /\ UNCHANGED slip
       \/ Fails("undo") /\ LostIf(op.backup_before # None) /\ UNCHANGED file
    /\ ThenUndoBackup
    /\ UNCHANGED <<backup, manifest, app, gateway, taken>>

UndoBackup ==
    /\ op.pc = "undo_backup"
    /\ backup' = op.backup_before \/ (Fails("undo") /\ UNCHANGED backup)
    /\ op' = Idle
    /\ UNCHANGED <<file, manifest, app, gateway, history>>

(* The gateway and the process.                                            *)

\* start_and_sync, and a change of the listen address while the gateway runs.
StartAndSync(origin) ==
    /\ app = "up" /\ Resting
    /\ gateway' = origin
    /\ Sync(origin)
    /\ UNCHANGED <<file, backup, manifest, app, history>>

\* app_ensure_gateway_running for a terminal or for WSL: nothing is synced.
EnsureGateway(origin) ==
    /\ app = "up" /\ Resting /\ gateway = None
    /\ gateway' = origin
    /\ UNCHANGED <<file, backup, manifest, app, op, history>>

\* sync_enabled without apply_live: the address was changed while no gateway runs.
\* A write that fails changes nothing.
Replan(origin) ==
    /\ app = "up" /\ Resting /\ gateway = None
    /\ Enabled /\ manifest.base_origin # origin
    /\ manifest' = [manifest EXCEPT !.base_origin = origin]
    /\ UNCHANGED <<file, backup, app, gateway, op, history>>

\* stop_and_restore
StopAndRestore ==
    /\ app = "up" /\ Resting
    /\ gateway' = None
    /\ KeepState
    /\ UNCHANGED <<file, backup, manifest, app, history>>

\* cleanup_before_exit, which gives the restore a time limit.
Exit ==
    /\ app = "up" /\ Resting
    /\ app' = "exiting"
    /\ gateway' = None
    /\ KeepState
    /\ UNCHANGED <<file, backup, manifest, history>>

\* The end of the process, after the exit cleanup or in the middle of anything.
Crash ==
    /\ app # "closed"
    /\ app' = "closed"
    /\ gateway' = None
    /\ op' = Idle
    /\ UNCHANGED <<file, backup, manifest, history>>

\* A start that recovers repairs first; one that does not, or that cannot read its
\* settings, goes on without.
Launch ==
    /\ app = "closed"
    /\ app' = "starting"
    /\ \/ op' = [Idle EXCEPT !.pc = "repair", !.recovery = TRUE] /\ UNCHANGED slip
       \/ op' = [Idle EXCEPT !.pc = "autostart"] /\ Unrecorded
    /\ UNCHANGED <<file, backup, manifest, gateway, taken>>

\* startup_repair_incomplete_enable
StartupRepair ==
    /\ op.pc = "repair"
    /\ \/ /\ manifest' = IF /\ manifest # None
                            /\ ~manifest.enabled
                            /\ is_proxy_config_applied(file, manifest.base_origin)
                         THEN [manifest EXCEPT !.enabled = TRUE] ELSE manifest
          /\ Recorded
       \/ Fails("repair") /\ Unrecorded /\ UNCHANGED manifest
    /\ op' = [op EXCEPT !.pc = "autostart"]
    /\ UNCHANGED <<file, backup, app, gateway, taken>>

Autostart(origin) ==
    /\ op.pc = "autostart"
    /\ app' = "up"
    /\ gateway' = origin
    /\ Sync(origin)
    /\ UNCHANGED <<file, backup, manifest, history>>

\* The restore follows in a start that recovers, and when the settings cannot be read.
AutostartFails ==
    /\ op.pc = "autostart"
    /\ app' = "up"
    /\ KeepState \/ (~op.recovery /\ op' = Idle)
    /\ UNCHANGED <<file, backup, manifest, gateway, history>>

(* The user, who also swaps the token of a file that names the gateway.    *)

Edits ==
    {Direct(u) : u \in Upstreams} \cup {NoEnv, Absent, Garbled} \cup
    {[url |-> o, token |-> u] : o \in {x \in Origins : is_proxy_config_applied(file, x)},
                                u \in Upstreams}

Edit ==
    /\ Resting
    /\ file' \in Edits
    /\ UNCHANGED <<backup, manifest, app, gateway, op, history>>

Next ==
    \/ RepairDrift \/ BackupForEnable \/ RecordSnapshot \/ Apply \/ CommitEnable
    \/ Disable \/ Restore \/ CommitDisable
    \/ RefreshBackup \/ ApplySync \/ CommitSync \/ UndoFile \/ UndoBackup
    \/ StopAndRestore \/ Exit \/ Crash \/ Launch \/ StartupRepair \/ AutostartFails
    \/ Edit
    \/ \E origin \in Origins :
          \/ Enable(origin) \/ StartAndSync(origin) \/ EnsureGateway(origin)
          \/ Replan(origin) \/ Autostart(origin)

Spec == Init /\ [][Next]_vars

------------------------------------------------------------------------------
(* Properties.                                                             *)

TypeOK ==
    /\ file \in Files
    /\ backup \in Files
    /\ manifest \in Manifest \cup {None}
    /\ app \in {"closed", "starting", "up", "exiting"}
    /\ gateway \in Origins \cup {None}
    /\ op \in Operation
    /\ taken \in Files \cup {None}
    /\ slip \in Slips

(* The backup is never the configuration of the gateway itself, whatever   *)
(* port it had: a restore from such a backup could not give the direct      *)
(* configuration back to anyone.  It happens only through what slip calls   *)
(* lost, above all an enable over a file that the failed end of the last    *)
(* one left behind, and a swapped token under an unknown address.           *)
BackupIsDirect == PointsAtGateway(backup) => slip = "lost"

(* A CLI shown as off is not left pointing at the gateway: not after a      *)
(* disable, not after an enable that failed at any step but the last or was *)
(* cut off by a crash and repaired at the start.  Where the last write of   *)
(* the enable failed, or the repair did, the address is still the one a     *)
(* repair at a later start looks for.                                       *)
OffIsDirect ==
    app = "up" /\ Resting /\ ~Enabled /\ PointsAtGateway(file) =>
        \/ slip = "unrecorded" /\ manifest # None /\ file.url = manifest.base_origin
        \/ slip = "lost"

(* While the file points at the gateway, the direct configuration it        *)
(* replaced last is in the backup, through port changes, restores, edits    *)
(* made while the app was closed, failed syncs, enables whose end failed,   *)
(* and crashes; unless slip says that it was lost.                          *)
DirectSurvives ==
    PointsAtGateway(file) /\ taken \notin {Absent, None} => backup = taken \/ slip = "lost"

(* A restore by the manifest gives the file exactly the two keys it had     *)
(* when the proxy took it: none of the gateway's stays behind.              *)
RestoreGivesBack ==
    [][ /\ op.pc = "restore" /\ op.manifest.existed
        /\ PointsAtGateway(file) /\ taken \notin {Absent, None}
        /\ file' # file
        => file' = taken \/ slip = "lost" ]_vars

(* What the contract of the takeover promises: neither a change of the port *)
(* nor a token that was edited by hand turns the bytes of the gateway into  *)
(* the user's baseline (write_captured_backups).                            *)
GatewayBytesAreNoBaseline == ~PointsAtGateway(backup)

=============================================================================
