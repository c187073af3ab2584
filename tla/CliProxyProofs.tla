---------------------------- MODULE CliProxyProofs ----------------------------
(***************************************************************************)
(* Theorems about CliProxy: its types; and that a backup is not the         *)
(* gateway's own configuration, a disabled CLI does not point at it, and    *)
(* the direct configuration survives and comes back whole, except after the *)
(* mistakes that slip names, whichever writes fail and whatever addresses   *)
(* the gateway publishes.                                                   *)
(***************************************************************************)
EXTENDS CliProxy, TLAPS

\* What an operation holds when it is at a step.
OpTypes ==
    /\ op.pc \in {"record", "apply", "enable", "restore", "disable", "refresh", "sync",
                  "commit"} => op.manifest # None
    /\ op.pc \in {"backup", "record", "apply", "refresh", "sync"} => op.origin # None
    /\ op.pc \in {"commit", "undo_file"} => op.file_before # None
    /\ op.pc = "undo_backup" => op.backup_before # None
    /\ op.pc \in {"backup", "refresh"} => op.backup_before = None

Types == TypeOK /\ OpTypes

Life ==
    /\ app = "closed" => op.pc = "idle"
    /\ app = "starting" <=> op.pc \in {"repair", "autostart"}

Lost == slip = "lost"

BackupsAreDirect ==
    /\ PointsAtGateway(backup) => Lost
    /\ PointsAtGateway(op.backup_before) => Lost

\* A file taken over under a disabled manifest is one the startup repair knows.
TakenIsRecorded ==
    ~Enabled /\ PointsAtGateway(file) /\ ~Lost =>
        /\ app = "closed" \/ op.pc \in {"repair", "enable"} \/ slip = "unrecorded"
        /\ manifest # None
        /\ file.url = manifest.base_origin

EnableInv ==
    /\ op.pc \in {"backup", "record"} => op.first /\ ~Enabled
    /\ op.pc = "record" => op.manifest.base_origin = op.origin
    /\ op.pc = "record" /\ PointsAtGateway(file) => Lost
    /\ op.pc = "apply" /\ op.first =>
        /\ PointsAtGateway(file) => Lost
        /\ manifest = op.manifest /\ manifest.base_origin = op.origin
    /\ op.pc = "apply" /\ ~op.first => Enabled
    /\ op.pc = "enable" => op.manifest.enabled

SyncInv ==
    /\ op.pc \in {"refresh", "sync", "commit", "undo_file", "undo_backup"} => Enabled
    /\ op.pc \in {"refresh", "sync", "commit"} => op.manifest.enabled
    /\ op.pc = "disable" /\ PointsAtGateway(file) => Lost

SafetyInv == Life /\ BackupsAreDirect /\ TakenIsRecorded /\ EnableInv /\ SyncInv

\* Before a direct file is overwritten it is in the backup, a repair apart.
BackupIsNewest ==
    /\ op.pc \in {"record", "apply", "sync"} /\ (op.pc = "apply" => op.first)
       /\ ~PointsAtGateway(file) /\ file # Absent
       => backup = file
    /\ op.pc = "sync" /\ op.backup_before # None => backup = file
    /\ op.pc = "commit" /\ op.backup_before # None =>
        /\ backup = op.file_before
        /\ ~PointsAtGateway(op.file_before) => taken = op.file_before

\* What a sync may put back fits together.
UndoInv ==
    /\ op.backup_before # None =>
        /\ op.pc \in {"sync", "undo_backup"} /\ PointsAtGateway(file) => Lost
        /\ op.pc \in {"commit", "undo_file"} /\ PointsAtGateway(op.file_before) => Lost
    /\ op.pc \in {"commit", "undo_file"} /\ PointsAtGateway(op.file_before)
       /\ taken \notin {Absent, None} => backup = taken \/ Lost

TakenParses == taken \in Doc \cup {Absent, None}

SurvivalInv == DirectSurvives /\ BackupIsNewest /\ UndoInv /\ TakenParses

-----------------------------------------------------------------------------
(* The files.                                                               *)

LEMMA NoneIsNothing ==
    /\ None \notin Files /\ None \notin Doc /\ None \notin Manifest /\ None \notin Origins
    /\ Absent \in Files /\ Garbled \in Files /\ Absent \notin Doc /\ Garbled \notin Doc
    /\ Doc \subseteq Files
    /\ Absent # Garbled
    /\ ~PointsAtGateway(None) /\ ~PointsAtGateway(Absent) /\ ~PointsAtGateway(Garbled)
BY CliProxyAssumption DEF Files, PointsAtGateway

LEMMA NoEnvIsDirect == NoEnv \in Doc /\ NoEnv \in Files /\ ~PointsAtGateway(NoEnv)
BY CliProxyAssumption DEF NoEnv, Doc, Files, PointsAtGateway

LEMMA DirectIsDirect ==
    ASSUME NEW u \in Upstreams
    PROVE  Direct(u) \in Doc /\ Direct(u) \in Files /\ ~PointsAtGateway(Direct(u))
BY CliProxyAssumption DEF Direct, Doc, Files, PointsAtGateway

LEMMA BuiltIsOurs ==
    ASSUME NEW origin \in Origins
    PROVE  /\ build_claude_settings_json(origin) \in Doc
           /\ build_claude_settings_json(origin) \in Files
           /\ PointsAtGateway(build_claude_settings_json(origin))
           /\ build_claude_settings_json(origin).url = origin
BY CliProxyAssumption DEF build_claude_settings_json, Doc, Files, PointsAtGateway

\* A restore gives a file that is direct when the backup is.
LEMMA RestoredIsDirect ==
    ASSUME file \in Files, backup \in Files, NEW m, NEW f \in Restored(m)
    PROVE  /\ f \in Files
           /\ ~PointsAtGateway(backup) => ~PointsAtGateway(f)
<1>1. CASE f = Absent
  BY <1>1, NoneIsNothing
<1>2. CASE f \in merge_restore(file, backup)
  <2>1. f \in {NoEnv} \cup (IF backup \in Doc THEN {backup} ELSE {})
    BY <1>2 DEF merge_restore
  <2> QED
    BY <2>1, NoEnvIsDirect
<1> QED
  BY <1>1, <1>2 DEF Restored

\* An edit keeps the address when the file goes on pointing at the gateway.
LEMMA EditedFile ==
    ASSUME NEW f \in Edits
    PROVE  /\ f \in Files
           /\ PointsAtGateway(f) => PointsAtGateway(file) /\ f.url = file.url
<1>1. CASE f \in {Direct(u) : u \in Upstreams} \cup {NoEnv, Absent, Garbled}
  BY <1>1, DirectIsDirect, NoEnvIsDirect, NoneIsNothing
<1>2. CASE f \in {[url |-> o, token |-> u] :
                    o \in {x \in Origins : is_proxy_config_applied(file, x)}, u \in Upstreams}
  <2>1. PICK o \in Origins, u \in Upstreams :
          is_proxy_config_applied(file, o) /\ f = [url |-> o, token |-> u]
    BY <1>2
  <2>2. f \in Doc /\ f.url = o
    BY <2>1 DEF Doc
  <2>3. file \in Doc /\ file.url = o
    BY <2>1 DEF is_proxy_config_applied
  <2> QED
    BY <2>2, <2>3, NoneIsNothing DEF PointsAtGateway
<1> QED
  BY <1>1, <1>2 DEF Edits

-----------------------------------------------------------------------------
(* Types.                                                                   *)

LEMMA IdleTypes == Idle \in Operation /\ Idle.pc = "idle" /\ Idle.backup_before = None
BY DEF Idle, Operation

LEMMA InitTypes == Init => Types
<1> SUFFICES ASSUME Init PROVE Types
  OBVIOUS
<1>1. file \in Files /\ backup \in Files
  BY DirectIsDirect, NoEnvIsDirect, NoneIsNothing DEF Init
<1>2. slip \in Slips
  BY DEF Init, Slips
<1> QED
  BY <1>1, <1>2, IdleTypes DEF Init, Types, TypeOK, OpTypes

\* No step invents a slip.
LEMMA NextSlip == slip \in Slips /\ [Next]_vars => slip' \in Slips
<1> SUFFICES ASSUME slip \in Slips, [Next]_vars PROVE slip' \in Slips
  OBVIOUS
<1>1. CASE BackupForEnable
  BY <1>1 DEF BackupForEnable, StartsOver, Slips
<1>2. CASE Apply \/ RefreshBackup \/ UndoFile
  BY <1>2 DEF Apply, RefreshBackup, UndoFile, LostIf, Slips, history
<1>3. CASE CommitEnable \/ Launch \/ StartupRepair
  BY <1>3 DEF CommitEnable, Launch, StartupRepair, Unrecorded, Recorded, Slips
<1>4. CASE CommitSync
  BY <1>4 DEF CommitSync, SyncedOver, Slips
<1>5. CASE UNCHANGED slip
  BY <1>5
<1> QED
  BY <1>1, <1>2, <1>3, <1>4, <1>5
     DEF Next, vars, history, RepairDrift, RecordSnapshot, Disable, Restore, CommitDisable,
         ApplySync, UndoBackup, StopAndRestore, Exit, Crash, AutostartFails, Edit, Enable,
         StartAndSync, EnsureGateway, Replan, Autostart

LEMMA NextTypes == Types /\ [Next]_vars => Types'
<1> SUFFICES ASSUME Types, [Next]_vars PROVE Types'
  OBVIOUS
<1> USE DEF Types, TypeOK, history
<1>0. slip' \in Slips
  BY NextSlip
<1>1. CASE RepairDrift
  BY <1>0, <1>1, NoneIsNothing, IdleTypes DEF RepairDrift, Enabled, Idle, Operation, OpTypes
<1>2. CASE BackupForEnable
  <2> DEFINE m == [enabled |-> FALSE, base_origin |-> op.origin, existed |-> file # Absent]
  <2>1. op.origin \in Origins
    BY <1>0, <1>2 DEF BackupForEnable, Operation, OpTypes
  <2>2. m \in Manifest
    BY <2>1 DEF Manifest
  <2>3. CASE op' = [op EXCEPT !.pc = "record", !.manifest = m] /\ backup' \in Files
    <3> HIDE DEF m
    <3>1. op' \in Operation /\ OpTypes'
      BY <2>1, <2>2, <2>3, NoneIsNothing DEF Operation, OpTypes
    <3> QED
      BY <1>0, <1>2, <2>3, <3>1 DEF BackupForEnable
  <2>4. CASE op' = Idle /\ UNCHANGED backup
    BY <1>0, <1>2, <2>4, IdleTypes DEF BackupForEnable, OpTypes
  <2> QED
    BY <1>0, <1>2, <2>3, <2>4 DEF BackupForEnable
<1>3. CASE RecordSnapshot
  BY <1>0, <1>3, NoneIsNothing, IdleTypes DEF RecordSnapshot, Operation, OpTypes
<1>4. CASE Apply
  <2>1. op.origin \in Origins /\ op.manifest \in Manifest
    BY <1>0, <1>4 DEF Apply, Operation, OpTypes
  <2>2. CASE TakeOver /\ op' = [op EXCEPT !.pc = "enable", !.manifest.enabled = TRUE,
                                          !.manifest.base_origin = op.origin]
    <3>1. file' \in Files /\ taken' \in Files \cup {None}
      BY <2>1, <2>2, BuiltIsOurs DEF TakeOver
    <3>2. op' \in Operation
      BY <2>1, <2>2 DEF Operation, Manifest
    <3>3. op'.pc = "enable" /\ op'.manifest \in Manifest
      BY <2>1, <2>2 DEF Operation, Manifest
    <3> QED
      BY <1>0, <1>4, <3>1, <3>2, <3>3, NoneIsNothing DEF Apply, OpTypes
  <2>3. CASE op' = Idle
    <3>1. file' \in Files /\ taken' \in Files \cup {None}
      BY <1>0, <1>4, <2>1, <2>3, BuiltIsOurs, RestoredIsDirect DEF Apply, TakeOver
    <3> QED
      BY <1>0, <1>4, <2>3, <3>1, IdleTypes DEF Apply, OpTypes
  <2> QED
    BY <1>0, <1>4, <2>2, <2>3 DEF Apply
<1>5. CASE CommitEnable
  BY <1>0, <1>5, NoneIsNothing, IdleTypes DEF CommitEnable, Operation, OpTypes
<1>6. CASE Disable
  BY <1>0, <1>6, NoneIsNothing, IdleTypes DEF Disable, Idle, Operation, OpTypes
<1>7. CASE Restore
  BY <1>0, <1>7, NoneIsNothing, IdleTypes, RestoredIsDirect DEF Restore, Operation, OpTypes
<1>8. CASE CommitDisable
  <2>1. op.manifest \in Manifest
    BY <1>0, <1>8 DEF CommitDisable, Operation, OpTypes
  <2>2. [op.manifest EXCEPT !.enabled = FALSE] \in Manifest
    BY <2>1 DEF Manifest
  <2> QED
    BY <1>0, <1>8, <2>2, IdleTypes DEF CommitDisable, OpTypes
<1>9. CASE RefreshBackup
  <2>1. op.origin \in Origins /\ op.manifest \in Manifest
    BY <1>0, <1>9 DEF RefreshBackup, Operation, OpTypes
  <2>2. CASE op' = [op EXCEPT !.pc = "sync"]
    BY <1>0, <1>9, <2>1, <2>2, NoneIsNothing DEF RefreshBackup, Operation, OpTypes
  <2>3. CASE op' = [op EXCEPT !.pc = "sync", !.manifest.existed = FALSE]
    <3>1. op' \in Operation /\ op'.pc = "sync" /\ op'.manifest \in Manifest
          /\ op'.origin \in Origins
      BY <2>1, <2>3 DEF Operation, Manifest
    <3> QED
      BY <1>0, <1>9, <3>1, NoneIsNothing DEF RefreshBackup, OpTypes
  <2>4. CASE op' = [op EXCEPT !.pc = "sync", !.manifest.existed = TRUE,
                              !.backup_before = backup]
    <3>1. op' \in Operation /\ op'.pc = "sync" /\ op'.manifest \in Manifest
          /\ op'.origin \in Origins
      BY <2>1, <2>4 DEF Operation, Manifest
    <3> QED
      BY <1>0, <1>9, <3>1, NoneIsNothing DEF RefreshBackup, OpTypes
  <2>5. CASE op' = Idle
    BY <1>0, <1>9, <2>5, IdleTypes DEF RefreshBackup, OpTypes
  <2> QED
    BY <1>0, <1>9, <2>2, <2>3, <2>4, <2>5 DEF RefreshBackup
<1>10. CASE ApplySync
  <2>1. op.origin \in Origins /\ op.manifest \in Manifest
    BY <1>0, <1>10 DEF ApplySync, Operation, OpTypes
  <2>2. CASE TakeOver /\ op' = [op EXCEPT !.pc = "commit", !.file_before = file,
                                          !.manifest.base_origin = op.origin]
    <3>1. file' \in Files /\ taken' \in Files \cup {None}
      BY <2>1, <2>2, BuiltIsOurs DEF TakeOver
    <3>2. op' \in Operation /\ op'.pc = "commit" /\ op'.manifest \in Manifest
          /\ op'.file_before \in Files
      BY <2>1, <2>2 DEF Operation, Manifest
    <3> QED
      BY <1>0, <1>10, <3>1, <3>2, NoneIsNothing DEF ApplySync, OpTypes
  <2>3. CASE ThenUndoBackup /\ UNCHANGED <<file, taken>>
    <3>1. op' \in Operation /\ OpTypes'
      BY <2>3, NoneIsNothing, IdleTypes DEF ThenUndoBackup, Operation, OpTypes
    <3> QED
      BY <1>0, <1>10, <2>3, <3>1 DEF ApplySync
  <2> QED
    BY <1>0, <1>10, <2>2, <2>3 DEF ApplySync
<1>11. CASE CommitSync
  BY <1>0, <1>11, NoneIsNothing, IdleTypes DEF CommitSync, Operation, OpTypes
<1>12. CASE UndoFile
  BY <1>0, <1>12, NoneIsNothing, IdleTypes DEF UndoFile, ThenUndoBackup, Operation, OpTypes
<1>13. CASE UndoBackup
  BY <1>0, <1>13, NoneIsNothing, IdleTypes DEF UndoBackup, Operation, OpTypes
<1>14. CASE StopAndRestore
  BY <1>0, <1>14, NoneIsNothing, IdleTypes
     DEF StopAndRestore, KeepState, Enabled, Idle, Operation, OpTypes
<1>15. CASE Exit
  BY <1>0, <1>15, NoneIsNothing, IdleTypes DEF Exit, KeepState, Enabled, Idle, Operation, OpTypes
<1>16. CASE Crash
  BY <1>0, <1>16, IdleTypes DEF Crash, OpTypes
<1>17. CASE Launch
  <2>1. op' \in Operation /\ op'.pc \in {"repair", "autostart"}
    BY <1>17, IdleTypes DEF Launch, Idle, Operation
  <2> QED
    BY <1>0, <1>17, <2>1 DEF Launch, OpTypes
<1>18. CASE StartupRepair
  <2>1. manifest' \in Manifest \cup {None}
    BY <1>0, <1>18 DEF StartupRepair, Manifest
  <2>2. op' \in Operation /\ op'.pc = "autostart"
    BY <1>0, <1>18 DEF StartupRepair, Operation
  <2> QED
    BY <1>0, <1>18, <2>1, <2>2 DEF StartupRepair, OpTypes
<1>19. CASE AutostartFails
  <2>1. op' \in Operation /\ OpTypes'
    <3>1. CASE KeepState
      BY <3>1, NoneIsNothing, IdleTypes DEF KeepState, Enabled, Idle, Operation, OpTypes
    <3>2. CASE op' = Idle
      BY <3>2, IdleTypes DEF OpTypes
    <3> QED
      BY <1>0, <1>19, <3>1, <3>2 DEF AutostartFails
  <2> QED
    BY <1>0, <1>19, <2>1 DEF AutostartFails
<1>20. CASE Edit
  BY <1>0, <1>20, EditedFile DEF Edit, OpTypes
<1>21. ASSUME NEW origin \in Origins, Enable(origin) PROVE Types'
  BY <1>0, <1>21, NoneIsNothing DEF Enable, Idle, Operation, OpTypes
<1>22. ASSUME NEW origin \in Origins, StartAndSync(origin) PROVE Types'
  BY <1>0, <1>22, NoneIsNothing, IdleTypes DEF StartAndSync, Sync, Enabled, Idle, Operation, OpTypes
<1>23. ASSUME NEW origin \in Origins, EnsureGateway(origin) PROVE Types'
  BY <1>0, <1>23 DEF EnsureGateway, OpTypes
<1>24. ASSUME NEW origin \in Origins, Replan(origin) PROVE Types'
  BY <1>0, <1>24, NoneIsNothing DEF Replan, Enabled, Manifest, OpTypes
<1>25. ASSUME NEW origin \in Origins, Autostart(origin) PROVE Types'
  BY <1>0, <1>25, NoneIsNothing, IdleTypes DEF Autostart, Sync, Enabled, Idle, Operation, OpTypes
<1>26. CASE UNCHANGED vars
  BY <1>0, <1>26 DEF vars, OpTypes
<1> QED
  BY <1>1, <1>2, <1>3, <1>4, <1>5, <1>6, <1>7, <1>8, <1>9, <1>10, <1>11, <1>12, <1>13,
     <1>14, <1>15, <1>16, <1>17, <1>18, <1>19, <1>20, <1>21, <1>22, <1>23, <1>24, <1>25,
     <1>26 DEF Next

\* Every reachable state of the three files, the process and the operation under way
\* is well typed, whichever writes fail.
THEOREM TypeCorrect == Spec => []TypeOK
<1>1. Spec => []Types
  BY InitTypes, NextTypes, PTL DEF Spec
<1>2. Types => TypeOK
  BY DEF Types
<1> QED
  BY <1>1, <1>2, PTL

-----------------------------------------------------------------------------
(* The backup and the switch.                                               *)

LEMMA InitSafety == Init => SafetyInv
<1> SUFFICES ASSUME Init PROVE SafetyInv
  OBVIOUS
<1>1. ~PointsAtGateway(file) /\ ~PointsAtGateway(backup)
  BY DirectIsDirect, NoEnvIsDirect, NoneIsNothing DEF Init
<1> QED
  BY <1>1, IdleTypes, NoneIsNothing
     DEF Init, SafetyInv, Life, BackupsAreDirect, TakenIsRecorded, EnableInv, SyncInv

\* A file of the gateway that is not recognised is a disguised one.
LEMMA ManagedIsOurs ==
    ASSUME NEW f
    PROVE  /\ is_proxy_managed(f) => PointsAtGateway(f)
           /\ ~is_proxy_managed(f) /\ PointsAtGateway(f) => Disguised(f)
BY CliProxyAssumption DEF is_proxy_managed, PointsAtGateway, Disguised

LEMMA NextSafety ==
    ASSUME Types, SafetyInv, SurvivalInv, [Next]_vars
    PROVE  SafetyInv'
<1> USE DEF Life, BackupsAreDirect, TakenIsRecorded, EnableInv, SyncInv, Lost, history
<1>1. CASE RepairDrift
  BY <1>1, IdleTypes, NoneIsNothing DEF SafetyInv, RepairDrift, Enabled, Idle, PointsAtGateway
<1>2. CASE BackupForEnable
  <2>1. /\ ~Enabled /\ app # "closed" /\ op.backup_before = None
        /\ PointsAtGateway(file) => slip # "none"
    BY <1>2 DEF SafetyInv, BackupForEnable, Types, OpTypes
  <2>2. CASE op' = Idle /\ UNCHANGED <<backup, slip>>
    BY <1>2, <2>1, <2>2, IdleTypes, NoneIsNothing DEF SafetyInv, BackupForEnable, Enabled
  <2>3. CASE /\ backup' = (IF file = Absent THEN backup ELSE file)
             /\ op' = [op EXCEPT !.pc = "record",
                              !.manifest = [enabled |-> FALSE, base_origin |-> op.origin,
                                            existed |-> file # Absent]]
             /\ StartsOver
    <3>1. /\ op'.pc = "record" /\ op'.backup_before = None
          /\ op'.manifest.base_origin = op'.origin /\ op'.first = op.first
      BY <2>1, <2>3 DEF Types, TypeOK, Operation
    <3>2. PointsAtGateway(file) => Lost'
      BY <2>1, <2>3 DEF StartsOver
    <3>3. PointsAtGateway(backup') => Lost'
      BY <2>3, <3>2, NoneIsNothing DEF SafetyInv, StartsOver
    <3>4. ~Enabled' /\ app' = app /\ (PointsAtGateway(file') => Lost')
      BY <1>2, <2>1, <3>2 DEF BackupForEnable, Enabled
    <3> QED
      BY <1>2, <2>1, <3>1, <3>3, <3>4, NoneIsNothing DEF SafetyInv, BackupForEnable
  <2> QED
    BY <1>2, <2>2, <2>3 DEF BackupForEnable
<1>3. CASE RecordSnapshot
  <2>1. ~Enabled /\ (PointsAtGateway(file) => Lost)
    BY <1>3 DEF SafetyInv, RecordSnapshot
  <2>2. CASE op' = Idle /\ UNCHANGED manifest
    BY <1>3, <2>1, <2>2, IdleTypes, NoneIsNothing DEF SafetyInv, RecordSnapshot, Enabled
  <2>3. CASE manifest' = op.manifest /\ op' = [op EXCEPT !.pc = "apply"]
    <3>1. /\ op'.pc = "apply" /\ op'.backup_before = op.backup_before /\ op'.first = op.first
          /\ op'.manifest = op.manifest /\ op'.origin = op.origin
      BY <2>3 DEF Types, TypeOK, Operation
    <3> QED
      BY <1>3, <2>1, <2>3, <3>1 DEF SafetyInv, RecordSnapshot
  <2> QED
    BY <1>3, <2>2, <2>3 DEF RecordSnapshot
<1>4. CASE Apply
  <2>0. Lost => Lost'
    BY <1>4 DEF Apply, LostIf
  <2>1. op.origin \in Origins /\ op.manifest \in Manifest
    BY <1>4 DEF Apply, Types, TypeOK, OpTypes, Operation
  <2>2. CASE TakeOver /\ op' = [op EXCEPT !.pc = "enable", !.manifest.enabled = TRUE,
                                          !.manifest.base_origin = op.origin]
    <3>1. /\ op'.pc = "enable" /\ op'.backup_before = op.backup_before
          /\ op'.manifest.enabled
      BY <2>1, <2>2 DEF Types, TypeOK, Operation, Manifest
    <3>2. file'.url = op.origin
      BY <2>1, <2>2, BuiltIsOurs DEF TakeOver
    <3>3. Enabled \/ (manifest # None /\ manifest.base_origin = op.origin)
      BY <1>4, <2>1, NoneIsNothing DEF SafetyInv, Apply
    <3>4. Enabled' \/ (manifest' # None /\ file'.url = manifest'.base_origin)
      BY <1>4, <3>2, <3>3 DEF Apply, Enabled
    <3> QED
      BY <1>4, <2>0, <3>1, <3>4 DEF SafetyInv, Apply
  <2>3. CASE op' = Idle /\ UNCHANGED slip
    <3>1. file' = file \/ ~PointsAtGateway(file') \/ Lost
      BY <1>4, <2>3, RestoredIsDirect, IdleTypes
         DEF Apply, SafetyInv, Types, TypeOK, Operation
    <3>2. Enabled \/ ~PointsAtGateway(file) \/ Lost
      BY <1>4 DEF SafetyInv, Apply
    <3> QED
      BY <1>4, <2>3, <3>1, <3>2, IdleTypes, NoneIsNothing DEF SafetyInv, Apply, Enabled
  <2> QED
    BY <1>4, <2>2, <2>3 DEF Apply
<1>5. CASE CommitEnable
  <2>1. op'.pc = "idle" /\ op'.backup_before = None
    BY <1>5, IdleTypes DEF CommitEnable
  <2>2. CASE manifest' = op.manifest /\ UNCHANGED slip
    BY <1>5, <2>1, <2>2, NoneIsNothing
       DEF SafetyInv, CommitEnable, Enabled, Types, OpTypes
  <2>3. CASE Unrecorded /\ UNCHANGED manifest
    <3>1. Lost => Lost'
      BY <2>3 DEF Unrecorded
    <3>2. ~Enabled /\ PointsAtGateway(file) /\ ~Lost' => slip' = "unrecorded" /\ ~Lost
      BY <2>3 DEF Unrecorded
    <3> QED
      BY <1>5, <2>1, <2>3, <3>1, <3>2, NoneIsNothing DEF SafetyInv, CommitEnable, Enabled
  <2> QED
    BY <1>5, <2>2, <2>3 DEF CommitEnable
<1>6. CASE Disable
  <2>1. op'.pc = "restore" /\ op'.backup_before = None
    BY <1>6 DEF Disable, Idle
  <2> QED
    BY <1>6, <2>1, NoneIsNothing DEF SafetyInv, Disable, Resting, Enabled
<1>7. CASE Restore
  BY <1>7, IdleTypes, NoneIsNothing, RestoredIsDirect
     DEF SafetyInv, Restore, Enabled, Types, TypeOK, OpTypes, Operation
<1>8. CASE CommitDisable
  BY <1>8, IdleTypes, NoneIsNothing
     DEF SafetyInv, CommitDisable, Enabled, PointsAtGateway, Types, TypeOK, OpTypes, Operation
<1>9. CASE RefreshBackup
  <2>1. op.manifest \in Manifest /\ op.manifest.enabled /\ Enabled
    BY <1>9 DEF SafetyInv, RefreshBackup, Types, TypeOK, OpTypes, Operation
  <2>2. /\ op'.pc \in {"sync", "idle"}
        /\ op'.pc = "sync" => op'.manifest.enabled
        /\ op'.backup_before \in {op.backup_before, backup, None}
    <3>1. CASE op' = Idle
      BY <3>1, IdleTypes
    <3>2. CASE op' = [op EXCEPT !.pc = "sync"]
      BY <2>1, <3>2 DEF Types, TypeOK, Operation
    <3>3. CASE op' = [op EXCEPT !.pc = "sync", !.manifest.existed = FALSE]
      BY <2>1, <3>3 DEF Types, TypeOK, Operation, Manifest
    <3>4. CASE op' = [op EXCEPT !.pc = "sync", !.manifest.existed = TRUE,
                                !.backup_before = backup]
      BY <2>1, <3>4 DEF Types, TypeOK, Operation, Manifest
    <3> QED
      BY <1>9, <3>1, <3>2, <3>3, <3>4 DEF RefreshBackup
  <2>3. Lost => Lost'
    BY <1>9 DEF RefreshBackup, LostIf
  <2>4. PointsAtGateway(backup') => Lost'
    BY <1>9, <2>3, ManagedIsOurs DEF SafetyInv, RefreshBackup, LostIf
  <2> QED
    BY <1>9, <2>1, <2>2, <2>3, <2>4, NoneIsNothing DEF SafetyInv, RefreshBackup, Enabled
<1>10. CASE ApplySync
  <2>1. op.manifest \in Manifest /\ op.manifest.enabled /\ Enabled
    BY <1>10 DEF SafetyInv, ApplySync, Types, TypeOK, OpTypes, Operation
  <2>2. /\ op'.pc \in {"commit", "undo_backup", "idle"}
        /\ op'.pc = "commit" => op'.manifest.enabled
        /\ op'.backup_before \in {op.backup_before, None}
    <3>1. CASE op' = Idle
      BY <3>1, IdleTypes
    <3>2. CASE op' = [op EXCEPT !.pc = "undo_backup"]
      BY <3>2 DEF Types, TypeOK, Operation
    <3>3. CASE op' = [op EXCEPT !.pc = "commit", !.file_before = file,
                                !.manifest.base_origin = op.origin]
      BY <2>1, <3>3 DEF Types, TypeOK, Operation, Manifest
    <3> QED
      BY <1>10, <3>1, <3>2, <3>3 DEF ApplySync, ThenUndoBackup
  <2> QED
    BY <1>10, <2>1, <2>2, NoneIsNothing DEF SafetyInv, ApplySync, Enabled
<1>11. CASE CommitSync
  <2>1. CASE manifest' = op.manifest /\ op' = Idle /\ SyncedOver
    <3>1. PointsAtGateway(backup) => Lost'
      BY <1>11, <2>1 DEF SafetyInv, SurvivalInv, BackupIsNewest, CommitSync, SyncedOver
    <3>2. Enabled'
      BY <1>11, <2>1 DEF SafetyInv, CommitSync, Enabled, Types, OpTypes
    <3> QED
      BY <1>11, <2>1, <3>1, <3>2, IdleTypes, NoneIsNothing DEF SafetyInv, CommitSync
  <2>2. CASE op' = [op EXCEPT !.pc = "undo_file"] /\ UNCHANGED <<manifest, slip>>
    <3>1. op'.pc = "undo_file" /\ op'.backup_before = op.backup_before
      BY <2>2 DEF Types, TypeOK, Operation
    <3> QED
      BY <1>11, <2>2, <3>1, NoneIsNothing DEF SafetyInv, CommitSync, Enabled
  <2> QED
    BY <1>11, <2>1, <2>2 DEF CommitSync
<1>12. CASE UndoFile
  <2>1. Lost => Lost'
    BY <1>12 DEF UndoFile, LostIf
  <2>2. op'.pc \in {"idle", "undo_backup"} /\ op'.backup_before \in {op.backup_before, None}
    BY <1>12, IdleTypes DEF UndoFile, ThenUndoBackup, Types, TypeOK, Operation
  <2> QED
    BY <1>12, <2>1, <2>2, NoneIsNothing DEF SafetyInv, UndoFile, Enabled
<1>13. CASE UndoBackup
  BY <1>13, IdleTypes, NoneIsNothing
     DEF SafetyInv, UndoBackup, Enabled, Types, TypeOK, OpTypes, Operation
<1>14. CASE StopAndRestore
  BY <1>14, IdleTypes, NoneIsNothing
     DEF SafetyInv, StopAndRestore, KeepState, Resting, Enabled, Idle, PointsAtGateway
<1>15. CASE Exit
  BY <1>15, IdleTypes, NoneIsNothing
     DEF SafetyInv, Exit, KeepState, Resting, Enabled, Idle, PointsAtGateway
<1>16. CASE Crash
  BY <1>16, IdleTypes, NoneIsNothing DEF SafetyInv, Crash, Enabled, PointsAtGateway
<1>17. CASE Launch
  <2>1. op'.pc \in {"repair", "autostart"} /\ op'.backup_before = None
    BY <1>17 DEF Launch, Idle
  <2>2. Lost => Lost'
    BY <1>17 DEF Launch, Unrecorded
  <2>3. ~Enabled /\ PointsAtGateway(file) /\ ~Lost' =>
          ~Lost /\ (op'.pc = "repair" \/ slip' = "unrecorded")
    BY <1>17, <2>2 DEF Launch, Unrecorded, Idle
  <2> QED
    BY <1>17, <2>1, <2>2, <2>3, NoneIsNothing DEF SafetyInv, Launch, Enabled
<1>18. CASE StartupRepair
  <2>1. op'.pc = "autostart" /\ op'.backup_before = op.backup_before
    BY <1>18 DEF StartupRepair, Types, TypeOK, Operation
  <2>2. Lost => Lost'
    BY <1>18 DEF StartupRepair, Unrecorded, Recorded
  <2>3. CASE Unrecorded /\ UNCHANGED manifest
    <3>1. ~Enabled /\ PointsAtGateway(file) /\ ~Lost' => ~Lost /\ slip' = "unrecorded"
      BY <2>2, <2>3 DEF Unrecorded
    <3> QED
      BY <1>18, <2>1, <2>2, <2>3, <3>1, NoneIsNothing DEF SafetyInv, StartupRepair, Enabled
  <2>4. CASE manifest' = IF /\ manifest # None
                            /\ ~manifest.enabled
                            /\ is_proxy_config_applied(file, manifest.base_origin)
                         THEN [manifest EXCEPT !.enabled = TRUE] ELSE manifest
    <3>1. CASE Enabled
      BY <1>18, <2>1, <2>2, <2>4, <3>1, NoneIsNothing DEF SafetyInv, StartupRepair, Enabled
    <3>2. CASE ~Enabled /\ PointsAtGateway(file) /\ ~Lost
      <4>1. /\ manifest # None /\ ~manifest.enabled
            /\ is_proxy_config_applied(file, manifest.base_origin)
        BY <3>2 DEF SafetyInv, Enabled, PointsAtGateway, is_proxy_config_applied
      <4>2. manifest' = [manifest EXCEPT !.enabled = TRUE]
        BY <2>4, <4>1
      <4>3. manifest' \in Manifest /\ manifest'.enabled
        BY <4>1, <4>2 DEF Types, TypeOK, Manifest
      <4>4. Enabled'
        BY <4>3, NoneIsNothing DEF Enabled
      <4> QED
        BY <1>18, <2>1, <2>2, <4>4, NoneIsNothing DEF SafetyInv, StartupRepair
    <3>3. CASE ~PointsAtGateway(file) \/ Lost
      BY <1>18, <2>1, <2>2, <3>3, NoneIsNothing DEF SafetyInv, StartupRepair
    <3> QED
      BY <3>1, <3>2, <3>3
  <2> QED
    BY <1>18, <2>3, <2>4 DEF StartupRepair
<1>19. CASE AutostartFails
  BY <1>19, IdleTypes, NoneIsNothing
     DEF SafetyInv, AutostartFails, KeepState, Enabled, Idle, PointsAtGateway
<1>20. CASE Edit
  BY <1>20, EditedFile DEF SafetyInv, Edit, Resting, Enabled
<1>21. ASSUME NEW origin \in Origins, Enable(origin) PROVE SafetyInv'
  BY <1>21, IdleTypes, NoneIsNothing DEF SafetyInv, Enable, Resting, Enabled, Idle, PointsAtGateway
<1>22. ASSUME NEW origin \in Origins, StartAndSync(origin) PROVE SafetyInv'
  BY <1>22, IdleTypes, NoneIsNothing
     DEF SafetyInv, StartAndSync, Sync, Resting, Enabled, Idle, PointsAtGateway
<1>23. ASSUME NEW origin \in Origins, EnsureGateway(origin) PROVE SafetyInv'
  BY <1>23 DEF SafetyInv, EnsureGateway, Enabled, PointsAtGateway
<1>24. ASSUME NEW origin \in Origins, Replan(origin) PROVE SafetyInv'
  <2>1. Enabled'
    BY <1>24, NoneIsNothing DEF Replan, Enabled, Types, TypeOK, Manifest
  <2> QED
    BY <1>24, <2>1 DEF SafetyInv, Replan, Resting
<1>25. ASSUME NEW origin \in Origins, Autostart(origin) PROVE SafetyInv'
  BY <1>25, IdleTypes, NoneIsNothing
     DEF SafetyInv, Autostart, Sync, Enabled, Idle, PointsAtGateway
<1>26. CASE UNCHANGED vars
  BY <1>26 DEF SafetyInv, vars, Enabled, PointsAtGateway
<1> QED
  BY <1>1, <1>2, <1>3, <1>4, <1>5, <1>6, <1>7, <1>8, <1>9, <1>10, <1>11, <1>12, <1>13,
     <1>14, <1>15, <1>16, <1>17, <1>18, <1>19, <1>20, <1>21, <1>22, <1>23, <1>24, <1>25,
     <1>26 DEF Next

-----------------------------------------------------------------------------
(* The direct configuration.                                                *)

LEMMA InitSurvival == Init => SurvivalInv
<1> SUFFICES ASSUME Init PROVE SurvivalInv
  OBVIOUS
<1>1. ~PointsAtGateway(file)
  BY DirectIsDirect, NoEnvIsDirect, NoneIsNothing DEF Init
<1> QED
  BY <1>1, IdleTypes DEF Init, SurvivalInv, DirectSurvives, BackupIsNewest, UndoInv, TakenParses

\* Steps that leave the files alone and begin or end an operation.
LEMMA QuietSurvival ==
    ASSUME SurvivalInv, UNCHANGED <<file, backup, taken>>, Lost => Lost',
           op'.backup_before = None,
           op'.pc \notin {"record", "apply", "sync", "commit", "undo_file"}
    PROVE  SurvivalInv'
BY DEF SurvivalInv, DirectSurvives, BackupIsNewest, UndoInv, TakenParses, Lost

LEMMA NextSurvival ==
    ASSUME Types, SafetyInv, SurvivalInv, [Next]_vars
    PROVE  SurvivalInv'
<1> USE DEF DirectSurvives, BackupIsNewest, UndoInv, TakenParses, Lost, history
<1>1. CASE RepairDrift
  <2>1. op'.pc = "apply" /\ op'.backup_before = None /\ ~op'.first
    BY <1>1 DEF RepairDrift, Idle
  <2> QED
    BY <1>1, <2>1 DEF SurvivalInv, RepairDrift
<1>2. CASE BackupForEnable
  <2>1. op.backup_before = None /\ (PointsAtGateway(file) => slip # "none")
    BY <1>2 DEF SafetyInv, Life, TakenIsRecorded, EnableInv, BackupForEnable, Types, OpTypes
  <2>2. CASE op' = Idle /\ UNCHANGED <<backup, slip>>
    BY <1>2, <2>2, IdleTypes, QuietSurvival DEF BackupForEnable
  <2>3. CASE /\ backup' = IF file = Absent THEN backup ELSE file
             /\ op' = [op EXCEPT !.pc = "record",
                                 !.manifest = [enabled |-> FALSE, base_origin |-> op.origin,
                                               existed |-> file # Absent]]
             /\ StartsOver
    <3>1. op'.pc = "record" /\ op'.backup_before = None
      BY <2>1, <2>3 DEF Types, TypeOK, Operation
    <3>2. PointsAtGateway(file) => Lost'
      BY <2>1, <2>3 DEF StartsOver
    <3> QED
      BY <1>2, <2>3, <3>1, <3>2 DEF SurvivalInv, BackupForEnable
  <2> QED
    BY <1>2, <2>2, <2>3 DEF BackupForEnable
<1>3. CASE RecordSnapshot
  <2>1. op.first
    BY <1>3 DEF SafetyInv, EnableInv, RecordSnapshot
  <2>2. CASE op' = Idle
    BY <1>3, <2>2, IdleTypes, QuietSurvival DEF RecordSnapshot
  <2>3. CASE op' = [op EXCEPT !.pc = "apply"]
    <3>1. op'.pc = "apply" /\ op'.first = op.first
      BY <2>3 DEF Types, TypeOK, Operation
    <3> QED
      BY <1>3, <2>1, <3>1 DEF SurvivalInv, RecordSnapshot
  <2> QED
    BY <1>3, <2>2, <2>3 DEF RecordSnapshot
<1>4. CASE Apply
  <2>1. op.origin \in Origins /\ op.manifest \in Manifest
    BY <1>4 DEF Apply, Types, TypeOK, OpTypes, Operation
  <2>2. CASE /\ TakeOver /\ file # Garbled
             /\ op' = [op EXCEPT !.pc = "enable", !.manifest.enabled = TRUE,
                                 !.manifest.base_origin = op.origin]
             /\ LostIf(~op.first /\ file # Absent /\ ~PointsAtGateway(file))
    <3>1. op'.pc = "enable" /\ op'.backup_before = op.backup_before
      BY <2>1, <2>2 DEF Types, TypeOK, Operation, Manifest
    <3>2. taken' \in Doc \cup {Absent, None}
      BY <2>2 DEF SurvivalInv, TakeOver, Types, TypeOK, Files
    <3>3. taken' \notin {Absent, None} => backup = taken' \/ Lost'
      BY <1>4, <2>2 DEF SurvivalInv, TakeOver, Apply, LostIf
    <3> QED
      BY <1>4, <3>1, <3>2, <3>3 DEF Apply, SurvivalInv
  <2>3. CASE op' = Idle /\ UNCHANGED <<taken, slip>>
    <3>1. file' = file \/ ~PointsAtGateway(file') \/ Lost
      BY <1>4, <2>3, RestoredIsDirect, IdleTypes
         DEF Apply, SafetyInv, BackupsAreDirect, Types, TypeOK, Operation
    <3> QED
      BY <1>4, <2>3, <3>1, IdleTypes DEF Apply, SurvivalInv
  <2> QED
    BY <1>4, <2>2, <2>3 DEF Apply
<1>5. CASE CommitEnable
  <2>1. Lost => Lost'
    BY <1>5 DEF CommitEnable, Unrecorded
  <2> QED
    BY <1>5, <2>1, IdleTypes, QuietSurvival DEF CommitEnable
<1>6. CASE Disable
  <2>1. op'.pc = "restore" /\ op'.backup_before = None
    BY <1>6 DEF Disable, Idle
  <2> QED
    BY <1>6, <2>1, QuietSurvival DEF Disable
<1>7. CASE Restore
  <2>1. op'.pc \in {"idle", "disable"}
    BY <1>7, IdleTypes DEF Restore, Types, TypeOK, Operation
  <2>2. file' = file \/ ~PointsAtGateway(file') \/ Lost
    BY <1>7, RestoredIsDirect DEF Restore, SafetyInv, BackupsAreDirect, Types, TypeOK
  <2> QED
    BY <1>7, <2>1, <2>2 DEF SurvivalInv, Restore
<1>8. CASE CommitDisable
  BY <1>8, IdleTypes, QuietSurvival DEF CommitDisable
<1>9. CASE RefreshBackup
  <2>1. op.manifest \in Manifest /\ op.backup_before = None
    BY <1>9 DEF RefreshBackup, Types, TypeOK, OpTypes, Operation
  <2>2. CASE op' = Idle /\ UNCHANGED <<backup, slip>>
    BY <1>9, <2>2, IdleTypes, QuietSurvival DEF RefreshBackup
  <2>3. CASE /\ is_proxy_managed(file) /\ UNCHANGED <<backup, slip>>
             /\ op' = [op EXCEPT !.pc = "sync"]
    <3>1. op'.pc = "sync" /\ op'.backup_before = None
      BY <2>1, <2>3 DEF Types, TypeOK, Operation
    <3> QED
      BY <1>9, <2>3, <3>1, ManagedIsOurs DEF SurvivalInv, RefreshBackup
  <2>4. CASE /\ file = Absent /\ UNCHANGED <<backup, slip>>
             /\ op' = [op EXCEPT !.pc = "sync", !.manifest.existed = FALSE]
    <3>1. op'.pc = "sync" /\ op'.backup_before = None
      BY <2>1, <2>4 DEF Types, TypeOK, Operation, Manifest
    <3> QED
      BY <1>9, <2>4, <3>1, NoneIsNothing DEF SurvivalInv, RefreshBackup
  <2>5. CASE /\ ~is_proxy_managed(file) /\ file # Absent /\ backup' = file
             /\ op' = [op EXCEPT !.pc = "sync", !.manifest.existed = TRUE,
                                 !.backup_before = backup]
             /\ LostIf(Disguised(file))
    <3>1. op'.pc = "sync"
      BY <2>1, <2>5 DEF Types, TypeOK, Operation, Manifest
    <3>2. PointsAtGateway(file) => Lost'
      BY <2>5, ManagedIsOurs DEF LostIf
    <3> QED
      BY <1>9, <2>5, <3>1, <3>2 DEF SurvivalInv, RefreshBackup
  <2> QED
    BY <1>9, <2>2, <2>3, <2>4, <2>5 DEF RefreshBackup
<1>10. CASE ApplySync
  <2>1. op.origin \in Origins /\ op.manifest \in Manifest
    BY <1>10 DEF ApplySync, Types, TypeOK, OpTypes, Operation
  <2>2. CASE /\ TakeOver /\ file # Garbled
             /\ op' = [op EXCEPT !.pc = "commit", !.file_before = file,
                                 !.manifest.base_origin = op.origin]
    <3>1. op'.pc = "commit" /\ op'.file_before = file /\ op'.backup_before = op.backup_before
      BY <2>1, <2>2 DEF Types, TypeOK, Operation, Manifest
    <3>2. taken' \in Doc \cup {Absent, None}
      BY <2>2 DEF SurvivalInv, TakeOver, Types, TypeOK, Files
    <3>3. taken' \notin {Absent, None} => backup = taken' \/ Lost
      BY <1>10, <2>2 DEF SurvivalInv, TakeOver, ApplySync
    <3>4. ~PointsAtGateway(file) => taken' = file
      BY <2>2 DEF TakeOver
    <3> QED
      BY <1>10, <3>1, <3>2, <3>3, <3>4 DEF SurvivalInv, ApplySync
  <2>3. CASE ThenUndoBackup /\ UNCHANGED <<file, taken>>
    <3>1. op'.pc \in {"idle", "undo_backup"} /\ op'.backup_before \in {op.backup_before, None}
      BY <2>3, IdleTypes DEF ThenUndoBackup, Types, TypeOK, Operation
    <3> QED
      BY <1>10, <2>3, <3>1 DEF SurvivalInv, ApplySync
  <2> QED
    BY <1>10, <2>2, <2>3 DEF ApplySync
<1>11. CASE CommitSync
  <2>1. CASE op' = Idle /\ SyncedOver
    <3>1. PointsAtGateway(file) /\ taken \notin {Absent, None} => backup = taken \/ Lost'
      BY <1>11, <2>1 DEF SurvivalInv, CommitSync, SyncedOver
    <3> QED
      BY <1>11, <2>1, <3>1, IdleTypes DEF SurvivalInv, CommitSync
  <2>2. CASE op' = [op EXCEPT !.pc = "undo_file"] /\ UNCHANGED slip
    <3>1. /\ op'.pc = "undo_file" /\ op'.backup_before = op.backup_before
          /\ op'.file_before = op.file_before
      BY <2>2 DEF Types, TypeOK, Operation
    <3> QED
      BY <1>11, <2>2, <3>1 DEF SurvivalInv, CommitSync
  <2> QED
    BY <1>11, <2>1, <2>2 DEF CommitSync
<1>12. CASE UndoFile
  <2>1. op'.pc \in {"idle", "undo_backup"} /\ op'.backup_before \in {op.backup_before, None}
    BY <1>12, IdleTypes DEF UndoFile, ThenUndoBackup, Types, TypeOK, Operation
  <2>2. CASE file' = op.file_before /\ UNCHANGED slip
    BY <1>12, <2>1, <2>2 DEF SurvivalInv, UndoFile
  <2>3. CASE LostIf(op.backup_before # None) /\ UNCHANGED file
    BY <1>12, <2>1, <2>3 DEF SurvivalInv, UndoFile, LostIf
  <2> QED
    BY <1>12, <2>2, <2>3 DEF UndoFile
<1>13. CASE UndoBackup
  BY <1>13, IdleTypes DEF SurvivalInv, UndoBackup, Types, OpTypes
<1>14. CASE StopAndRestore
  BY <1>14, IdleTypes, QuietSurvival DEF StopAndRestore, KeepState, Idle
<1>15. CASE Exit
  BY <1>15, IdleTypes, QuietSurvival DEF Exit, KeepState, Idle
<1>16. CASE Crash
  BY <1>16, IdleTypes, QuietSurvival DEF Crash
<1>17. CASE Launch
  <2>1. Lost => Lost'
    BY <1>17 DEF Launch, Unrecorded
  <2> QED
    BY <1>17, <2>1, QuietSurvival DEF Launch, Idle
<1>18. CASE StartupRepair
  <2>1. op'.pc = "autostart" /\ op'.backup_before = op.backup_before
    BY <1>18 DEF StartupRepair, Types, TypeOK, Operation
  <2>2. Lost => Lost'
    BY <1>18 DEF StartupRepair, Unrecorded, Recorded
  <2> QED
    BY <1>18, <2>1, <2>2 DEF SurvivalInv, StartupRepair
<1>19. CASE AutostartFails
  BY <1>19, IdleTypes, QuietSurvival DEF AutostartFails, KeepState, Idle
<1>20. CASE Edit
  BY <1>20, EditedFile DEF SurvivalInv, Edit, Resting
<1>21. ASSUME NEW origin \in Origins, Enable(origin) PROVE SurvivalInv'
  BY <1>21, QuietSurvival DEF Enable, Idle
<1>22. ASSUME NEW origin \in Origins, StartAndSync(origin) PROVE SurvivalInv'
  BY <1>22, QuietSurvival DEF StartAndSync, Sync, Idle
<1>23. ASSUME NEW origin \in Origins, EnsureGateway(origin) PROVE SurvivalInv'
  BY <1>23 DEF SurvivalInv, EnsureGateway
<1>24. ASSUME NEW origin \in Origins, Replan(origin) PROVE SurvivalInv'
  BY <1>24 DEF SurvivalInv, Replan
<1>25. ASSUME NEW origin \in Origins, Autostart(origin) PROVE SurvivalInv'
  BY <1>25, QuietSurvival DEF Autostart, Sync, Idle
<1>26. CASE UNCHANGED vars
  BY <1>26 DEF SurvivalInv, vars
<1> QED
  BY <1>1, <1>2, <1>3, <1>4, <1>5, <1>6, <1>7, <1>8, <1>9, <1>10, <1>11, <1>12, <1>13,
     <1>14, <1>15, <1>16, <1>17, <1>18, <1>19, <1>20, <1>21, <1>22, <1>23, <1>24, <1>25,
     <1>26 DEF Next

LEMMA Invariance == Spec => [](Types /\ SafetyInv /\ SurvivalInv)
<1>1. Init => Types /\ SafetyInv /\ SurvivalInv
  BY InitTypes, InitSafety, InitSurvival
<1>2. Types /\ SafetyInv /\ SurvivalInv /\ [Next]_vars => Types' /\ SafetyInv' /\ SurvivalInv'
  BY NextTypes, NextSafety, NextSurvival
<1> QED
  BY <1>1, <1>2, PTL DEF Spec

-----------------------------------------------------------------------------
(* The theorems, for every choice of the writes that may fail and of the    *)
(* addresses a gateway is known by.                                         *)

\* The backup that enable takes (backup_for_enable) and a sync refreshes is never the
\* gateway's own configuration, so that a disable has something to give back, unless
\* an enable or a sync copied a file of the gateway that nothing told apart.
THEOREM BackupIsAlwaysDirect == Spec => []BackupIsDirect
<1>1. SafetyInv => BackupIsDirect
  BY DEF SafetyInv, BackupsAreDirect, BackupIsDirect, Lost
<1> QED
  BY <1>1, Invariance, PTL

\* While the proxy runs and nothing is under way, a CLI whose manifest says disabled
\* is not pointed at the gateway, in spite of failed writes and of crashes inside an
\* enable; where the last write of the enable or the repair of it was missed,
\* the file still has the address that startup_repair_incomplete_enable looks for.
THEOREM OffIsAlwaysDirect == Spec => []OffIsDirect
<1>1. SafetyInv => OffIsDirect
  BY DEF SafetyInv, Life, TakenIsRecorded, OffIsDirect, Resting, Lost
<1> QED
  BY <1>1, Invariance, PTL

\* The direct configuration that the proxy last wrote over is in the backup as long as
\* the file is the gateway's, through enables, syncs, failed writes with their
\* rollbacks, crashes and edits of the user, unless one of the four mistakes lost it.
THEOREM DirectAlwaysSurvives == Spec => []DirectSurvives
<1>1. SurvivalInv => DirectSurvives
  BY DEF SurvivalInv
<1> QED
  BY <1>1, Invariance, PTL

\* The one step that restores by a manifest.
LEMMA RestoreStep ==
    ASSUME Types, SurvivalInv, [Next]_vars, op.pc = "restore", op.manifest.existed,
           PointsAtGateway(file), taken \notin {Absent, None}, file' # file, slip # "lost"
    PROVE  file' = taken
<1>1. Restore
  BY DEF Next, vars, RepairDrift, BackupForEnable, RecordSnapshot, Apply, CommitEnable, Disable,
         CommitDisable, RefreshBackup, ApplySync, CommitSync, UndoFile, UndoBackup,
         StopAndRestore, Exit, Crash, Launch, StartupRepair, AutostartFails, Edit, Enable,
         StartAndSync, EnsureGateway, Replan, Autostart, Resting
<1>2. file' \in merge_restore(file, backup)
  BY <1>1 DEF Restore, Restored
<1>3. backup = taken /\ taken \in Doc
  BY DEF SurvivalInv, DirectSurvives, TakenParses
<1>4. file \in Doc /\ file # NoEnv
  BY NoEnvIsDirect DEF PointsAtGateway
<1> QED
  BY <1>2, <1>3, <1>4 DEF merge_restore

\* A restore at disable, stop or exit (restore_from_manifest) that changes a file taken
\* over leaves the direct configuration that was taken, if that was not lost before.
THEOREM RestoreAlwaysGivesBack == Spec => RestoreGivesBack
<1>1. Types /\ SurvivalInv /\ [Next]_vars =>
        [ /\ op.pc = "restore" /\ op.manifest.existed
          /\ PointsAtGateway(file) /\ taken \notin {Absent, None}
          /\ file' # file
          => file' = taken \/ slip = "lost" ]_vars
  BY RestoreStep
<1> QED
  BY <1>1, Invariance, PTL DEF Spec, RestoreGivesBack
=============================================================================
